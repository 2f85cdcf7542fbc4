--------------------------- MODULE StreamsProofs ---------------------------
(***************************************************************************)
(* Proofs about the streams that several consumers read at once: those of  *)
(* an SDK client (Subscriptions, for any channels, namespaces and depths,  *)
(* and ThreadStream, for any subscriptions, queues, drops and rotations)   *)
(* and those of a run (RunStream, for any consumers and any run).  The two *)
(* share no state.                                                         *)
(***************************************************************************)
EXTENDS Streams, SequenceTheorems, WellFoundedInduction, TLAPS

-----------------------------------------------------------------------------
(* filter_covers.                                                          *)


\* A namespace is a sequence of segments.
Segment == [name : STRING, id : STRING]
Namespace == Seq(Segment)

LEMMA SegmentTransitive ==
    ASSUME NEW a, NEW b, NEW c, Sdk!SegmentMatches(a, b), Sdk!SegmentMatches(b, c)
    PROVE  Sdk!SegmentMatches(a, c)
BY DEF Sdk!SegmentMatches

\* is_prefix_match is transitive.
LEMMA PrefixTransitive ==
    ASSUME NEW ns \in Namespace, NEW p \in Namespace, NEW q \in Namespace,
           Sdk!IsPrefixMatch(ns, p), Sdk!IsPrefixMatch(p, q)
    PROVE  Sdk!IsPrefixMatch(ns, q)
<1>1. Len(q) \in Nat /\ Len(p) \in Nat /\ Len(ns) \in Nat
    BY DEF Namespace
<1>2. Len(q) <= Len(p) /\ Len(p) <= Len(ns)
    BY DEF Sdk!IsPrefixMatch
<1>3. ASSUME NEW i \in 1 .. Len(q)
      PROVE  Sdk!SegmentMatches(ns[i], q[i])
    <2>1. i \in 1 .. Len(p)
        BY <1>1, <1>2
    <2>2. Sdk!SegmentMatches(ns[i], p[i]) /\ Sdk!SegmentMatches(p[i], q[i])
        BY <2>1 DEF Sdk!IsPrefixMatch
    <2> QED
        BY <2>2, SegmentTransitive
<1> QED
    BY <1>1, <1>2, <1>3 DEF Sdk!IsPrefixMatch

\* The event streams rely on filter_covers when they decide not to rotate: what
\* a covered subscription asks for reaches a stream with the covering filter.
\* A list of namespaces that is empty is excluded: such a subscription asks for
\* every namespace, and is taken to be covered by any list.
THEOREM CoveredIsDelivered ==
    ASSUME NEW Chs, NEW Nss \in SUBSET Namespace,
           NEW c \in Sdk!Filters(Chs, Nss), NEW t \in Sdk!Filters(Chs, Nss),
           Sdk!FilterCovers(c, t), t.scoped => t.namespaces # {},
           NEW e, e.namespace \in Namespace, Sdk!MatchesSubscription(e, t)
    PROVE  Sdk!MatchesSubscription(e, c)
<1>1. Sdk!ChannelMatches(e.channel, c)
    BY DEF Sdk!MatchesSubscription, Sdk!ChannelMatches, Sdk!FilterCovers
<1>2. CASE ~c.scoped
    BY <1>1, <1>2 DEF Sdk!MatchesSubscription, Sdk!NamespaceMatches
<1>3. CASE c.scoped
    <2>1. t.scoped /\ t.namespaces # {}
        BY <1>3 DEF Sdk!FilterCovers
    <2>2. PICK p \in t.namespaces : /\ Sdk!IsPrefixMatch(e.namespace, p)
                                    /\ t.bounded => Len(e.namespace) - Len(p) <= t.depth
        BY <2>1 DEF Sdk!MatchesSubscription, Sdk!NamespaceMatches
    <2>3. PICK q \in c.namespaces : Sdk!Within(p, q, c, t)
        BY <1>3, <2>2 DEF Sdk!FilterCovers
    <2>4. p \in Namespace /\ q \in Namespace /\ c.depth \in Nat /\ t.depth \in Nat
        BY <2>2, <2>3 DEF Sdk!Filters
    <2>5. Sdk!IsPrefixMatch(e.namespace, q)
        BY <2>2, <2>3, <2>4, PrefixTransitive DEF Sdk!Within
    <2>6. c.bounded => Len(e.namespace) - Len(q) <= c.depth
        <3>1. Len(e.namespace) \in Nat /\ Len(p) \in Nat /\ Len(q) \in Nat
            BY <2>4 DEF Namespace
        <3> QED
            BY <2>2, <2>3, <2>4, <3>1 DEF Sdk!Within
    <2> QED
        BY <1>1, <2>3, <2>5, <2>6 DEF Sdk!MatchesSubscription, Sdk!NamespaceMatches
<1> QED
    BY <1>2, <1>3
-----------------------------------------------------------------------------
(* The shared stream.                                                      *)

\* Every filter of the shared stream is one of channels only: the union always
\* includes the lifecycle of the thread, which is not scoped.
Asked  == (UNION {Params[s].channels : s \in Subs}) \cup {Sdk!Terminal}
Shape  == [channels : SUBSET Asked, scoped : {FALSE}, namespaces : {{}}, bounded : {FALSE},
           depth : {0}]
Event  == [channel : Kinds \cup {Sdk!Terminal}, namespace : {<<>>}]
Status == {"opening", "aborting", "ready", "closing", "refused", "dropped", "closed", "abandoned"}
Stream == [filter : Shape, pos : Nat, state : Status]
Fan    == [pc : {"none", "reading", "stuck", "reconnecting", "awaiting", "done", "cancelled"},
           cur : Nat, base : Shape, attempt : Nat, new : Nat]

\* Types, and what the fan-out reads: a stream that is open, none beyond the
\* cursor, the shared one or the one it has replaced.
StreamInv ==
    /\ log \in Seq(Event) /\ streams \in Seq(Stream)
    /\ shared \in 0 .. Len(streams) /\ filter \in Shape
    /\ cursor \in 0 .. Len(log) /\ seen \subseteq 1 .. cursor
    /\ fan \in Fan
    /\ fan.pc \in {"reading", "stuck"} => fan.cur \in 1 .. Len(streams)
    /\ fan.pc = "awaiting" => fan.new \in 1 .. Len(streams)
    /\ fan.pc = "reading" /\ fan.cur # shared => streams[shared].filter = filter
    /\ \A n \in 1 .. Len(streams) : streams[n].pos <= cursor
    /\ shared = 0 => fan.pc = "none" /\ \A s \in Subs : state[s] # "opening"
    /\ full \in BOOLEAN /\ jumped \in BOOLEAN /\ shut \in BOOLEAN

QueueInv ==
    /\ state \in [Subs -> {"idle", "registered", "opening", "iterating", "ended", "raised"}]
    /\ queue \in [Subs -> Seq(Nat)] /\ given \in [Subs -> Seq(Nat)]
    /\ start \in [Subs -> Nat \cup {Sdk!NoSeq}]
    /\ \A s \in Subs : state[s] = "idle" => queue[s] = <<>> /\ given[s] = <<>>
    /\ \A s \in Subs : Len(queue[s]) <= MaxQueue

\* What the fan-out reads, now or after a rotation or a reconnect, covers s.
Covering(s) ==
    /\ Sdk!FilterCovers(filter, Params[s])
    /\ shared # 0 /\ Sdk!FilterCovers(streams[shared].filter, Params[s])
    /\ fan.pc \in {"reading", "stuck"} => Sdk!FilterCovers(streams[fan.cur].filter, Params[s])
    /\ fan.pc = "reconnecting" => Sdk!FilterCovers(fan.base, Params[s])
    /\ fan.pc = "awaiting" => /\ Sdk!FilterCovers(fan.base, Params[s])
                              /\ Sdk!FilterCovers(streams[fan.new].filter, Params[s])

\* The events of e are some of S, each once, and s has asked for them.
Own(S, s, e) ==
    /\ \A i \in DOMAIN e : e[i] # Sdk!End => e[i] \in S /\ Sdk!Matches(e[i], s)
    /\ \A i, j \in DOMAIN e : i # j /\ e[i] # Sdk!End => e[i] # e[j]

\* e holds what s is owed up to k.
Holds(s, e, k) == \A m \in start[s] + 1 .. k : Sdk!Matches(m, s) => \E j \in DOMAIN e : e[j] = m

InOrder(s, e) ==
    /\ \A i \in DOMAIN e : e[i] # Sdk!End => e[i] > start[s] /\ Holds(s, e, e[i])
    /\ \A i, j \in DOMAIN e : i < j /\ e[i] # Sdk!End /\ e[j] # Sdk!End => e[i] < e[j]

\* A subscription that was covered has all that the cursor has passed.
OwedAll(s) ==
    /\ Holds(s, Sdk!Events(s), cursor)
    /\ \A i \in 1 .. cursor : Sdk!Matches(i, s) => i \in seen

SubInv(s) ==
    /\ Own(seen, s, Sdk!Events(s))
    /\ start[s] # Sdk!NoSeq =>
          /\ start[s] <= cursor
          /\ s \in Sdk!Registered => Covering(s)
          /\ ~full /\ ~jumped => InOrder(s, Sdk!Events(s)) /\ (s \in Sdk!Registered => OwedAll(s))

SdkInv == StreamInv /\ QueueInv /\ \A s \in Subs : SubInv(s)

\* Before the first stream nothing was read and nobody has got anything.
NothingYet ==
    shared = 0 => /\ ~jumped => cursor = 0
                  /\ \A s \in Subs : queue[s] = <<>> /\ given[s] = <<>>

-----------------------------------------------------------------------------
(* Lemmas.                                                                 *)

LEMMA MinFact ==
    ASSUME NEW S \in SUBSET Nat, S # {}
    PROVE  Sdk!Min(S) \in S /\ \A m \in S : Sdk!Min(S) <= m
<1> DEFINE R == {ss \in Nat \X Nat : ss[1] < ss[2]}
<1>1. IsWellFoundedOn(R, Nat)
    BY NatLessThanWellFounded DEF OpToRel
<1>2. \A a, b \in Nat : <<a, b>> \in R <=> a < b
    OBVIOUS
<1> HIDE DEF R
<1>3. PICK x \in S : \A y \in S : <<y, x>> \notin R
    BY <1>1, WFMin, Zenon
<1>4. \A m \in S : m \in Nat /\ x \in Nat /\ ~(m < x)
    BY <1>2, <1>3
<1>5. \A m \in S : x =< m
    BY <1>4
<1>6. \E n \in S : \A m \in S : n =< m
    BY <1>5
<1> QED
    BY <1>6 DEF Sdk!Min

LEMMA MaxFact ==
    ASSUME NEW a \in Nat, NEW b \in Nat
    PROVE  Sdk!Max({a, b}) = IF a <= b THEN b ELSE a
<1>1. \E x \in {a, b} : \A y \in {a, b} : x >= y
    OBVIOUS
<1>2. Sdk!Max({a, b}) \in {a, b} /\ \A y \in {a, b} : Sdk!Max({a, b}) >= y
    BY <1>1 DEF Sdk!Max
<1> QED
    BY <1>2

\* A shape covers what asks for no other channels.
LEMMA ShapeCovers ==
    ASSUME NEW c \in Shape, NEW t
    PROVE  Sdk!FilterCovers(c, t) <=> t.channels \subseteq c.channels
BY DEF Shape, Sdk!FilterCovers

LEMMA ShapeMatches ==
    ASSUME NEW c \in Shape, NEW t, Sdk!FilterCovers(c, t), NEW e, Sdk!MatchesSubscription(e, t)
    PROVE  Sdk!MatchesSubscription(e, c)
<1>1. t.channels \subseteq c.channels /\ ~c.scoped
    BY ShapeCovers DEF Shape
<1>2. Sdk!ChannelMatches(e.channel, t)
    BY DEF Sdk!MatchesSubscription
<1> QED
    BY <1>1, <1>2 DEF Sdk!MatchesSubscription, Sdk!ChannelMatches, Sdk!NamespaceMatches

LEMMA UnionShape ==
    ASSUME NEW s \in Subs
    PROVE  /\ Sdk!CurrentUnion(s) \in Shape
           /\ \A r \in Sdk!Registered \cup {s} : Sdk!FilterCovers(Sdk!CurrentUnion(s), Params[r])
<1> DEFINE fs == {Params[r] : r \in Sdk!Registered} \cup {Params[s], Sdk!Unscoped({Sdk!Terminal})}
           chs == UNION {f.channels : f \in fs}
           u == Sdk!CurrentUnion(s)
<1>1. ~Sdk!Unscoped({Sdk!Terminal}).scoped /\ ~Sdk!Unscoped({Sdk!Terminal}).bounded
      /\ Sdk!Unscoped({Sdk!Terminal}).channels = {Sdk!Terminal} /\ Sdk!Unscoped({Sdk!Terminal}) \in fs
    BY DEF Sdk!Unscoped, Sdk!Filter
<1>2. \A r \in Sdk!Registered \cup {s} : Params[r] \in fs
    OBVIOUS
<1>3. \A f \in fs : f.channels \subseteq Asked
    <2>1. \A r \in Subs : Params[r].channels \subseteq Asked
        BY DEF Asked
    <2> QED
        BY <1>1, <2>1 DEF Asked, Sdk!Registered
<1>4. u = Sdk!ComputeUnionFilter(fs)
    BY DEF Sdk!CurrentUnion
<1> HIDE DEF fs, u
<1>5. ~(\A f \in fs : f.scoped) /\ ~(\A f \in fs : f.bounded)
    BY <1>1, Zenon
<1>6. u = [channels |-> chs, scoped |-> FALSE, namespaces |-> {}, bounded |-> FALSE, depth |-> 0]
    <2> DEFINE A == \A f \in fs : f.scoped
               B == \A f \in fs : f.bounded
               nss == UNION {f.namespaces : f \in {g \in fs : g.scoped}}
               top == CHOOSE d \in {f.depth : f \in fs} : \A f \in fs : f.depth <= d
    <2>1. u = Sdk!Filter(chs, A /\ nss # {}, IF A THEN nss ELSE {}, B,
                         IF B /\ fs # {} THEN top ELSE 0)
        BY <1>4 DEF Sdk!ComputeUnionFilter
    <2>2. B = FALSE /\ (A /\ nss # {}) = FALSE
        BY <1>5, Zenon
    <2>3. (IF A THEN nss ELSE {}) = {} /\ (IF B /\ fs # {} THEN top ELSE 0) = 0
        BY <1>5, Zenon
    <2>4. u = Sdk!Filter(chs, FALSE, {}, FALSE, 0)
        BY <2>1, <2>2, <2>3, Zenon
    <2> QED
        BY <2>4 DEF Sdk!Filter
<1>7. chs \subseteq Asked
    BY <1>3
<1>8. u \in Shape
    BY <1>6, <1>7 DEF Shape
<1>9. \A r \in Sdk!Registered \cup {s} : Params[r].channels \subseteq u.channels
    BY <1>2, <1>6
<1> QED
    BY <1>8, <1>9, ShapeCovers DEF u

LEMMA StatusSet ==
    ASSUME NEW ss \in Seq(Stream), NEW n \in 1 .. Len(ss), NEW st \in Status, NEW r,
           r = [ss EXCEPT ![n].state = st]
    PROVE  /\ r \in Seq(Stream) /\ Len(r) = Len(ss)
           /\ \A m \in 1 .. Len(ss) : r[m].filter = ss[m].filter /\ r[m].pos = ss[m].pos
<1>1. ss[n] \in Stream
    OBVIOUS
<1>2. [ss[n] EXCEPT !.state = st] \in Stream
      /\ [ss[n] EXCEPT !.state = st].filter = ss[n].filter
      /\ [ss[n] EXCEPT !.state = st].pos = ss[n].pos
    BY <1>1 DEF Stream
<1>3. r = [ss EXCEPT ![n] = [ss[n] EXCEPT !.state = st]]
    OBVIOUS
<1> QED
    BY <1>2, <1>3

LEMMA PosSet ==
    ASSUME NEW ss \in Seq(Stream), NEW n \in 1 .. Len(ss), NEW p \in Nat, NEW r,
           r = [ss EXCEPT ![n].pos = p]
    PROVE  /\ r \in Seq(Stream) /\ Len(r) = Len(ss)
           /\ \A m \in 1 .. Len(ss) : /\ r[m].filter = ss[m].filter
                                      /\ r[m].pos = IF m = n THEN p ELSE ss[m].pos
<1>1. ss[n] \in Stream
    OBVIOUS
<1>2. [ss[n] EXCEPT !.pos = p] \in Stream
      /\ [ss[n] EXCEPT !.pos = p].filter = ss[n].filter
      /\ [ss[n] EXCEPT !.pos = p].pos = p
    BY <1>1 DEF Stream
<1>3. r = [ss EXCEPT ![n] = [ss[n] EXCEPT !.pos = p]]
    OBVIOUS
<1> QED
    BY <1>2, <1>3

LEMMA StreamOpened ==
    ASSUME NEW ss \in Seq(Stream), NEW f \in Shape, NEW k \in Nat, NEW r,
           r = Append(ss, Sdk!Opened(f, k))
    PROVE  /\ r \in Seq(Stream) /\ Len(r) = Len(ss) + 1 /\ Len(ss) \in Nat
           /\ \A m \in 1 .. Len(ss) : r[m] = ss[m]
           /\ r[Len(r)].filter = f /\ r[Len(r)].pos = k
<1>1. Sdk!Opened(f, k) \in Stream /\ Sdk!Opened(f, k).filter = f /\ Sdk!Opened(f, k).pos = k
    BY DEF Sdk!Opened, Stream, Status
<1> QED
    BY <1>1

\* A step that leaves what is read and what it carries alone.
LEMMA CoverSame ==
    ASSUME StreamInv, NEW s \in Subs, Covering(s),
           filter' = filter, shared' = shared, fan' = fan,
           \A n \in 1 .. Len(streams) : streams'[n].filter = streams[n].filter
    PROVE  Covering(s)'
BY DEF Covering, StreamInv

\* A step that may give s what it is due or take it, and passes no other event.
LEMMA SubMoved ==
    ASSUME StreamInv, NEW s \in Subs, SubInv(s),
           seen \subseteq seen', cursor' \in Nat, cursor <= cursor',
           \A i \in 1 .. cursor : log'[i] = log[i],
           start[s] \in Nat \cup {Sdk!NoSeq}, start'[s] = start[s],
           full => full', jumped => jumped',
           cursor' = cursor \/ jumped' \/ full' \/ s \notin Sdk!Registered',
           NEW e, e = Sdk!Events(s), NEW d, d = Sdk!Events(s)',
           Own(seen, s, e) => Own(seen, s, d),
           start[s] \in Nat /\ InOrder(s, e) => InOrder(s, d),
           s \in Sdk!Registered' =>
               (start[s] \in Nat /\ Holds(s, e, cursor) => Holds(s, d, cursor)),
           s \in Sdk!Registered' => s \in Sdk!Registered,
           s \in Sdk!Registered' /\ start[s] # Sdk!NoSeq => Covering(s)'
    PROVE  SubInv(s)'
<1>0. cursor \in Nat /\ seen \subseteq 1 .. cursor
    BY DEF StreamInv
<1>2. \A i \in 1 .. cursor : Sdk!Matches(i, s)' <=> Sdk!Matches(i, s)
    BY DEF Sdk!Matches
<1>3. Own(seen, s, d)
    BY DEF SubInv
<1>4. Own(seen, s, d)'
    BY <1>0, <1>2, <1>3 DEF Own
<1>5. ASSUME start[s] # Sdk!NoSeq, ~full', ~jumped', start[s] <= cursor, start[s] \in Nat
      PROVE  InOrder(s, d)' /\ (s \in Sdk!Registered' => OwedAll(s)')
    <2>1. InOrder(s, e) /\ (s \in Sdk!Registered => OwedAll(s))
        BY <1>5 DEF SubInv
    <2>2. \A k \in 0 .. cursor : Holds(s, d, k) => Holds(s, d, k)'
        BY <1>0, <1>2, <1>5 DEF Holds
    <2>3. \A i \in DOMAIN d : d[i] # Sdk!End => d[i] \in 0 .. cursor
        <3>1. \A i \in DOMAIN d : d[i] # Sdk!End => d[i] \in seen
            BY <1>3, Zenon DEF Own
        <3>2. \A x \in seen : x \in 0 .. cursor
            BY <1>0
        <3> QED
            BY <3>1, <3>2, Zenon
    <2>4. InOrder(s, d)
        BY <1>5, <2>1
    <2>5. InOrder(s, d)'
        BY <1>5, <2>2, <2>3, <2>4 DEF InOrder
    <2>6. ASSUME s \in Sdk!Registered'
          PROVE  OwedAll(s)'
        <3>1. cursor' = cursor
            BY <1>5, <2>6
        <3>2. Holds(s, e, cursor) /\ \A i \in 1 .. cursor : Sdk!Matches(i, s) => i \in seen
            BY <2>1, <2>6 DEF OwedAll
        <3>3. Holds(s, d, cursor)'
            BY <1>0, <1>5, <2>2, <2>6, <3>1, <3>2
        <3>4. \A i \in 1 .. cursor' : Sdk!Matches(i, s)' => i \in seen'
            BY <1>2, <3>1, <3>2
        <3> QED
            BY <3>3, <3>4 DEF OwedAll
    <2> QED
        BY <2>5, <2>6
<1>6. ASSUME start[s] # Sdk!NoSeq
      PROVE  start[s] \in Nat /\ start[s] <= cursor /\ start[s] <= cursor'
    BY <1>0, <1>6 DEF SubInv
<1> QED
    BY <1>4, <1>5, <1>6 DEF SubInv

\* A step that leaves the events of s alone.
LEMMA SubKept ==
    ASSUME StreamInv, NEW s \in Subs, SubInv(s),
           seen \subseteq seen', cursor' \in Nat, cursor <= cursor',
           \A i \in 1 .. cursor : log'[i] = log[i],
           start[s] \in Nat \cup {Sdk!NoSeq}, start'[s] = start[s],
           full => full', jumped => jumped',
           cursor' = cursor \/ jumped' \/ full' \/ s \notin Sdk!Registered',
           given'[s] = given[s], queue'[s] = queue[s],
           s \in Sdk!Registered' => s \in Sdk!Registered,
           s \in Sdk!Registered' /\ start[s] # Sdk!NoSeq => Covering(s)'
    PROVE  SubInv(s)'
<1>1. PICK e : e = Sdk!Events(s) /\ e = Sdk!Events(s)'
    BY DEF Sdk!Events
<1> QED
    BY <1>1, SubMoved

LEMMA QuietStep ==
    ASSUME SdkInv, StreamInv', QueueInv',
           UNCHANGED <<log, cursor, seen, queue, given, start, full, jumped>>,
           \A s \in Subs : s \in Sdk!Registered' => s \in Sdk!Registered,
           \A s \in Subs : s \in Sdk!Registered /\ start[s] # Sdk!NoSeq /\ Covering(s) => Covering(s)'
    PROVE  SdkInv'
<1>1. ASSUME NEW s \in Subs
      PROVE  SubInv(s)'
    <2>1. StreamInv /\ SubInv(s) /\ start[s] \in Nat \cup {Sdk!NoSeq}
        BY DEF SdkInv, QueueInv
    <2>2. cursor \in Nat
        BY <2>1 DEF StreamInv
    <2>3. s \in Sdk!Registered /\ start[s] # Sdk!NoSeq => Covering(s)
        BY <2>1 DEF SubInv
    <2> QED
        BY <2>1, <2>2, <2>3, SubKept
<1> QED
    BY <1>1 DEF SdkInv

LEMMA InitSdk ==
    ASSUME MaxQueue \in Nat, Sdk!Init
    PROVE  SdkInv
<1>1. Sdk!Unscoped({}) \in Shape
    BY DEF Sdk!Unscoped, Sdk!Filter, Shape
<1>2. Sdk!Idle \in Fan /\ Sdk!Idle.pc = "none"
    BY <1>1 DEF Sdk!Idle, Fan
<1>3. StreamInv
    <2>1. /\ log = <<>> /\ streams = <<>> /\ shared = 0 /\ filter \in Shape
          /\ cursor = 0 /\ seen = {} /\ fan \in Fan /\ fan.pc = "none"
          /\ full = FALSE /\ jumped = FALSE /\ shut = FALSE
          /\ \A s \in Subs : state[s] = "idle"
        BY <1>1, <1>2 DEF Sdk!Init
    <2>2. log \in Seq(Event) /\ Len(log) = 0 /\ streams \in Seq(Stream) /\ Len(streams) = 0
        BY <2>1
    <2>3. /\ shared \in 0 .. Len(streams) /\ cursor \in 0 .. Len(log) /\ seen \subseteq 1 .. cursor
          /\ \A n \in 1 .. Len(streams) : streams[n].pos <= cursor
        BY <2>1, <2>2
    <2>4. \A s \in Subs : state[s] # "opening"
        BY <2>1
    <2>5. full \in BOOLEAN /\ jumped \in BOOLEAN /\ shut \in BOOLEAN
        BY <2>1
    <2>6. fan.pc \notin {"reading", "stuck", "awaiting"}
        BY <2>1
    <2> QED
        BY <2>1, <2>2, <2>3, <2>4, <2>5, <2>6, Zenon DEF StreamInv
<1>4. QueueInv
    BY DEF Sdk!Init, QueueInv, Sdk!NoSeq
<1>5. ASSUME NEW s \in Subs
      PROVE  SubInv(s)
    <2>1. Sdk!Events(s) = <<>> /\ start[s] = Sdk!NoSeq
        BY DEF Sdk!Init, Sdk!Events
    <2> QED
        BY <2>1 DEF SubInv, Own
<1> QED
    BY <1>3, <1>4, <1>5 DEF SdkInv

-----------------------------------------------------------------------------
(* The server and the network.                                             *)

LEMMA EmitInv ==
    ASSUME SdkInv, Sdk!Emit
    PROVE  SdkInv'
<1>1. StreamInv /\ QueueInv
    BY DEF SdkInv
<1>2. PICK ch \in Kinds \cup {Sdk!Terminal} :
          log' = Append(log, [channel |-> ch, namespace |-> <<>>])
    BY DEF Sdk!Emit
<1>3. [channel |-> ch, namespace |-> <<>>] \in Event
    BY <1>2 DEF Event
<1>4. /\ log' \in Seq(Event) /\ Len(log') = Len(log) + 1 /\ Len(log) \in Nat
      /\ \A i \in 1 .. Len(log) : log'[i] = log[i]
    BY <1>1, <1>2, <1>3 DEF StreamInv
<1>5. UNCHANGED <<Sdk!streamVars, cursor, seen, fan, Sdk!subVars, shut, Sdk!noteVars>>
    BY DEF Sdk!Emit
<1>6. StreamInv'
    BY <1>1, <1>4, <1>5 DEF StreamInv, Sdk!streamVars, Sdk!subVars, Sdk!noteVars, Stream, Fan
<1>7. QueueInv'
    BY <1>1, <1>5 DEF QueueInv, Sdk!subVars, Sdk!noteVars
<1>8. ASSUME NEW s \in Subs
      PROVE  SubInv(s)'
    <2>1. SubInv(s) /\ start[s] \in Nat \cup {Sdk!NoSeq} /\ cursor \in Nat
          /\ \A i \in 1 .. cursor : log'[i] = log[i]
        BY <1>1, <1>4 DEF SdkInv, QueueInv, StreamInv
    <2>2. s \in Sdk!Registered' => s \in Sdk!Registered
        BY <1>5 DEF Sdk!Registered, Sdk!subVars
    <2>3. Covering(s) => Covering(s)'
        BY <1>1, <1>5, CoverSame DEF Sdk!streamVars
    <2>4. s \in Sdk!Registered /\ start[s] # Sdk!NoSeq => Covering(s)
        BY <2>1 DEF SubInv
    <2> QED
        BY <1>1, <1>5, <2>1, <2>2, <2>3, <2>4, SubKept DEF Sdk!subVars, Sdk!noteVars
<1> QED
    BY <1>6, <1>7, <1>8 DEF SdkInv

\* Only the status of a stream is changed.
LEMMA StatusInv ==
    ASSUME SdkInv, NEW n \in 1 .. Len(streams), NEW st \in Status,
           streams' = [streams EXCEPT ![n].state = st],
           UNCHANGED <<log, shared, filter, cursor, seen, fan, Sdk!subVars, shut, start, jumped, full>>
    PROVE  SdkInv'
<1>1. StreamInv /\ QueueInv /\ streams \in Seq(Stream)
    BY DEF SdkInv, StreamInv
<1>2. /\ streams' \in Seq(Stream) /\ Len(streams') = Len(streams)
      /\ \A m \in 1 .. Len(streams) : /\ streams'[m].filter = streams[m].filter
                                      /\ streams'[m].pos = streams[m].pos
    BY <1>1, StatusSet
<1>3. StreamInv'
    BY <1>1, <1>2 DEF StreamInv, Sdk!subVars
<1>4. QueueInv'
    BY <1>1 DEF QueueInv, Sdk!subVars
<1>5. \A s \in Subs : s \in Sdk!Registered' => s \in Sdk!Registered
    BY DEF Sdk!Registered, Sdk!subVars
<1>6. \A s \in Subs : Covering(s) => Covering(s)'
    BY <1>1, <1>2, CoverSame
<1> QED
    BY <1>3, <1>4, <1>5, <1>6, QuietStep DEF Sdk!subVars

LEMMA NetworkInv ==
    ASSUME SdkInv, NEW n \in DOMAIN streams, Sdk!Accept(n) \/ Sdk!Drop(n) \/ Sdk!CloseOld(n)
    PROVE  SdkInv'
<1>1. n \in 1 .. Len(streams)
    BY DEF SdkInv, StreamInv
<1>2. \E st \in Status : streams' = [streams EXCEPT ![n].state = st]
    BY DEF Sdk!Accept, Sdk!Drop, Sdk!CloseOld, Status
<1>3. UNCHANGED <<log, shared, filter, cursor, seen, fan, Sdk!subVars, shut, start, jumped, full>>
    BY DEF Sdk!Accept, Sdk!Drop, Sdk!CloseOld, Sdk!noteVars
<1> QED
    BY <1>1, <1>2, <1>3, StatusInv

LEMMA JumpInv ==
    ASSUME SdkInv, Sdk!Jump
    PROVE  SdkInv'
<1>1. StreamInv /\ QueueInv
    BY DEF SdkInv
<1>2. /\ cursor < Len(log) /\ cursor' = Len(log) /\ jumped' = TRUE
      /\ UNCHANGED <<log, Sdk!streamVars, seen, fan, Sdk!subVars, shut, start, full>>
    BY DEF Sdk!Jump
<1>3. cursor \in Nat /\ Len(log) \in Nat /\ streams \in Seq(Stream)
    BY <1>1 DEF StreamInv
<1>4. \A n \in 1 .. Len(streams) : streams[n].pos \in Nat
    <2>1. \A n \in 1 .. Len(streams) : streams[n] \in Stream
        BY <1>3
    <2> QED
        BY <2>1 DEF Stream
<1>5. StreamInv'
    BY <1>1, <1>2, <1>3, <1>4 DEF StreamInv, Sdk!streamVars, Sdk!subVars
<1>6. QueueInv'
    BY <1>1, <1>2 DEF QueueInv, Sdk!subVars
<1>7. ASSUME NEW s \in Subs
      PROVE  SubInv(s)'
    <2>1. SubInv(s) /\ start[s] \in Nat \cup {Sdk!NoSeq} /\ cursor <= cursor'
        BY <1>1, <1>2, <1>3 DEF SdkInv, QueueInv
    <2>2. s \in Sdk!Registered' => s \in Sdk!Registered
        BY <1>2 DEF Sdk!Registered, Sdk!subVars
    <2>3. Covering(s) => Covering(s)'
        BY <1>1, <1>2, CoverSame DEF Sdk!streamVars
    <2>4. s \in Sdk!Registered /\ start[s] # Sdk!NoSeq => Covering(s)
        BY <2>1 DEF SubInv
    <2> QED
        BY <1>1, <1>2, <1>3, <2>1, <2>2, <2>3, <2>4, SubKept DEF Sdk!subVars
<1> QED
    BY <1>5, <1>6, <1>7 DEF SdkInv

LEMMA CloseInv ==
    ASSUME SdkInv, Sdk!Close
    PROVE  SdkInv'
<1>1. StreamInv /\ QueueInv /\ streams \in Seq(Stream)
    BY DEF SdkInv, StreamInv
<1>2. /\ shut' = TRUE
      /\ fan' = IF fan.pc \in {"none", "done"} THEN fan ELSE [fan EXCEPT !.pc = "cancelled"]
      /\ UNCHANGED <<log, shared, filter, cursor, seen, Sdk!subVars, Sdk!noteVars>>
    BY DEF Sdk!Close
<1>3. /\ streams' \in Seq(Stream) /\ Len(streams') = Len(streams)
      /\ \A m \in 1 .. Len(streams) : /\ streams'[m].filter = streams[m].filter
                                      /\ streams'[m].pos = streams[m].pos
    <2> DEFINE st(n) == IF streams[n].state \in {"opening", "aborting"} THEN "abandoned"
                        ELSE IF streams[n].state \in {"ready", "closing"} THEN "closed"
                        ELSE streams[n].state
    <2>1. streams' = [n \in DOMAIN streams |-> [streams[n] EXCEPT !.state = st(n)]]
        BY DEF Sdk!Close
    <2>2. \A n \in 1 .. Len(streams) : streams[n] \in Stream
        BY <1>1
    <2>3. \A n \in 1 .. Len(streams) : st(n) \in Status
        BY <2>2 DEF Stream, Status
    <2> HIDE DEF st
    <2>4. \A n \in 1 .. Len(streams) : /\ [streams[n] EXCEPT !.state = st(n)] \in Stream
                                       /\ [streams[n] EXCEPT !.state = st(n)].filter = streams[n].filter
                                       /\ [streams[n] EXCEPT !.state = st(n)].pos = streams[n].pos
        BY <2>2, <2>3 DEF Stream
    <2>5. DOMAIN streams = 1 .. Len(streams) /\ Len(streams) \in Nat
        BY <1>1
    <2> DEFINE g(n) == [streams[n] EXCEPT !.state = st(n)]
    <2>6. streams' = [n \in 1 .. Len(streams) |-> g(n)]
        BY <2>1, <2>5
    <2>7. \A n \in 1 .. Len(streams) : g(n) \in Stream /\ g(n).filter = streams[n].filter
                                                     /\ g(n).pos = streams[n].pos
        BY <2>4
    <2> HIDE DEF g
    <2>8. streams' \in Seq(Stream) /\ Len(streams') = Len(streams)
        BY <2>5, <2>6, <2>7
    <2>9. \A n \in 1 .. Len(streams) : streams'[n] = g(n)
        BY <2>6
    <2> QED
        BY <2>7, <2>8, <2>9
<1>4. fan' \in Fan /\ fan'.pc \in {"none", "done", "cancelled"}
      /\ (fan.pc = "none" => fan'.pc = "none")
    <2>1. fan \in Fan
        BY <1>1 DEF StreamInv
    <2> QED
        BY <1>2, <2>1 DEF Fan
<1>5. StreamInv'
    BY <1>1, <1>2, <1>3, <1>4 DEF StreamInv, Sdk!subVars, Sdk!noteVars
<1>6. QueueInv'
    BY <1>1, <1>2 DEF QueueInv, Sdk!subVars, Sdk!noteVars
<1>7. \A s \in Subs : s \in Sdk!Registered' => s \in Sdk!Registered
    BY <1>2 DEF Sdk!Registered, Sdk!subVars
<1>8. \A s \in Subs : Covering(s) => Covering(s)'
    BY <1>1, <1>2, <1>3, <1>4 DEF Covering, StreamInv
<1> QED
    BY <1>2, <1>5, <1>6, <1>7, <1>8, QuietStep DEF Sdk!subVars, Sdk!noteVars

-----------------------------------------------------------------------------
(* The events of a subscription.                                           *)

LEMMA SameSequence ==
    ASSUME NEW S, NEW u \in Seq(S), NEW v \in Seq(S),
           Len(u) = Len(v), \A i \in 1 .. Len(u) : u[i] = v[i]
    PROVE  u = v
OBVIOUS

LEMMA Concat ==
    ASSUME NEW g \in Seq(Nat), NEW q \in Seq(Nat)
    PROVE  /\ g \o q \in Seq(Nat) /\ Len(g \o q) = Len(g) + Len(q)
           /\ \A i \in 1 .. Len(g) : (g \o q)[i] = g[i]
           /\ \A i \in 1 .. Len(q) : (g \o q)[Len(g) + i] = q[i]
OBVIOUS

LEMMA Rest ==
    ASSUME NEW q \in Seq(Nat), q # <<>>
    PROVE  /\ Tail(q) \in Seq(Nat) /\ Len(Tail(q)) = Len(q) - 1 /\ Len(q) >= 1
           /\ \A i \in 1 .. Len(q) - 1 : Tail(q)[i] = q[i + 1]
           /\ Head(q) = q[1] /\ Head(q) \in Nat
OBVIOUS

LEMMA Added ==
    ASSUME NEW e \in Seq(Nat), NEW x \in Nat
    PROVE  /\ Append(e, x) \in Seq(Nat) /\ Len(Append(e, x)) = Len(e) + 1 /\ Len(e) \in Nat
           /\ \A i \in 1 .. Len(e) : Append(e, x)[i] = e[i]
           /\ Append(e, x)[Len(e) + 1] = x
OBVIOUS

LEMMA AddedLater ==
    ASSUME NEW g \in Seq(Nat), NEW q \in Seq(Nat), NEW x \in Nat
    PROVE  g \o Append(q, x) = Append(g \o q, x)
<1> DEFINE u == g \o Append(q, x)
           v == Append(g \o q, x)
<1>1. /\ u \in Seq(Nat) /\ Len(u) = Len(g) + Len(q) + 1 /\ Len(g) \in Nat /\ Len(q) \in Nat
      /\ \A i \in 1 .. Len(g) : u[i] = g[i]
      /\ \A i \in 1 .. Len(q) : u[Len(g) + i] = q[i]
      /\ u[Len(g) + Len(q) + 1] = x
    <2> DEFINE p == Append(q, x)
    <2>1. /\ p \in Seq(Nat) /\ Len(p) = Len(q) + 1 /\ Len(q) \in Nat /\ Len(g) \in Nat
          /\ \A i \in 1 .. Len(q) : p[i] = q[i]
          /\ p[Len(q) + 1] = x
        BY Added
    <2> HIDE DEF p
    <2>2. /\ g \o p \in Seq(Nat) /\ Len(g \o p) = Len(g) + Len(p)
          /\ \A i \in 1 .. Len(g) : (g \o p)[i] = g[i]
          /\ \A i \in 1 .. Len(p) : (g \o p)[Len(g) + i] = p[i]
        BY <2>1, Concat
    <2>3. (g \o p)[Len(g) + Len(q) + 1] = x
        <3>1. Len(q) + 1 \in 1 .. Len(p)
            BY <2>1
        <3>2. (g \o p)[Len(g) + (Len(q) + 1)] = x
            BY <2>1, <2>2, <3>1
        <3> QED
            BY <2>1, <3>2
    <2> QED
        BY <2>1, <2>2, <2>3 DEF p
<1>2. /\ v \in Seq(Nat) /\ Len(v) = Len(g) + Len(q) + 1
      /\ \A i \in 1 .. Len(g) : v[i] = g[i]
      /\ \A i \in 1 .. Len(q) : v[Len(g) + i] = q[i]
      /\ v[Len(g) + Len(q) + 1] = x
    <2> DEFINE w == g \o q
    <2>1. /\ w \in Seq(Nat) /\ Len(w) = Len(g) + Len(q) /\ Len(g) \in Nat /\ Len(q) \in Nat
          /\ \A i \in 1 .. Len(g) : w[i] = g[i]
          /\ \A i \in 1 .. Len(q) : w[Len(g) + i] = q[i]
        BY Concat
    <2> HIDE DEF w
    <2>2. /\ Append(w, x) \in Seq(Nat) /\ Len(Append(w, x)) = Len(w) + 1
          /\ \A i \in 1 .. Len(w) : Append(w, x)[i] = w[i]
          /\ Append(w, x)[Len(w) + 1] = x
        BY <2>1, Added
    <2> QED
        BY <2>1, <2>2 DEF w
<1> HIDE DEF u, v
<1>3. ASSUME NEW i \in 1 .. Len(u)
      PROVE  u[i] = v[i]
    <2>1. CASE i <= Len(g)
        BY <1>1, <1>2, <2>1
    <2>2. CASE i > Len(g) /\ i <= Len(g) + Len(q)
        <3>1. i - Len(g) \in 1 .. Len(q) /\ i = Len(g) + (i - Len(g))
            BY <1>1, <2>2
        <3> QED
            BY <1>1, <1>2, <3>1
    <2>3. CASE i = Len(g) + Len(q) + 1
        BY <1>1, <1>2, <2>3
    <2> QED
        BY <1>1, <2>1, <2>2, <2>3
<1> QED
    BY <1>1, <1>2, <1>3, SameSequence DEF u, v

\* The iterator takes the first of the queue: what it yields stays in its
\* place, a sentinel is left out.
LEMMA Taken ==
    ASSUME NEW g \in Seq(Nat), NEW q \in Seq(Nat), q # <<>>
    PROVE  /\ Append(g, Head(q)) \o Tail(q) = g \o q
           /\ g \o Tail(q) \in Seq(Nat) /\ Len(g \o Tail(q)) = Len(g \o q) - 1
           /\ Len(g) \in Nat /\ Len(g) < Len(g \o q) /\ Len(g \o q) \in Nat
           /\ (g \o q)[Len(g) + 1] = Head(q)
           /\ \A i \in 1 .. Len(g) : (g \o Tail(q))[i] = (g \o q)[i]
           /\ \A i \in Len(g) + 1 .. Len(g \o q) - 1 : (g \o Tail(q))[i] = (g \o q)[i + 1]
<1> DEFINE t == Tail(q)
           h == Head(q)
           e == g \o q
           d == g \o t
<1>1. /\ t \in Seq(Nat) /\ Len(t) = Len(q) - 1 /\ Len(q) \in Nat /\ Len(q) >= 1
      /\ \A i \in 1 .. Len(q) - 1 : t[i] = q[i + 1]
      /\ h = q[1] /\ h \in Nat /\ Len(g) \in Nat
    BY Rest
<1>2. /\ e \in Seq(Nat) /\ Len(e) = Len(g) + Len(q)
      /\ \A i \in 1 .. Len(g) : e[i] = g[i]
      /\ \A i \in 1 .. Len(q) : e[Len(g) + i] = q[i]
    BY Concat
<1> HIDE DEF t, h, e
<1>3. /\ d \in Seq(Nat) /\ Len(d) = Len(g) + Len(t)
      /\ \A i \in 1 .. Len(g) : d[i] = g[i]
      /\ \A i \in 1 .. Len(t) : d[Len(g) + i] = t[i]
    BY <1>1, Concat
<1> HIDE DEF d
<1>4. ASSUME NEW i \in Len(g) + 1 .. Len(e) - 1
      PROVE  d[i] = e[i + 1]
    <2>0. Len(e) = Len(g) + Len(q) /\ Len(t) = Len(q) - 1 /\ Len(g) \in Nat /\ Len(q) \in Nat
        BY <1>1, <1>2
    <2> DEFINE j == i - Len(g)
    <2>1. i = Len(g) + j /\ j \in 1 .. Len(t) /\ j + 1 \in 1 .. Len(q) /\ j \in 1 .. Len(q) - 1
        BY <2>0
    <2> HIDE DEF j
    <2>2. d[i] = t[j] /\ t[j] = q[j + 1] /\ e[Len(g) + (j + 1)] = q[j + 1]
        BY <1>1, <1>2, <1>3, <2>1
    <2>3. Len(g) + (j + 1) = i + 1
        BY <1>1, <2>1
    <2> QED
        BY <2>2, <2>3
<1>5. e[Len(g) + 1] = h
    BY <1>1, <1>2
<1>6. Append(g, h) \o t = e
    <2> DEFINE b == Append(g, h)
    <2>1. /\ b \in Seq(Nat) /\ Len(b) = Len(g) + 1 /\ b[Len(g) + 1] = h
          /\ \A i \in 1 .. Len(g) : b[i] = g[i]
        BY <1>1, Added
    <2> HIDE DEF b
    <2> DEFINE c == b \o t
    <2>2. /\ c \in Seq(Nat) /\ Len(c) = Len(b) + Len(t)
          /\ \A i \in 1 .. Len(b) : c[i] = b[i]
          /\ \A i \in 1 .. Len(t) : c[Len(b) + i] = t[i]
        BY <1>1, <2>1, Concat
    <2> HIDE DEF c
    <2>0. /\ Len(c) = Len(b) + Len(t) /\ Len(b) = Len(g) + 1 /\ Len(t) = Len(q) - 1
          /\ Len(g) \in Nat /\ Len(q) \in Nat
        BY <1>1, <2>1, <2>2
    <2>3. Len(c) = Len(e)
        BY <1>2, <2>0
    <2>4. ASSUME NEW i \in 1 .. Len(c)
          PROVE  c[i] = e[i]
        <3>1. CASE i <= Len(g)
            <4>1. i \in 1 .. Len(g) /\ i \in 1 .. Len(b)
                BY <2>0, <3>1
            <4> QED
                BY <1>2, <2>1, <2>2, <4>1
        <3>2. CASE i = Len(g) + 1
            <4>1. i \in 1 .. Len(b)
                BY <2>0, <3>2
            <4> QED
                BY <1>5, <2>1, <2>2, <3>2, <4>1
        <3>3. CASE i > Len(g) + 1
            <4> DEFINE j == i - Len(b)
            <4>1. i = Len(b) + j /\ j \in 1 .. Len(t) /\ j + 1 \in 1 .. Len(q) /\ j \in 1 .. Len(q) - 1
                BY <2>0, <3>3
            <4> HIDE DEF j
            <4>2. c[i] = t[j] /\ t[j] = q[j + 1] /\ e[Len(g) + (j + 1)] = q[j + 1]
                BY <1>1, <1>2, <2>2, <4>1
            <4>3. Len(g) + (j + 1) = i
                BY <1>1, <2>1, <4>1
            <4> QED
                BY <4>2, <4>3
        <3>4. i <= Len(g) \/ i = Len(g) + 1 \/ i > Len(g) + 1
            BY <2>0
        <3> QED
            BY <3>1, <3>2, <3>3, <3>4, Zenon
    <2>5. c = e
        BY <1>2, <2>2, <2>3, <2>4, SameSequence
    <2> QED
        BY <2>5 DEF b, c
<1>7. Len(d) = Len(e) - 1 /\ Len(g) < Len(e) /\ Len(e) \in Nat
    BY <1>1, <1>2, <1>3
<1>8. \A i \in 1 .. Len(g) : d[i] = e[i]
    BY <1>2, <1>3
<1> QED
    BY <1>1, <1>3, <1>4, <1>5, <1>6, <1>7, <1>8 DEF t, h, e, d

LEMMA AddedOrder ==
    ASSUME NEW s \in Subs, NEW e \in Seq(Nat), NEW i \in Nat, NEW k \in Nat,
           start[s] \in Nat, Own(seen, s, e), InOrder(s, e), Holds(s, e, k),
           seen \subseteq 1 .. k, k < i, start[s] < i, Sdk!Matches(i, s),
           \A m \in k + 1 .. i - 1 : ~Sdk!Matches(m, s)
    PROVE  InOrder(s, Append(e, i)) /\ Holds(s, Append(e, i), i)
<1> DEFINE a == Append(e, i)
<1>1. /\ a \in Seq(Nat) /\ Len(a) = Len(e) + 1 /\ Len(e) \in Nat
      /\ \A j \in 1 .. Len(e) : a[j] = e[j]
      /\ a[Len(e) + 1] = i
    BY Added
<1> HIDE DEF a
<1>2. DOMAIN a = 1 .. Len(e) + 1 /\ DOMAIN e = 1 .. Len(e)
    BY <1>1
<1>3. \A m \in Nat : Holds(s, e, m) => Holds(s, a, m)
    BY <1>1, <1>2 DEF Holds
<1>4. Holds(s, a, i)
    <2>1. SUFFICES ASSUME NEW m \in start[s] + 1 .. i, Sdk!Matches(m, s)
                   PROVE  \E j \in DOMAIN a : a[j] = m
        BY DEF Holds
    <2>2. CASE m <= k
        BY <1>3, <2>1, <2>2 DEF Holds
    <2>3. CASE m > k
        <3>1. m = i /\ Len(e) + 1 \in DOMAIN a
            BY <1>1, <1>2, <2>1, <2>3
        <3> QED
            BY <1>1, <3>1
    <2> QED
        BY <2>2, <2>3
<1>5. \A j \in 1 .. Len(e) : e[j] # Sdk!End => e[j] \in 1 .. k
    <2>1. \A j \in DOMAIN e : e[j] # Sdk!End => e[j] \in seen
        BY Zenon DEF Own
    <2> QED
        BY <1>2, <2>1
<1>6. \A j \in DOMAIN a : a[j] # Sdk!End => a[j] > start[s] /\ Holds(s, a, a[j])
    <2>1. ASSUME NEW j \in 1 .. Len(e), e[j] # Sdk!End
          PROVE  e[j] > start[s] /\ Holds(s, a, e[j])
        <3>1. e[j] \in Nat
            BY <1>5, <2>1
        <3>2. e[j] > start[s] /\ Holds(s, e, e[j])
            BY <1>2, <2>1 DEF InOrder
        <3> QED
            BY <1>3, <3>1, <3>2
    <2>2. \A j \in 1 .. Len(e) + 1 : j \in 1 .. Len(e) \/ j = Len(e) + 1
        BY <1>1
    <2> QED
        BY <1>1, <1>2, <1>4, <2>1, <2>2
<1>7. ASSUME NEW j \in DOMAIN a, NEW l \in DOMAIN a, j < l, a[j] # Sdk!End, a[l] # Sdk!End
      PROVE  a[j] < a[l]
    <2>1. j \in 1 .. Len(e)
        BY <1>1, <1>2, <1>7
    <2>2. CASE l \in 1 .. Len(e)
        BY <1>1, <1>2, <1>7, <2>1, <2>2 DEF InOrder
    <2>3. CASE l = Len(e) + 1
        BY <1>1, <1>5, <1>7, <2>1, <2>3
    <2> QED
        BY <1>1, <1>2, <2>2, <2>3
<1> QED
    BY <1>4, <1>6, <1>7 DEF InOrder, a

LEMMA EndOrder ==
    ASSUME NEW S, NEW s \in Subs, NEW e \in Seq(Nat)
    PROVE  /\ Own(S, s, e) => Own(S, s, Append(e, Sdk!End))
           /\ InOrder(s, e) => InOrder(s, Append(e, Sdk!End))
           /\ \A k \in Nat : Holds(s, e, k) => Holds(s, Append(e, Sdk!End), k)
<1> DEFINE a == Append(e, Sdk!End)
<1>1. /\ a \in Seq(Nat) /\ Len(a) = Len(e) + 1 /\ Len(e) \in Nat
      /\ \A j \in 1 .. Len(e) : a[j] = e[j]
      /\ a[Len(e) + 1] = Sdk!End
    BY Added DEF Sdk!End
<1> HIDE DEF a
<1>2. DOMAIN a = 1 .. Len(e) + 1 /\ DOMAIN e = 1 .. Len(e)
    BY <1>1
<1>3. \A j \in DOMAIN a : a[j] # Sdk!End => j \in DOMAIN e /\ a[j] = e[j]
    BY <1>1, <1>2
<1>4. \A j \in DOMAIN e : j \in DOMAIN a /\ a[j] = e[j]
    BY <1>1, <1>2
<1>5. \A k \in Nat : Holds(s, e, k) => Holds(s, a, k)
    BY <1>4 DEF Holds
<1>6. Own(S, s, e) => Own(S, s, a)
    <2>1. SUFFICES ASSUME Own(S, s, e) PROVE Own(S, s, a)
        OBVIOUS
    <2>2. \A i, j \in DOMAIN a : i # j /\ a[i] # Sdk!End => a[i] # a[j]
        <3>1. ASSUME NEW i \in DOMAIN a, NEW j \in DOMAIN a, i # j, a[i] # Sdk!End, a[i] = a[j]
              PROVE  FALSE
            BY <1>3, <2>1, <3>1, Zenon DEF Own
        <3> QED
            BY <3>1
    <2>3. \A i \in DOMAIN a : a[i] # Sdk!End => a[i] \in S /\ Sdk!Matches(a[i], s)
        BY <1>3, <2>1, Zenon DEF Own
    <2> QED
        BY <2>2, <2>3, Zenon DEF Own
<1>7. InOrder(s, e) => InOrder(s, a)
    <2>1. SUFFICES ASSUME InOrder(s, e) PROVE InOrder(s, a)
        OBVIOUS
    <2>2. \A j \in DOMAIN a : a[j] # Sdk!End => a[j] \in Nat
        BY <1>1
    <2>3. \A j \in DOMAIN a : a[j] # Sdk!End => a[j] > start[s] /\ Holds(s, a, a[j])
        BY <1>3, <1>5, <2>1, <2>2, Zenon DEF InOrder
    <2>4. \A i, j \in DOMAIN a : i < j /\ a[i] # Sdk!End /\ a[j] # Sdk!End => a[i] < a[j]
        BY <1>3, <2>1, Zenon DEF InOrder
    <2> QED
        BY <2>3, <2>4, Zenon DEF InOrder
<1> QED
    BY <1>5, <1>6, <1>7 DEF a

\* What holds of events still holds when one sentinel is left out.
LEMMA WithoutEnd ==
    ASSUME NEW S, NEW s \in Subs, NEW e \in Seq(Nat), NEW d \in Seq(Nat), NEW p \in Nat,
           p < Len(e), e[p + 1] = Sdk!End, Len(d) = Len(e) - 1,
           \A i \in 1 .. p : d[i] = e[i],
           \A i \in p + 1 .. Len(e) - 1 : d[i] = e[i + 1]
    PROVE  /\ Own(S, s, e) => Own(S, s, d)
           /\ InOrder(s, e) /\ start[s] \in Nat => InOrder(s, d)
<1> DEFINE f(i) == IF i <= p THEN i ELSE i + 1
           b(i) == IF i <= p THEN i ELSE i - 1
<1>n. PICK n \in Nat : n = Len(e) /\ p < n
    OBVIOUS
<1>0. DOMAIN e = 1 .. n /\ DOMAIN d = 1 .. n - 1
    BY <1>n
<1>a. \A i \in 1 .. n - 1 : f(i) \in 1 .. n /\ (i <= p => f(i) = i) /\ (i > p => f(i) = i + 1)
    BY <1>n
<1>c. \A i \in 1 .. n - 1 : i \in 1 .. p \/ i \in p + 1 .. n - 1
    BY <1>n
<1>d. ASSUME NEW j \in 1 .. n, j # p + 1
      PROVE  /\ b(j) \in 1 .. n - 1
             /\ \/ j \in 1 .. p /\ b(j) = j
                \/ j - 1 \in p + 1 .. n - 1 /\ b(j) = j - 1 /\ (j - 1) + 1 = j
    <2>1. CASE j <= p
        BY <1>n, <1>d, <2>1
    <2>2. CASE j > p
        <3>1. j - 1 \in p + 1 .. n - 1 /\ (j - 1) + 1 = j /\ j - 1 \in 1 .. n - 1
            BY <1>n, <1>d, <2>2
        <3>2. b(j) = j - 1
            BY <1>n, <1>d, <2>2
        <3> QED
            BY <3>1, <3>2
    <2> QED
        BY <1>n, <2>1, <2>2
<1> HIDE DEF f, b
<1>b. \A i, j \in 1 .. n - 1 : (f(i) = f(j) => i = j) /\ (i < j => f(i) < f(j))
    <2>1. ASSUME NEW i \in 1 .. n - 1, NEW j \in 1 .. n - 1
          PROVE  (f(i) = f(j) => i = j) /\ (i < j => f(i) < f(j))
        <3>1. (f(i) = i /\ i <= p) \/ (f(i) = i + 1 /\ i > p)
            BY <1>a, <2>1
        <3>2. (f(j) = j /\ j <= p) \/ (f(j) = j + 1 /\ j > p)
            BY <1>a, <2>1
        <3>3. i \in Int /\ j \in Int /\ p \in Int
            BY <1>n
        <3> HIDE <2>1
        <3>4. f(i) = f(j) => i = j
            BY <3>1, <3>2, <3>3
        <3>5. i < j => f(i) < f(j)
            BY <3>1, <3>2, <3>3
        <3> QED
            BY <3>4, <3>5
    <2> QED
        BY <2>1
<1>1. \A i \in DOMAIN d : f(i) \in DOMAIN e /\ d[i] = e[f(i)]
    <2>1. ASSUME NEW i \in 1 .. n - 1
          PROVE  f(i) \in 1 .. n /\ d[i] = e[f(i)]
        <3>1. CASE i \in 1 .. p
            BY <1>a, <3>1
        <3>2. CASE i \in p + 1 .. n - 1
            <4>1. f(i) = i + 1 /\ d[i] = e[i + 1]
                BY <1>n, <1>a, <3>2
            <4> QED
                BY <1>a, <4>1
        <3> QED
            BY <1>c, <3>1, <3>2
    <2> QED
        BY <1>0, <2>1
<1>2. \A i, j \in DOMAIN d : (f(i) = f(j) => i = j) /\ (i < j => f(i) < f(j))
    BY <1>0, <1>b
<1>3. \A j \in DOMAIN e : e[j] # Sdk!End => b(j) \in DOMAIN d /\ d[b(j)] = e[j]
    <2>1. ASSUME NEW j \in 1 .. n, e[j] # Sdk!End
          PROVE  b(j) \in 1 .. n - 1 /\ d[b(j)] = e[j]
        <3>1. j # p + 1
            BY <2>1
        <3>2. CASE j \in 1 .. p /\ b(j) = j
            BY <1>d, <3>1, <3>2
        <3>3. CASE j - 1 \in p + 1 .. n - 1 /\ b(j) = j - 1 /\ (j - 1) + 1 = j
            <4>1. d[j - 1] = e[(j - 1) + 1]
                BY <1>n, <3>3
            <4> QED
                BY <1>d, <3>1, <3>3, <4>1
        <3> QED
            BY <1>d, <3>1, <3>2, <3>3
    <2> QED
        BY <1>0, <2>1
<1>4. Own(S, s, e) => Own(S, s, d)
    <2>1. SUFFICES ASSUME Own(S, s, e) PROVE Own(S, s, d)
        OBVIOUS
    <2>2. \A i \in DOMAIN d : d[i] # Sdk!End => d[i] \in S /\ Sdk!Matches(d[i], s)
        BY <1>1, <2>1, Zenon DEF Own
    <2>3. ASSUME NEW i \in DOMAIN d, NEW j \in DOMAIN d, i # j, d[i] # Sdk!End, d[i] = d[j]
          PROVE  FALSE
        <3>1. f(i) \in DOMAIN e /\ f(j) \in DOMAIN e /\ f(i) # f(j)
            BY <1>1, <1>2, <2>3, Zenon
        <3>2. e[f(i)] # Sdk!End /\ e[f(i)] = e[f(j)]
            BY <1>1, <2>3, Zenon
        <3> QED
            BY <2>1, <3>1, <3>2, Zenon DEF Own
    <2> QED
        BY <2>2, <2>3, Zenon DEF Own
<1>5. InOrder(s, e) /\ start[s] \in Nat => InOrder(s, d)
    <2>1. SUFFICES ASSUME InOrder(s, e), start[s] \in Nat PROVE InOrder(s, d)
        OBVIOUS
    <2>2. \A k \in Nat : Holds(s, e, k) => Holds(s, d, k)
        <3>1. \A k \in Nat : \A m \in start[s] + 1 .. k : m # Sdk!End
            BY <2>1 DEF Sdk!End
        <3>2. \A m : m # Sdk!End /\ (\E j \in DOMAIN e : e[j] = m) => \E j \in DOMAIN d : d[j] = m
            BY <1>3, Zenon
        <3> QED
            BY <3>1, <3>2, Zenon DEF Holds
    <2>3. \A i \in DOMAIN d : d[i] \in Nat
        OBVIOUS
    <2>4. \A i \in DOMAIN d : d[i] # Sdk!End => d[i] > start[s] /\ Holds(s, d, d[i])
        BY <1>1, <2>1, <2>2, <2>3, Zenon DEF InOrder
    <2>5. \A i, j \in DOMAIN d : i < j /\ d[i] # Sdk!End /\ d[j] # Sdk!End => d[i] < d[j]
        BY <1>1, <1>2, <2>1, Zenon DEF InOrder
    <2> QED
        BY <2>4, <2>5, Zenon DEF InOrder
<1> QED
    BY <1>4, <1>5

-----------------------------------------------------------------------------
(* A subscription.                                                         *)

LEMMA RegisterInv ==
    ASSUME SdkInv, NEW s \in Subs, Sdk!Register(s)
    PROVE  SdkInv'
<1>1. StreamInv /\ QueueInv /\ cursor \in Nat
    BY DEF SdkInv, StreamInv
<1>2. /\ state[s] = "idle" /\ state' = [state EXCEPT ![s] = IF shut THEN "ended" ELSE "registered"]
      /\ start' = [start EXCEPT ![s] = IF ~shut /\ Sdk!Steady(s) THEN cursor ELSE Sdk!NoSeq]
      /\ UNCHANGED <<log, Sdk!streamVars, cursor, seen, fan, waits, queue, given, shut, faults,
                     jumped, full>>
    BY DEF Sdk!Register
<1>3. /\ state \in [Subs -> {"idle", "registered", "opening", "iterating", "ended", "raised"}]
      /\ start \in [Subs -> Nat \cup {Sdk!NoSeq}]
    BY <1>1 DEF QueueInv
<1>4. StreamInv'
    <2>1. \A r \in Subs : state'[r] = "opening" => state[r] = "opening"
        BY <1>2, <1>3
    <2> QED
        BY <1>1, <1>2, <2>1 DEF StreamInv, Sdk!streamVars
<1>5. QueueInv'
    <2>1. start' \in [Subs -> Nat \cup {Sdk!NoSeq}]
        BY <1>1, <1>2, <1>3
    <2>2. /\ state' \in [Subs -> {"idle", "registered", "opening", "iterating", "ended", "raised"}]
          /\ \A r \in Subs : state'[r] = "idle" => state[r] = "idle"
        BY <1>2, <1>3
    <2> QED
        BY <1>1, <1>2, <2>1, <2>2 DEF QueueInv
<1>6. ASSUME NEW r \in Subs, r # s
      PROVE  SubInv(r)'
    <2>1. SubInv(r) /\ start[r] \in Nat \cup {Sdk!NoSeq} /\ start'[r] = start[r]
        BY <1>2, <1>3, <1>6 DEF SdkInv
    <2>2. r \in Sdk!Registered' => r \in Sdk!Registered
        BY <1>2, <1>3, <1>6 DEF Sdk!Registered
    <2>3. Covering(r) => Covering(r)'
        BY <1>1, <1>2, CoverSame DEF Sdk!streamVars
    <2>4. r \in Sdk!Registered /\ start[r] # Sdk!NoSeq => Covering(r)
        BY <2>1 DEF SubInv
    <2> QED
        BY <1>1, <1>2, <2>1, <2>2, <2>3, <2>4, SubKept
<1>7. SubInv(s)'
    <2>1. Sdk!Events(s)' = <<>>
        <3>1. queue[s] = <<>> /\ given[s] = <<>>
            BY <1>1, <1>2 DEF QueueInv
        <3> QED
            BY <1>2, <3>1 DEF Sdk!Events
    <2>2. Own(seen, s, <<>>)' /\ InOrder(s, <<>>)'
        BY DEF Own, InOrder
    <2>3. ASSUME start'[s] # Sdk!NoSeq
          PROVE  start'[s] = cursor /\ Sdk!Steady(s)
        BY <1>2, <1>3, <2>3
    <2>4. ASSUME Sdk!Steady(s)
          PROVE  Covering(s)'
        <3>1. /\ fan.pc = "reading" /\ Sdk!FilterCovers(streams[fan.cur].filter, Params[s])
              /\ Sdk!FilterCovers(filter, Params[s])
            BY <2>4 DEF Sdk!Steady
        <3>2. shared # 0 /\ (fan.cur # shared => streams[shared].filter = filter)
            BY <1>1, <3>1 DEF StreamInv
        <3>3. Covering(s)
            BY <3>1, <3>2 DEF Covering
        <3> QED
            BY <1>1, <1>2, <3>3, CoverSame DEF Sdk!streamVars
    <2>5. ASSUME Sdk!Steady(s), start'[s] = cursor
          PROVE  OwedAll(s)'
        <3>1. \A i \in 1 .. cursor : Sdk!Matches(i, s)' => i \in seen'
            BY <1>2, <2>5 DEF Sdk!Steady, Sdk!Matches
        <3>2. start'[s] + 1 .. cursor' = {}
            BY <1>1, <1>2, <2>5
        <3>3. Holds(s, <<>>, cursor)'
            BY <3>2 DEF Holds
        <3> QED
            BY <1>2, <2>1, <3>1, <3>3 DEF OwedAll
    <2> QED
        BY <1>1, <1>2, <2>1, <2>2, <2>3, <2>4, <2>5 DEF SubInv
<1> QED
    BY <1>4, <1>5, <1>6, <1>7 DEF SdkInv

\* _ensure_fanout_running reads the shared stream.
LEMMA EnsuredFact ==
    ASSUME StreamInv, shared # 0
    PROVE  /\ Sdk!Ensured \in Fan
           /\ \/ Sdk!Ensured = fan /\ fan.pc \notin {"none", "done", "cancelled"}
              \/ Sdk!Ensured.pc = "reading" /\ Sdk!Ensured.cur = shared
<1>1. Sdk!Unscoped({}) \in Shape
    BY DEF Sdk!Unscoped, Sdk!Filter, Shape
<1>2. Sdk!Idle \in Fan
    BY <1>1 DEF Sdk!Idle, Fan
<1>3. shared \in Nat /\ fan \in Fan
    BY DEF StreamInv
<1> QED
    BY <1>2, <1>3 DEF Sdk!Ensured, Fan

LEMMA EnsuredInv ==
    ASSUME SdkInv, shared # 0, fan' = Sdk!Ensured, NEW s \in Subs, s \in Sdk!Registered,
           NEW st \in {"opening", "iterating", "raised"}, state' = [state EXCEPT ![s] = st],
           streams' \in Seq(Stream), Len(streams') = Len(streams),
           \A m \in 1 .. Len(streams) : /\ streams'[m].filter = streams[m].filter
                                        /\ streams'[m].pos = streams[m].pos,
           UNCHANGED <<log, shared, filter, cursor, seen, waits, queue, given, shut, Sdk!noteVars>>
    PROVE  SdkInv'
<1>1. StreamInv /\ QueueInv
    BY DEF SdkInv
<1>2. /\ Sdk!Ensured \in Fan
      /\ \/ Sdk!Ensured = fan /\ fan.pc \notin {"none", "done", "cancelled"}
         \/ Sdk!Ensured.pc = "reading" /\ Sdk!Ensured.cur = shared
    BY <1>1, EnsuredFact
<1>3. StreamInv'
    <2>1. shared \in 1 .. Len(streams) /\ shared' \in 0 .. Len(streams') /\ shared' # 0
        BY <1>1 DEF StreamInv
    <2>2. fan' \in Fan
        BY <1>2
    <2>3. /\ fan'.pc \in {"reading", "stuck"} => fan'.cur \in 1 .. Len(streams')
          /\ fan'.pc = "awaiting" => fan'.new \in 1 .. Len(streams')
        BY <1>1, <1>2, <2>1 DEF StreamInv
    <2>4. fan'.pc = "reading" /\ fan'.cur # shared' => streams'[shared'].filter = filter'
        BY <1>1, <1>2, <2>1 DEF StreamInv
    <2>5. \A n \in 1 .. Len(streams') : streams'[n].pos <= cursor'
        BY <1>1 DEF StreamInv
    <2> QED
        BY <1>1, <2>1, <2>2, <2>3, <2>4, <2>5 DEF StreamInv, Sdk!noteVars
<1>4. /\ state \in [Subs -> {"idle", "registered", "opening", "iterating", "ended", "raised"}]
      /\ \A r \in Subs : state'[r] = "idle" => state[r] = "idle"
    BY <1>1 DEF QueueInv
<1>5. QueueInv'
    BY <1>1, <1>4 DEF QueueInv, Sdk!noteVars
<1>6. \A r \in Subs : r \in Sdk!Registered' => r \in Sdk!Registered
    BY <1>4 DEF Sdk!Registered
<1>7. ASSUME NEW r \in Subs, Covering(r)
      PROVE  Covering(r)'
    BY <1>1, <1>2, <1>7 DEF Covering, StreamInv
<1> QED
    BY <1>3, <1>5, <1>6, <1>7, QuietStep DEF Sdk!noteVars

LEMMA CoveredInv ==
    ASSUME SdkInv, NEW s \in Subs, Sdk!ReconcileCovered(s)
    PROVE  SdkInv'
<1>1. s \in Sdk!Registered /\ shared # 0
    BY DEF Sdk!ReconcileCovered, Sdk!Covered, Sdk!Registered
<1>2. streams \in Seq(Stream)
    BY DEF SdkInv, StreamInv
<1>3. /\ fan' = Sdk!Ensured /\ state' = [state EXCEPT ![s] = "iterating"] /\ streams' = streams
      /\ UNCHANGED <<log, shared, filter, cursor, seen, waits, queue, given, shut, Sdk!noteVars>>
    BY DEF Sdk!ReconcileCovered, Sdk!streamVars
<1> QED
    BY <1>1, <1>2, <1>3, EnsuredInv

LEMMA NotThere ==
    ASSUME NEW D, NEW T, NEW f \in [D -> T], NEW x, x \notin D, NEW v
    PROVE  [f EXCEPT ![x].state = v] = f
OBVIOUS

LEMMA ReadyInv ==
    ASSUME SdkInv, NEW s \in Subs, Sdk!Ready(s)
    PROVE  SdkInv'
<1>1. s \in Sdk!Registered /\ shared # 0 /\ streams \in Seq(Stream)
    BY DEF Sdk!Ready, Sdk!Registered, SdkInv, StreamInv
<1>2. /\ fan' = Sdk!Ensured /\ state' = [state EXCEPT ![s] = "iterating"]
      /\ UNCHANGED <<log, shared, filter, cursor, seen, waits, queue, given, shut, Sdk!noteVars>>
    BY DEF Sdk!Ready
<1>3. /\ streams' \in Seq(Stream) /\ Len(streams') = Len(streams)
      /\ \A m \in 1 .. Len(streams) : /\ streams'[m].filter = streams[m].filter
                                      /\ streams'[m].pos = streams[m].pos
    <2> DEFINE o == waits[s].old
               st == IF streams[o].state = "ready" THEN "closing" ELSE "aborting"
    <2>1. streams' = streams \/ streams' = [streams EXCEPT ![o].state = st]
        BY DEF Sdk!Ready
    <2>2. st \in Status
        BY DEF Status
    <2> HIDE DEF o, st
    <2>3. CASE streams' = streams
        BY <1>1, <2>3
    <2>4. CASE streams' = [streams EXCEPT ![o].state = st] /\ o \in 1 .. Len(streams)
        BY <1>1, <2>2, <2>4, StatusSet
    <2>5. CASE streams' = [streams EXCEPT ![o].state = st] /\ o \notin 1 .. Len(streams)
        <3>1. streams \in [1 .. Len(streams) -> Stream]
            BY <1>1
        <3>2. streams' = streams
            BY <2>5, <3>1, NotThere
        <3> QED
            BY <1>1, <3>2
    <2> QED
        BY <2>1, <2>3, <2>4, <2>5
<1> QED
    BY <1>1, <1>2, <1>3, EnsuredInv

LEMMA RefusedInv ==
    ASSUME SdkInv, NEW s \in Subs, Sdk!Refused(s)
    PROVE  SdkInv'
<1>1. StreamInv /\ QueueInv
    BY DEF SdkInv
<1>2. /\ state[s] = "opening" /\ state' = [state EXCEPT ![s] = "raised"]
      /\ UNCHANGED <<log, Sdk!streamVars, cursor, seen, fan, waits, queue, given, shut, Sdk!noteVars>>
    BY DEF Sdk!Refused
<1>3. state \in [Subs -> {"idle", "registered", "opening", "iterating", "ended", "raised"}]
    BY <1>1 DEF QueueInv
<1>4. \A r \in Subs : /\ state'[r] = "idle" => state[r] = "idle"
                      /\ state'[r] = "opening" => state[r] = "opening"
    BY <1>2, <1>3
<1>5. StreamInv'
    BY <1>1, <1>2, <1>4 DEF StreamInv, Sdk!streamVars, Sdk!noteVars
<1>6. QueueInv'
    BY <1>1, <1>2, <1>3, <1>4 DEF QueueInv, Sdk!noteVars
<1>7. \A r \in Subs : r \in Sdk!Registered' => r \in Sdk!Registered
    BY <1>2, <1>3 DEF Sdk!Registered
<1>8. \A r \in Subs : Covering(r) => Covering(r)'
    BY <1>1, <1>2, CoverSame DEF Sdk!streamVars
<1> QED
    BY <1>2, <1>5, <1>6, <1>7, <1>8, QuietStep DEF Sdk!noteVars

LEMMA RotatesInv ==
    ASSUME SdkInv, NothingYet, NEW s \in Subs, Sdk!ReconcileRotates(s)
    PROVE  SdkInv'
<1>1. StreamInv /\ QueueInv /\ streams \in Seq(Stream) /\ cursor \in Nat
    BY DEF SdkInv, StreamInv
<1>2. /\ state[s] = "registered" /\ filter' = Sdk!CurrentUnion(s)
      /\ streams' = Append(streams, Sdk!Opened(filter', cursor)) /\ shared' = Len(streams')
      /\ state' = [state EXCEPT ![s] = "opening"]
      /\ start' = IF shared = 0 THEN [start EXCEPT ![s] = cursor] ELSE start
      /\ UNCHANGED <<log, cursor, seen, fan, queue, given, shut, faults, jumped, full>>
    BY DEF Sdk!ReconcileRotates
<1>3. /\ filter' \in Shape
      /\ \A r \in Sdk!Registered \cup {s} : Sdk!FilterCovers(filter', Params[r])
    BY <1>2, UnionShape
<1>4. /\ streams' \in Seq(Stream) /\ Len(streams') = Len(streams) + 1 /\ Len(streams) \in Nat
      /\ \A m \in 1 .. Len(streams) : streams'[m] = streams[m]
      /\ streams'[shared'].filter = filter' /\ streams'[shared'].pos = cursor
    BY <1>1, <1>2, <1>3, StreamOpened
<1>5. state \in [Subs -> {"idle", "registered", "opening", "iterating", "ended", "raised"}]
    BY <1>1 DEF QueueInv
<1>6. StreamInv'
    <2>1. \A n \in 1 .. Len(streams') : streams'[n].pos <= cursor'
        <3>1. ASSUME NEW n \in 1 .. Len(streams')
              PROVE  streams'[n].pos <= cursor'
            <4>1. CASE n \in 1 .. Len(streams)
                BY <1>1, <1>2, <1>4, <4>1 DEF StreamInv
            <4>2. CASE n = shared'
                BY <1>1, <1>2, <1>4, <4>2
            <4> QED
                BY <1>2, <1>4, <4>1, <4>2
        <3> QED
            BY <3>1
    <2>2. shared' # 0 /\ shared' \in 0 .. Len(streams')
        BY <1>2, <1>4
    <2>3. /\ fan.pc \in {"reading", "stuck"} => fan.cur \in 1 .. Len(streams')
          /\ fan.pc = "awaiting" => fan.new \in 1 .. Len(streams')
        BY <1>1, <1>4 DEF StreamInv
    <2> QED
        BY <1>1, <1>2, <1>3, <1>4, <2>1, <2>2, <2>3 DEF StreamInv
<1>7. \A r \in Subs : state'[r] = "idle" => state[r] = "idle"
    BY <1>2, <1>5
<1>8. QueueInv'
    <2>1. start' \in [Subs -> Nat \cup {Sdk!NoSeq}]
        BY <1>1, <1>2 DEF QueueInv
    <2> QED
        BY <1>1, <1>2, <1>5, <1>7, <2>1 DEF QueueInv
<1>9. \A r \in Subs : r \in Sdk!Registered' => r \in Sdk!Registered
    BY <1>2, <1>5 DEF Sdk!Registered
<1>10. ASSUME NEW r \in Subs, r \in Sdk!Registered, Covering(r)
       PROVE  Covering(r)'
    <2>1. shared' # 0 /\ Sdk!FilterCovers(streams'[shared'].filter, Params[r])
          /\ Sdk!FilterCovers(filter', Params[r])
        BY <1>2, <1>3, <1>4, <1>10
    <2>2. fan.pc \in {"reading", "stuck"} => streams'[fan.cur] = streams[fan.cur]
        BY <1>1, <1>4 DEF StreamInv
    <2>3. fan.pc = "awaiting" => streams'[fan.new] = streams[fan.new]
        BY <1>1, <1>4 DEF StreamInv
    <2> QED
        BY <1>2, <1>10, <2>1, <2>2, <2>3 DEF Covering
<1>11. CASE shared # 0
    BY <1>2, <1>6, <1>8, <1>9, <1>10, <1>11, QuietStep
<1>12. ASSUME NEW r \in Subs, r # s
       PROVE  SubInv(r)'
    <2>1. SubInv(r) /\ start[r] \in Nat \cup {Sdk!NoSeq} /\ start'[r] = start[r]
        BY <1>1, <1>2, <1>12 DEF SdkInv, QueueInv
    <2>2. r \in Sdk!Registered /\ start[r] # Sdk!NoSeq => Covering(r)
        BY <2>1 DEF SubInv
    <2>3. r \in Sdk!Registered' => r \in Sdk!Registered
        BY <1>9
    <2> QED
        BY <1>1, <1>2, <1>10, <2>1, <2>2, <2>3, SubKept
<1>13. ASSUME shared = 0
       PROVE  SubInv(s)'
    <2>1. start'[s] = cursor
        BY <1>1, <1>2, <1>13 DEF QueueInv
    <2>2. Sdk!Events(s)' = <<>>
        BY <1>2, <1>13 DEF NothingYet, Sdk!Events
    <2>3. Own(seen, s, <<>>)' /\ InOrder(s, <<>>)'
        BY DEF Own, InOrder
    <2>4. Covering(s)'
        <3>1. fan'.pc = "none" /\ shared' # 0
            BY <1>1, <1>2, <1>4, <1>13 DEF StreamInv
        <3>2. Sdk!FilterCovers(filter', Params[s])
            BY <1>3
        <3> QED
            BY <1>4, <3>1, <3>2 DEF Covering
    <2>5. ~jumped' => OwedAll(s)'
        <3>1. ASSUME ~jumped'
              PROVE  cursor' = 0
            BY <1>2, <1>13, <3>1 DEF NothingYet
        <3>2. ASSUME cursor' = 0
              PROVE  OwedAll(s)'
            <4>1. start'[s] = 0 /\ 1 .. cursor' = {} /\ start'[s] + 1 .. cursor' = {}
                BY <1>2, <2>1, <3>2
            <4>2. Holds(s, <<>>, cursor)'
                BY <4>1 DEF Holds
            <4> QED
                BY <2>2, <4>1, <4>2 DEF OwedAll
        <3> QED
            BY <3>1, <3>2
    <2>6. start'[s] <= cursor'
        BY <1>1, <1>2, <2>1
    <2> QED
        BY <2>2, <2>3, <2>4, <2>5, <2>6 DEF SubInv
<1>14. CASE shared = 0
    BY <1>6, <1>8, <1>12, <1>13, <1>14 DEF SdkInv
<1> QED
    BY <1>11, <1>14

LEMMA GetInv ==
    ASSUME MaxQueue \in Nat, SdkInv, NEW s \in Subs, Sdk!Get(s)
    PROVE  SdkInv'
<1>1. StreamInv /\ QueueInv /\ cursor \in Nat
    BY DEF SdkInv, StreamInv
<1>2. /\ queue[s] # <<>> /\ queue' = [queue EXCEPT ![s] = Tail(@)]
      /\ UNCHANGED <<log, Sdk!streamVars, cursor, seen, fan, waits, shut, Sdk!noteVars>>
    BY DEF Sdk!Get
<1>3. \/ /\ Head(queue[s]) = Sdk!End /\ state' = [state EXCEPT ![s] = "ended"] /\ given' = given
      \/ /\ Head(queue[s]) # Sdk!End /\ state' = state
         /\ given' = [given EXCEPT ![s] = Append(@, Head(queue[s]))]
    BY DEF Sdk!Get
<1>4. /\ state \in [Subs -> {"idle", "registered", "opening", "iterating", "ended", "raised"}]
      /\ queue \in [Subs -> Seq(Nat)] /\ given \in [Subs -> Seq(Nat)]
      /\ start \in [Subs -> Nat \cup {Sdk!NoSeq}]
    BY <1>1 DEF QueueInv
<1>5. PICK q \in Seq(Nat), g \in Seq(Nat) : q = queue[s] /\ g = given[s]
    BY <1>4
<1>6. /\ Tail(q) \in Seq(Nat) /\ Len(Tail(q)) = Len(q) - 1 /\ Len(q) \in Nat
      /\ Head(q) \in Nat /\ Append(g, Head(q)) \in Seq(Nat)
    BY <1>2, <1>5, Rest, Added
<1>7. /\ queue'[s] = Tail(q) /\ \A r \in Subs : r # s => queue'[r] = queue[r] /\ given'[r] = given[r]
      /\ queue' \in [Subs -> Seq(Nat)] /\ given' \in [Subs -> Seq(Nat)]
    BY <1>2, <1>3, <1>4, <1>5, <1>6
<1>8. \A r \in Subs : state'[r] = state[r] \/ (r = s /\ state'[r] = "ended")
    BY <1>3, <1>4
<1>9. StreamInv'
    BY <1>1, <1>2, <1>8 DEF StreamInv, Sdk!streamVars, Sdk!noteVars
<1>10. QueueInv'
    <2>1. state' \in [Subs -> {"idle", "registered", "opening", "iterating", "ended", "raised"}]
        BY <1>3, <1>4
    <2>2. Len(q) <= MaxQueue /\ state[s] # "idle"
        BY <1>1, <1>2, <1>5 DEF QueueInv
    <2>3. ASSUME NEW r \in Subs
          PROVE  /\ state'[r] = "idle" => queue'[r] = <<>> /\ given'[r] = <<>>
                 /\ Len(queue'[r]) <= MaxQueue
        <3>1. CASE r = s
            <4>1. Len(queue'[s]) <= MaxQueue
                BY <1>6, <1>7, <2>2
            <4> QED
                BY <1>8, <2>2, <3>1, <4>1
        <3>2. CASE r # s
            BY <1>1, <1>7, <1>8, <3>2 DEF QueueInv
        <3> QED
            BY <3>1, <3>2
    <2> QED
        BY <1>2, <1>4, <1>7, <2>1, <2>3 DEF QueueInv, Sdk!noteVars
<1>11. ASSUME NEW r \in Subs
       PROVE  /\ SubInv(r) /\ start[r] \in Nat \cup {Sdk!NoSeq} /\ start'[r] = start[r]
              /\ r \in Sdk!Registered' => r \in Sdk!Registered
              /\ r \in Sdk!Registered' /\ start[r] # Sdk!NoSeq => Covering(r)'
    <2>1. SubInv(r) /\ start[r] \in Nat \cup {Sdk!NoSeq} /\ start'[r] = start[r]
        BY <1>2, <1>4 DEF SdkInv, Sdk!noteVars
    <2>2. r \in Sdk!Registered' => r \in Sdk!Registered
        BY <1>8 DEF Sdk!Registered
    <2>3. Covering(r) => Covering(r)'
        BY <1>1, <1>2, CoverSame DEF Sdk!streamVars
    <2> QED
        BY <2>1, <2>2, <2>3 DEF SubInv
<1>12. ASSUME NEW r \in Subs, r # s
       PROVE  SubInv(r)'
    BY <1>1, <1>2, <1>7, <1>11, <1>12, SubKept DEF Sdk!noteVars
<1>13. SubInv(s)'
    <2> DEFINE e == g \o q
    <2>1. e = Sdk!Events(s)
        BY <1>5 DEF Sdk!Events
    <2>2. CASE Head(q) # Sdk!End
        <3>1. given'[s] = Append(g, Head(q))
            BY <1>3, <1>4, <1>5, <2>2
        <3>2. Sdk!Events(s)' = e
            <4>1. Append(g, Head(q)) \o Tail(q) = e
                BY <1>2, <1>5, Taken
            <4> QED
                BY <1>7, <3>1, <4>1 DEF Sdk!Events
        <3>3. /\ seen \subseteq seen' /\ cursor' \in Nat /\ cursor <= cursor' /\ cursor' = cursor
              /\ (full => full') /\ (jumped => jumped')
              /\ \A i \in 1 .. cursor : log'[i] = log[i]
            BY <1>1, <1>2 DEF Sdk!noteVars
        <3>4. /\ StreamInv /\ SubInv(s) /\ start[s] \in Nat \cup {Sdk!NoSeq} /\ start'[s] = start[s]
              /\ s \in Sdk!Registered' => s \in Sdk!Registered
              /\ s \in Sdk!Registered' /\ start[s] # Sdk!NoSeq => Covering(s)'
            BY <1>1, <1>11
        <3> HIDE DEF e
        <3> QED
            BY <2>1, <3>2, <3>3, <3>4, SubMoved
    <2>3. CASE Head(q) = Sdk!End
        <3> DEFINE d == g \o Tail(q)
        <3>1. given'[s] = g /\ s \notin Sdk!Registered'
            BY <1>3, <1>4, <1>5, <2>3 DEF Sdk!Registered
        <3>2. d = Sdk!Events(s)'
            BY <1>7, <3>1 DEF Sdk!Events
        <3>3. /\ d \in Seq(Nat) /\ Len(d) = Len(e) - 1 /\ Len(g) \in Nat /\ Len(g) < Len(e)
              /\ e[Len(g) + 1] = Sdk!End /\ e \in Seq(Nat)
              /\ \A i \in 1 .. Len(g) : d[i] = e[i]
              /\ \A i \in Len(g) + 1 .. Len(e) - 1 : d[i] = e[i + 1]
            BY <1>2, <1>5, <2>3, Taken, Concat
        <3> HIDE DEF e, d
        <3>4. /\ Own(seen, s, e) => Own(seen, s, d)
              /\ InOrder(s, e) /\ start[s] \in Nat => InOrder(s, d)
            BY <3>3, WithoutEnd
        <3> QED
            BY <1>1, <1>2, <1>11, <2>1, <3>1, <3>2, <3>4, SubMoved DEF Sdk!noteVars
    <2> QED
        BY <2>2, <2>3
<1> QED
    BY <1>9, <1>10, <1>12, <1>13 DEF SdkInv

-----------------------------------------------------------------------------
(* _fanout.                                                                *)

\* A step of the task that gives nothing to a subscription.
LEMMA FanQuiet ==
    ASSUME SdkInv, StreamInv',
           UNCHANGED <<log, cursor, seen, Sdk!subVars, start, full, jumped>>,
           \A s \in Subs : Covering(s) => Covering(s)'
    PROVE  SdkInv'
<1>1. QueueInv'
    BY DEF SdkInv, QueueInv, Sdk!subVars
<1>2. \A s \in Subs : s \in Sdk!Registered' => s \in Sdk!Registered
    BY DEF Sdk!Registered, Sdk!subVars
<1> QED
    BY <1>1, <1>2, QuietStep DEF Sdk!subVars

LEMMA RotateInv ==
    ASSUME SdkInv, Sdk!Rotate
    PROVE  SdkInv'
<1>1. StreamInv /\ fan \in Fan
    BY DEF SdkInv, StreamInv
<1>2. /\ fan.pc = "reading" /\ fan' = [fan EXCEPT !.cur = shared]
      /\ UNCHANGED <<log, Sdk!streamVars, cursor, seen, Sdk!subVars, shut, Sdk!noteVars>>
    BY DEF Sdk!Rotate
<1>3. shared \in 1 .. Len(streams)
    BY <1>1, <1>2 DEF StreamInv
<1>4. fan' \in Fan /\ fan'.pc = "reading" /\ fan'.cur = shared
    BY <1>1, <1>2, <1>3 DEF Fan
<1>5. StreamInv'
    BY <1>1, <1>2, <1>3, <1>4 DEF StreamInv, Sdk!streamVars, Sdk!subVars, Sdk!noteVars
<1>6. \A s \in Subs : Covering(s) => Covering(s)'
    BY <1>2, <1>4 DEF Covering, Sdk!streamVars
<1> QED
    BY <1>2, <1>5, <1>6, FanQuiet DEF Sdk!noteVars

LEMMA ReconnectInv ==
    ASSUME SdkInv, Sdk!Reconnect
    PROVE  SdkInv'
<1>1. StreamInv /\ fan \in Fan /\ filter \in Shape
    BY DEF SdkInv, StreamInv
<1>2. /\ fan.pc \in {"reading", "stuck"}
      /\ fan' = [fan EXCEPT !.pc = "reconnecting", !.base = filter, !.attempt = 0]
      /\ UNCHANGED <<log, Sdk!streamVars, cursor, seen, Sdk!subVars, shut, Sdk!noteVars>>
    BY DEF Sdk!Reconnect, Sdk!StreamOver
<1>3. fan' \in Fan /\ fan'.pc = "reconnecting" /\ fan'.base = filter
    BY <1>1, <1>2 DEF Fan
<1>4. StreamInv'
    BY <1>1, <1>2, <1>3 DEF StreamInv, Sdk!streamVars, Sdk!subVars, Sdk!noteVars
<1>5. \A s \in Subs : Covering(s) => Covering(s)'
    BY <1>2, <1>3 DEF Covering, Sdk!streamVars
<1> QED
    BY <1>2, <1>4, <1>5, FanQuiet DEF Sdk!noteVars

LEMMA AttemptInv ==
    ASSUME SdkInv, Sdk!Attempt
    PROVE  SdkInv'
<1>1. StreamInv /\ streams \in Seq(Stream) /\ fan \in Fan /\ cursor \in Nat
    BY DEF SdkInv, StreamInv
<1>2. /\ fan.pc = "reconnecting" /\ streams' = Append(streams, Sdk!Opened(fan.base, cursor))
      /\ fan' = [fan EXCEPT !.pc = "awaiting", !.new = Len(streams'), !.attempt = @ + 1]
      /\ UNCHANGED <<log, shared, filter, cursor, seen, Sdk!subVars, shut, Sdk!noteVars>>
    BY DEF Sdk!Attempt
<1>3. fan.base \in Shape /\ fan.attempt + 1 \in Nat
    BY <1>1 DEF Fan
<1>4. /\ streams' \in Seq(Stream) /\ Len(streams') = Len(streams) + 1 /\ Len(streams) \in Nat
      /\ \A m \in 1 .. Len(streams) : streams'[m] = streams[m]
      /\ streams'[Len(streams')].filter = fan.base /\ streams'[Len(streams')].pos = cursor
    BY <1>1, <1>2, <1>3, StreamOpened
<1>5. fan' \in Fan /\ fan'.pc = "awaiting" /\ fan'.new = Len(streams') /\ fan'.base = fan.base
    <2>1. PICK n \in Nat, k \in Nat : n = Len(streams') /\ k = fan.attempt + 1
        BY <1>3, <1>4
    <2>2. fan' = [fan EXCEPT !.pc = "awaiting", !.new = n, !.attempt = k]
        BY <1>2, <2>1
    <2>3. fan' \in Fan /\ fan'.pc = "awaiting" /\ fan'.new = n /\ fan'.base = fan.base
        BY <1>1, <2>2 DEF Fan
    <2> QED
        BY <2>1, <2>3
<1>6. ASSUME NEW n \in 1 .. Len(streams')
      PROVE  streams'[n].pos <= cursor'
    <2>1. CASE n \in 1 .. Len(streams)
        BY <1>1, <1>2, <1>4, <2>1 DEF StreamInv
    <2>2. CASE n = Len(streams')
        BY <1>1, <1>2, <1>4, <2>2
    <2> QED
        BY <1>4, <2>1, <2>2
<1>7. shared' \in 0 .. Len(streams') /\ (shared # 0 => streams'[shared] = streams[shared])
    BY <1>1, <1>2, <1>4 DEF StreamInv
<1>8. shared # 0 /\ fan'.new \in 1 .. Len(streams')
    BY <1>1, <1>2, <1>4, <1>5 DEF StreamInv
<1>9. StreamInv'
    BY <1>1, <1>2, <1>4, <1>5, <1>6, <1>7, <1>8 DEF StreamInv, Sdk!subVars, Sdk!noteVars
<1>10. ASSUME NEW s \in Subs, Covering(s)
       PROVE  Covering(s)'
    <2>1. Sdk!FilterCovers(fan.base, Params[s]) /\ shared # 0
        BY <1>2, <1>10 DEF Covering
    <2> QED
        BY <1>2, <1>4, <1>5, <1>7, <1>10, <2>1 DEF Covering
<1> QED
    BY <1>2, <1>9, <1>10, FanQuiet DEF Sdk!noteVars

LEMMA AttemptFailsInv ==
    ASSUME SdkInv, Sdk!AttemptFails
    PROVE  SdkInv'
<1>1. StreamInv /\ fan \in Fan
    BY DEF SdkInv, StreamInv
<1>2. /\ fan.pc = "awaiting" /\ fan' = [fan EXCEPT !.pc = "reconnecting"]
      /\ UNCHANGED <<log, Sdk!streamVars, cursor, seen, Sdk!subVars, shut, Sdk!noteVars>>
    BY DEF Sdk!AttemptFails
<1>3. fan' \in Fan /\ fan'.pc = "reconnecting" /\ fan'.base = fan.base
    BY <1>1, <1>2 DEF Fan
<1>4. StreamInv'
    BY <1>1, <1>2, <1>3 DEF StreamInv, Sdk!streamVars, Sdk!subVars, Sdk!noteVars
<1>5. \A s \in Subs : Covering(s) => Covering(s)'
    BY <1>2, <1>3 DEF Covering, Sdk!streamVars
<1> QED
    BY <1>2, <1>4, <1>5, FanQuiet DEF Sdk!noteVars

LEMMA ReconnectedInv ==
    ASSUME SdkInv, Sdk!Reconnected
    PROVE  SdkInv'
<1>1. StreamInv /\ fan \in Fan
    BY DEF SdkInv, StreamInv
<1>2. /\ fan.pc = "awaiting" /\ shared' = fan.new
      /\ fan' = [fan EXCEPT !.pc = "reading", !.cur = fan.new]
      /\ UNCHANGED <<log, streams, filter, cursor, seen, Sdk!subVars, shut, Sdk!noteVars>>
    BY DEF Sdk!Reconnected
<1>3. fan.new \in 1 .. Len(streams) /\ fan.new \in Nat /\ fan.new # 0
    <2>1. fan.new \in 1 .. Len(streams) /\ streams \in Seq(Stream)
        BY <1>1, <1>2 DEF StreamInv
    <2> QED
        BY <2>1
<1>4. fan' \in Fan /\ fan'.pc = "reading" /\ fan'.cur = fan.new /\ shared' # 0
    BY <1>1, <1>2, <1>3 DEF Fan
<1>5. StreamInv'
    BY <1>1, <1>2, <1>3, <1>4 DEF StreamInv, Sdk!subVars, Sdk!noteVars
<1>6. \A s \in Subs : Covering(s) => Covering(s)'
    BY <1>2, <1>4 DEF Covering
<1> QED
    BY <1>2, <1>5, <1>6, FanQuiet DEF Sdk!noteVars

LEMMA FanoutEndsInv ==
    ASSUME MaxQueue \in Nat, SdkInv, Sdk!FanoutEnds
    PROVE  SdkInv'
<1>1. StreamInv /\ QueueInv /\ fan \in Fan /\ cursor \in Nat
    BY DEF SdkInv, StreamInv
<1>2. /\ fan' = [fan EXCEPT !.pc = "done"] /\ full' = (full \/ Sdk!SomeFull) /\ fan.pc # "none"
      /\ UNCHANGED <<log, Sdk!streamVars, cursor, seen, state, waits, given, shut, faults, start, jumped>>
    BY DEF Sdk!FanoutEnds, Sdk!StreamOver
<1>3. fan' \in Fan /\ fan'.pc = "done"
    BY <1>1, <1>2 DEF Fan
<1>4. StreamInv'
    <2>1. shared # 0 /\ full' \in BOOLEAN
        BY <1>1, <1>2 DEF StreamInv
    <2> QED
        BY <1>1, <1>2, <1>3, <2>1 DEF StreamInv, Sdk!streamVars
<1>5. /\ queue \in [Subs -> Seq(Nat)] /\ given \in [Subs -> Seq(Nat)]
      /\ start \in [Subs -> Nat \cup {Sdk!NoSeq}]
      /\ \A s \in Subs : Len(queue[s]) <= MaxQueue
    BY <1>1 DEF QueueInv
<1>6. /\ Sdk!Sentinel(queue) = [s \in Subs |-> IF s \in Sdk!Registered /\ Len(queue[s]) < MaxQueue
                                             THEN Append(queue[s], Sdk!End) ELSE queue[s]]
    BY DEF Sdk!Sentinel
<1>7. /\ queue' = [s \in Subs |-> queue'[s]]
      /\ \A s \in Subs : \/ queue'[s] = queue[s]
                         \/ /\ queue'[s] = Append(queue[s], Sdk!End) /\ s \in Sdk!Registered
                            /\ Len(queue[s]) < MaxQueue
    <2>1. CASE Sdk!SomeFull
        <3>1. PICK before \in SUBSET Sdk!Registered :
                  queue' = [s \in Subs |-> IF s \in before THEN Sdk!Sentinel(queue)[s] ELSE queue[s]]
            BY <2>1 DEF Sdk!FanoutEnds
        <3> QED
            BY <1>6, <3>1
    <2>2. CASE ~Sdk!SomeFull
        <3>1. queue' = Sdk!Sentinel(queue)
            BY <2>2 DEF Sdk!FanoutEnds
        <3> QED
            BY <1>6, <3>1
    <2> QED
        BY <2>1, <2>2
<1>8. ASSUME NEW s \in Subs
      PROVE  queue'[s] \in Seq(Nat) /\ Len(queue'[s]) <= MaxQueue
    <2>1. CASE queue'[s] = queue[s]
        BY <1>5, <2>1
    <2>2. CASE queue'[s] = Append(queue[s], Sdk!End) /\ Len(queue[s]) < MaxQueue
        <3>1. queue[s] \in Seq(Nat) /\ Sdk!End \in Nat
            BY <1>5 DEF Sdk!End
        <3>2. queue'[s] \in Seq(Nat) /\ Len(queue'[s]) = Len(queue[s]) + 1 /\ Len(queue[s]) \in Nat
            BY <2>2, <3>1, Added
        <3> QED
            BY <2>2, <3>2
    <2> QED
        BY <1>7, <2>1, <2>2
<1>9. QueueInv'
    <2>1. queue' \in [Subs -> Seq(Nat)]
        BY <1>7, <1>8
    <2>2. \A s \in Subs : state'[s] = "idle" => queue'[s] = <<>> /\ given'[s] = <<>>
        BY <1>1, <1>2, <1>7 DEF QueueInv, Sdk!Registered
    <2> QED
        BY <1>1, <1>2, <1>8, <2>1, <2>2 DEF QueueInv
<1>10. ASSUME NEW s \in Subs
       PROVE  SubInv(s)'
    <2>1. SubInv(s) /\ start[s] \in Nat \cup {Sdk!NoSeq}
        BY <1>1 DEF SdkInv, QueueInv
    <2>2. s \in Sdk!Registered' => s \in Sdk!Registered
        BY <1>2 DEF Sdk!Registered
    <2>3. s \in Sdk!Registered' /\ start[s] # Sdk!NoSeq => Covering(s)'
        BY <1>2, <1>3, <2>1, <2>2 DEF SubInv, Covering, Sdk!streamVars
    <2>4. PICK q \in Seq(Nat), g \in Seq(Nat) : q = queue[s] /\ g = given[s]
        BY <1>5
    <2> DEFINE e == g \o q
               d == Sdk!Events(s)'
    <2>5. e = Sdk!Events(s) /\ e \in Seq(Nat)
        BY <2>4 DEF Sdk!Events
    <2>6. d = e \/ d = Append(e, Sdk!End)
        <3>1. CASE queue'[s] = queue[s]
            BY <1>2, <2>4, <3>1 DEF Sdk!Events
        <3>2. CASE queue'[s] = Append(queue[s], Sdk!End)
            <4>1. g \o Append(q, Sdk!End) = Append(e, Sdk!End)
                BY AddedLater DEF Sdk!End
            <4> QED
                BY <1>2, <2>4, <3>2, <4>1 DEF Sdk!Events
        <3> QED
            BY <1>7, <3>1, <3>2
    <2> HIDE DEF e, d
    <2>7. /\ Own(seen, s, e) => Own(seen, s, d)
          /\ InOrder(s, e) => InOrder(s, d)
          /\ Holds(s, e, cursor) => Holds(s, d, cursor)
        BY <1>1, <2>5, <2>6, EndOrder
    <2> QED
        <3>1. (full => full') /\ cursor' = cursor /\ seen' = seen /\ jumped' = jumped /\ log' = log
              /\ start' = start
            BY <1>2
        <3>2. d = Sdk!Events(s)'
            BY DEF d
        <3>3. /\ seen \subseteq seen' /\ cursor' \in Nat /\ cursor <= cursor'
              /\ \A i \in 1 .. cursor : log'[i] = log[i]
            BY <1>1, <3>1
        <3> QED
            BY <1>1, <2>1, <2>2, <2>3, <2>5, <2>7, <3>1, <3>2, <3>3, SubMoved
<1> QED
    BY <1>4, <1>9, <1>10 DEF SdkInv

\* The event read: the first that the stream carries after what it has carried.
LEMMA NextFact ==
    ASSUME StreamInv, fan.pc = "reading", NEW i, i = Sdk!NextOn(fan.cur), i # 0
    PROVE  /\ i \in 1 .. Len(log) /\ Len(log) \in Nat /\ fan.cur \in 1 .. Len(streams)
           /\ \A m \in cursor + 1 .. i - 1 :
                  ~Sdk!MatchesSubscription(log[m], streams[fan.cur].filter)
<1> DEFINE n == fan.cur
           later == {m \in DOMAIN log : m > streams[n].pos
                                          /\ Sdk!MatchesSubscription(log[m], streams[n].filter)}
<1>1. /\ log \in Seq(Event) /\ streams \in Seq(Stream) /\ cursor \in 0 .. Len(log)
      /\ n \in 1 .. Len(streams) /\ streams[n].pos <= cursor
    BY DEF StreamInv
<1>2. streams[n].pos \in Nat /\ DOMAIN log = 1 .. Len(log) /\ Len(log) \in Nat
    <2>1. streams[n] \in Stream
        BY <1>1
    <2> QED
        BY <1>1, <2>1 DEF Stream
<1>3. i = Sdk!Min(later) /\ later # {}
    BY DEF Sdk!NextOn
<1>4. later \in SUBSET Nat
    BY <1>2
<1>5. i \in later /\ \A m \in later : i <= m
    BY <1>3, <1>4, MinFact
<1>6. ASSUME NEW m \in cursor + 1 .. i - 1, Sdk!MatchesSubscription(log[m], streams[n].filter)
      PROVE  FALSE
    <2>1. m \in 1 .. Len(log) /\ m > streams[n].pos /\ m < i
        BY <1>1, <1>2, <1>5, <1>6
    <2>2. m \in later
        BY <1>2, <1>6, <2>1
    <2> QED
        BY <1>2, <1>5, <2>1, <2>2
<1> QED
    BY <1>1, <1>2, <1>5, <1>6

LEMMA GivenOwn ==
    ASSUME NEW S, NEW s \in Subs, NEW e \in Seq(Nat), NEW i \in Nat, i # Sdk!End, i \notin S,
           Own(S, s, e)
    PROVE  /\ Own(S \cup {i}, s, e)
           /\ Sdk!Matches(i, s) => Own(S \cup {i}, s, Append(e, i))
<1> DEFINE a == Append(e, i)
<1>1. /\ a \in Seq(Nat) /\ Len(a) = Len(e) + 1 /\ Len(e) \in Nat
      /\ \A j \in 1 .. Len(e) : a[j] = e[j]
      /\ a[Len(e) + 1] = i
    BY Added
<1> HIDE DEF a
<1>2. DOMAIN a = 1 .. Len(e) + 1 /\ DOMAIN e = 1 .. Len(e)
    BY <1>1
<1>3. \A j \in DOMAIN a : (j \in DOMAIN e /\ a[j] = e[j]) \/ (j = Len(e) + 1 /\ a[j] = i)
    BY <1>1, <1>2
<1>4. Own(S \cup {i}, s, e)
    BY DEF Own
<1>5. ASSUME Sdk!Matches(i, s)
      PROVE  Own(S \cup {i}, s, a)
    <2>1. \A j \in DOMAIN a : a[j] # Sdk!End => a[j] \in S \cup {i} /\ Sdk!Matches(a[j], s)
        BY <1>3, <1>5 DEF Own
    <2>2. \A j \in DOMAIN e : e[j] # i
        BY DEF Own
    <2>3. \A j, l \in DOMAIN a : j # l /\ a[j] # Sdk!End => a[j] # a[l]
        <3>1. ASSUME NEW j \in DOMAIN a, NEW l \in DOMAIN a, j # l, a[j] # Sdk!End, a[j] = a[l]
              PROVE  FALSE
            <4>1. CASE j \in DOMAIN e /\ a[j] = e[j] /\ l \in DOMAIN e /\ a[l] = e[l]
                BY <3>1, <4>1, Zenon DEF Own
            <4> QED
                BY <1>3, <2>2, <3>1, <4>1, Zenon
        <3> QED
            BY <3>1
    <2> QED
        BY <2>1, <2>3, Zenon DEF Own
<1> QED
    BY <1>4, <1>5 DEF a

\* The task reads event i, and s is one of those that may be owed it.
Reads(s, i) ==
    /\ StreamInv /\ SubInv(s) /\ start[s] \in Nat /\ s \in Sdk!Registered /\ ~full /\ ~jumped
    /\ fan.pc = "reading" /\ i = Sdk!NextOn(fan.cur) /\ i # 0 /\ i \notin seen

Passed(i)      == IF cursor <= i THEN i ELSE cursor
WithRead(s, i) == IF Sdk!Matches(i, s) THEN Append(Sdk!Events(s), i) ELSE Sdk!Events(s)

\* What a covered subscription is given keeps its order and leaves no gap: the
\* stream carries every event that it is owed.
LEMMA GivenOrder ==
    ASSUME NEW s \in Subs, NEW i, Reads(s, i), Sdk!Events(s) \in Seq(Nat)
    PROVE  /\ InOrder(s, WithRead(s, i)) /\ Holds(s, WithRead(s, i), Passed(i))
           /\ \A m \in 1 .. Passed(i) : Sdk!Matches(m, s) => m \in seen \cup {i}
<1>0. /\ StreamInv /\ SubInv(s) /\ start[s] \in Nat /\ s \in Sdk!Registered /\ ~full /\ ~jumped
      /\ fan.pc = "reading" /\ i = Sdk!NextOn(fan.cur) /\ i # 0 /\ i \notin seen
    BY Zenon DEF Reads
<1>e. PICK e \in Seq(Nat) : e = Sdk!Events(s)
    OBVIOUS
<1>d. PICK d : /\ d = WithRead(s, i)
               /\ Sdk!Matches(i, s) => d = Append(e, i)
               /\ ~Sdk!Matches(i, s) => d = e
    BY <1>e DEF WithRead
<1>c. PICK c : c = Passed(i) /\ (cursor <= i => c = i) /\ (~(cursor <= i) => c = cursor)
    BY DEF Passed
<1>s. SUFFICES /\ InOrder(s, d) /\ Holds(s, d, c)
               /\ \A m \in 1 .. c : Sdk!Matches(m, s) => m \in seen \cup {i}
    <2>1. WithRead(s, i) = d /\ Passed(i) = c
        BY <1>c, <1>d
    <2> QED
        BY <2>1
<1>1. /\ i \in 1 .. Len(log) /\ Len(log) \in Nat
      /\ \A m \in cursor + 1 .. i - 1 : ~Sdk!MatchesSubscription(log[m], streams[fan.cur].filter)
    BY <1>0, NextFact
<1>2. cursor \in Nat /\ seen \subseteq 1 .. cursor /\ start[s] # Sdk!NoSeq
    BY <1>0 DEF StreamInv, Sdk!NoSeq
<1>3. /\ start[s] <= cursor /\ InOrder(s, e) /\ Holds(s, e, cursor) /\ Own(seen, s, e)
      /\ Sdk!FilterCovers(streams[fan.cur].filter, Params[s])
      /\ \A m \in 1 .. cursor : Sdk!Matches(m, s) => m \in seen
    BY <1>0, <1>2, <1>e DEF SubInv, OwedAll, Covering
<1>4. streams[fan.cur].filter \in Shape
    <2>1. fan.cur \in 1 .. Len(streams) /\ streams \in Seq(Stream)
        BY <1>0 DEF StreamInv
    <2>2. streams[fan.cur] \in Stream
        BY <2>1
    <2> QED
        BY <2>2 DEF Stream
<1>5. \A m \in cursor + 1 .. i - 1 : ~Sdk!Matches(m, s)
    BY <1>1, <1>3, <1>4, ShapeMatches DEF Sdk!Matches
<1>6. CASE i <= cursor
    <2>1. ~Sdk!Matches(i, s)
        BY <1>0, <1>1, <1>3, <1>6
    <2>2. d = e /\ c = cursor
        BY <1>1, <1>2, <1>6, <1>c, <1>d, <2>1
    <2> QED
        BY <1>3, <1>c, <1>d, <2>2
<1>7. CASE cursor < i
    <2>1. c = i /\ i \in Nat
        BY <1>1, <1>2, <1>7, <1>c
    <2>2. \A m \in 1 .. i : Sdk!Matches(m, s) => m \in seen \cup {i}
        <3>1. ASSUME NEW m \in 1 .. i, Sdk!Matches(m, s)
              PROVE  m \in seen \cup {i}
            <4>1. m \in 1 .. cursor \/ m \in cursor + 1 .. i - 1 \/ m = i
                BY <1>1, <1>2, <1>7
            <4> QED
                BY <1>3, <1>5, <3>1, <4>1
        <3> QED
            BY <3>1
    <2>3. CASE Sdk!Matches(i, s)
        <3>1. start[s] < i
            BY <1>0, <1>1, <1>2, <1>3, <1>7
        <3>2. InOrder(s, Append(e, i)) /\ Holds(s, Append(e, i), i)
            BY <1>0, <1>2, <1>3, <1>5, <1>7, <2>1, <2>3, <3>1, AddedOrder
        <3> QED
            BY <1>d, <2>1, <2>2, <2>3, <3>2
    <2>4. CASE ~Sdk!Matches(i, s)
        <3>1. d = e
            BY <1>d, <2>4
        <3>2. Holds(s, e, i)
            <4>1. \A m \in start[s] + 1 .. i : Sdk!Matches(m, s) => m \in start[s] + 1 .. cursor
                BY <1>0, <1>1, <1>2, <1>3, <1>5, <2>4
            <4> QED
                BY <1>3, <4>1 DEF Holds
        <3> QED
            BY <1>3, <2>1, <2>2, <3>1, <3>2
    <2> QED
        BY <2>3, <2>4
<1> QED
    BY <1>1, <1>2, <1>6, <1>7

\* The stream read moves on.
LEMMA PosInv ==
    ASSUME StreamInv, fan.pc = "reading", NEW i, i = Sdk!NextOn(fan.cur), i # 0,
           streams' = [streams EXCEPT ![fan.cur].pos = i], seen' = seen \cup {i}
    PROVE  /\ streams' \in Seq(Stream) /\ Len(streams') = Len(streams) /\ i \in Nat
           /\ \A m \in 1 .. Len(streams) : streams'[m].filter = streams[m].filter
           /\ \A c \in Nat : c >= cursor /\ c >= i =>
                  \A m \in 1 .. Len(streams) : streams'[m].pos <= c
<1>1. i \in 1 .. Len(log) /\ Len(log) \in Nat /\ fan.cur \in 1 .. Len(streams)
    BY NextFact
<1>2. /\ streams \in Seq(Stream) /\ cursor \in Nat
      /\ \A m \in 1 .. Len(streams) : streams[m].pos <= cursor
    BY DEF StreamInv
<1>3. /\ streams' \in Seq(Stream) /\ Len(streams') = Len(streams) /\ i \in Nat
      /\ \A m \in 1 .. Len(streams) :
             /\ streams'[m].filter = streams[m].filter
             /\ streams'[m].pos = IF m = fan.cur THEN i ELSE streams[m].pos
    BY <1>1, <1>2, PosSet
<1>4. \A m \in 1 .. Len(streams) : streams[m].pos \in Nat
    <2>1. \A m \in 1 .. Len(streams) : streams[m] \in Stream
        BY <1>2
    <2> QED
        BY <2>1 DEF Stream
<1>5. ASSUME NEW c \in Nat, c >= cursor, c >= i, NEW m \in 1 .. Len(streams)
      PROVE  streams'[m].pos <= c
    <2>1. CASE m = fan.cur
        BY <1>3, <1>5, <2>1
    <2>2. CASE m # fan.cur
        BY <1>2, <1>3, <1>4, <1>5, <2>2
    <2> QED
        BY <2>1, <2>2
<1> QED
    BY <1>3, <1>5

LEMMA DeliverKnownInv ==
    ASSUME SdkInv, Sdk!Deliver, Sdk!NextOn(fan.cur) \in seen
    PROVE  SdkInv'
<1>1. StreamInv /\ fan.pc = "reading"
    BY DEF SdkInv, Sdk!Deliver, Sdk!Reading
<1>2. PICK i : i = Sdk!NextOn(fan.cur) /\ i # 0 /\ i \in seen
    BY DEF Sdk!Deliver, Sdk!Reading
<1>3. /\ streams' = [streams EXCEPT ![fan.cur].pos = i] /\ seen' = seen \cup {i}
      /\ UNCHANGED <<cursor, queue, full>>
      /\ UNCHANGED <<log, shared, filter, fan, state, waits, given, shut, faults, start, jumped>>
    BY <1>2 DEF Sdk!Deliver, Sdk!Known
<1>4. /\ streams' \in Seq(Stream) /\ Len(streams') = Len(streams) /\ i \in Nat
      /\ \A m \in 1 .. Len(streams) : streams'[m].filter = streams[m].filter
      /\ \A c \in Nat : c >= cursor /\ c >= i =>
             \A m \in 1 .. Len(streams) : streams'[m].pos <= c
    BY <1>1, <1>2, <1>3, PosInv
<1>5. cursor \in Nat /\ i <= cursor /\ cursor >= cursor
    BY <1>1, <1>2 DEF StreamInv
<1>6. \A m \in 1 .. Len(streams) : streams'[m].pos <= cursor
    BY <1>4, <1>5
<1>7. seen' = seen
    BY <1>2, <1>3
<1>8. StreamInv'
    BY <1>1, <1>3, <1>4, <1>6, <1>7 DEF StreamInv
<1>9. \A s \in Subs : Covering(s) => Covering(s)'
    BY <1>1, <1>3, <1>4, CoverSame
<1> QED
    BY <1>3, <1>7, <1>8, <1>9, FanQuiet DEF Sdk!subVars

LEMMA DeliverNewInv ==
    ASSUME MaxQueue \in Nat, SdkInv, Sdk!Deliver, Sdk!NextOn(fan.cur) \notin seen
    PROVE  SdkInv'
<1>1. StreamInv /\ QueueInv /\ fan.pc = "reading"
    BY DEF SdkInv, Sdk!Deliver, Sdk!Reading
<1>2. PICK i : i = Sdk!NextOn(fan.cur) /\ i # 0 /\ i \notin seen
    BY DEF Sdk!Deliver, Sdk!Reading
<1>3. /\ streams' = [streams EXCEPT ![fan.cur].pos = i] /\ seen' = seen \cup {i}
      /\ UNCHANGED <<log, shared, filter, fan, state, waits, given, shut, faults, start, jumped>>
    BY <1>2 DEF Sdk!Deliver, Sdk!Known
<1>q. /\ ~Sdk!Overflows(i) /\ cursor' = Sdk!Max({cursor, i})
      /\ queue' = [s \in Subs |-> IF s \in Sdk!Registered THEN Sdk!WithSentinel(Sdk!WithEvent(s, i), i)
                                  ELSE queue[s]]
      /\ full' = (full \/ (log[i].channel = Sdk!Terminal
                             /\ \E s \in Sdk!Registered : Len(Sdk!WithEvent(s, i)) = MaxQueue))
    BY <1>2 DEF Sdk!Deliver, Sdk!Known
<1>4. /\ streams' \in Seq(Stream) /\ Len(streams') = Len(streams) /\ i \in Nat
      /\ \A m \in 1 .. Len(streams) : streams'[m].filter = streams[m].filter
      /\ \A c \in Nat : c >= cursor /\ c >= i =>
             \A m \in 1 .. Len(streams) : streams'[m].pos <= c
    BY <1>1, <1>2, <1>3, PosInv
<1>5. i \in 1 .. Len(log) /\ Len(log) \in Nat
    BY <1>1, <1>2, NextFact
<1>6. /\ cursor \in Nat /\ cursor <= Len(log) /\ seen \subseteq 1 .. cursor /\ full \in BOOLEAN
    BY <1>1, <1>5 DEF StreamInv
<1>7. PICK c \in Nat : c = cursor' /\ c = IF cursor <= i THEN i ELSE cursor
    BY <1>q, <1>4, <1>6, MaxFact
<1>8. c >= cursor /\ c >= i /\ c \in 0 .. Len(log)
    BY <1>5, <1>6, <1>7
<1>9. StreamInv'
    <2>1. \A m \in 1 .. Len(streams) : streams'[m].pos <= c
        BY <1>4, <1>8
    <2>2. seen' \subseteq 1 .. c
        BY <1>3, <1>5, <1>6, <1>8
    <2>3. full' \in BOOLEAN
        BY <1>q
    <2>4. cursor' = c
        BY <1>7
    <2>5. /\ fan.pc \in {"reading", "stuck"} => fan.cur \in 1 .. Len(streams')
          /\ fan.pc = "awaiting" => fan.new \in 1 .. Len(streams')
          /\ fan.pc = "reading" /\ fan.cur # shared => streams'[shared].filter = filter
          /\ shared \in 0 .. Len(streams')
        BY <1>1, <1>4 DEF StreamInv
    <2> QED
        BY <1>1, <1>3, <1>4, <1>8, <2>1, <2>2, <2>3, <2>4, <2>5 DEF StreamInv
<1>10. /\ queue \in [Subs -> Seq(Nat)] /\ given \in [Subs -> Seq(Nat)]
       /\ start \in [Subs -> Nat \cup {Sdk!NoSeq}] /\ \A s \in Subs : Len(queue[s]) <= MaxQueue
    BY <1>1 DEF QueueInv
<1>11. \A s \in Subs :
           /\ s \notin Sdk!Registered => queue'[s] = queue[s]
           /\ s \in Sdk!Registered =>
                 LET w == IF Sdk!Matches(i, s) THEN Append(queue[s], i) ELSE queue[s]
                 IN  queue'[s] = w \/ (queue'[s] = Append(w, Sdk!End) /\ Len(w) < MaxQueue)
    BY <1>q DEF Sdk!WithSentinel, Sdk!WithEvent
<1>12. \A s \in Sdk!Registered : Sdk!Matches(i, s) => Len(queue[s]) # MaxQueue
    BY <1>q DEF Sdk!Overflows
<1>13. ASSUME NEW s \in Subs
       PROVE  queue'[s] \in Seq(Nat) /\ Len(queue'[s]) <= MaxQueue
    <2>1. CASE s \notin Sdk!Registered
        BY <1>10, <1>11, <2>1
    <2>2. CASE s \in Sdk!Registered
        <3>1. PICK w : /\ w = IF Sdk!Matches(i, s) THEN Append(queue[s], i) ELSE queue[s]
                       /\ queue'[s] = w \/ (queue'[s] = Append(w, Sdk!End) /\ Len(w) < MaxQueue)
            BY <1>11, <2>2
        <3>2. queue[s] \in Seq(Nat) /\ Len(queue[s]) <= MaxQueue /\ Len(queue[s]) \in Nat
            BY <1>10
        <3>3. w \in Seq(Nat) /\ Len(w) <= MaxQueue
            <4>1. CASE Sdk!Matches(i, s)
                <5>1. w = Append(queue[s], i) /\ Len(queue[s]) < MaxQueue
                    BY <1>12, <2>2, <3>1, <3>2, <4>1
                <5>2. w \in Seq(Nat) /\ Len(w) = Len(queue[s]) + 1
                    BY <1>4, <3>2, <5>1, Added
                <5> QED
                    BY <3>2, <5>1, <5>2
            <4>2. CASE ~Sdk!Matches(i, s)
                BY <3>1, <3>2, <4>2
            <4> QED
                BY <4>1, <4>2
        <3>4. CASE queue'[s] = Append(w, Sdk!End) /\ Len(w) < MaxQueue
            <4>1. Sdk!End \in Nat
                BY DEF Sdk!End
            <4>2. queue'[s] \in Seq(Nat) /\ Len(queue'[s]) = Len(w) + 1 /\ Len(w) \in Nat
                BY <3>3, <3>4, <4>1, Added
            <4> QED
                BY <3>4, <4>2
        <3> QED
            BY <3>1, <3>3, <3>4
    <2> QED
        BY <2>1, <2>2
<1>14. QueueInv'
    <2>1. queue' \in [Subs -> Seq(Nat)]
        <3>1. queue' = [s \in Subs |-> queue'[s]]
            BY <1>q
        <3> QED
            BY <1>13, <3>1
    <2>2. \A s \in Subs : state'[s] = "idle" => queue'[s] = <<>> /\ given'[s] = <<>>
        BY <1>1, <1>3, <1>11 DEF QueueInv, Sdk!Registered
    <2> QED
        BY <1>1, <1>3, <1>13, <2>1, <2>2 DEF QueueInv
<1>15. ASSUME NEW s \in Subs
       PROVE  SubInv(s)'
    <2>1. SubInv(s) /\ start[s] \in Nat \cup {Sdk!NoSeq} /\ start'[s] = start[s] /\ (full => full')
        BY <1>1, <1>3, <1>q DEF SdkInv, QueueInv
    <2>2. s \in Sdk!Registered' <=> s \in Sdk!Registered
        BY <1>3 DEF Sdk!Registered
    <2>3. Covering(s) => Covering(s)'
        BY <1>1, <1>3, <1>4, CoverSame
    <2>4. s \in Sdk!Registered /\ start[s] # Sdk!NoSeq => Covering(s)
        BY <2>1 DEF SubInv
    <2>5. CASE s \notin Sdk!Registered
        <3>1. queue'[s] = queue[s] /\ given'[s] = given[s]
            BY <1>3, <1>11, <2>5
        <3>2. /\ seen \subseteq seen' /\ cursor' \in Nat /\ cursor <= cursor'
              /\ \A m \in 1 .. cursor : log'[m] = log[m]
            BY <1>3, <1>7, <1>8
        <3> QED
            BY <1>1, <1>3, <2>1, <2>2, <2>5, <3>1, <3>2, SubKept
    <2>6. CASE s \in Sdk!Registered
        <3>1. PICK q \in Seq(Nat), g \in Seq(Nat) : q = queue[s] /\ g = given[s]
            BY <1>10
        <3>2. PICK e \in Seq(Nat) : e = g \o q /\ e = Sdk!Events(s)
            <4>1. g \o q \in Seq(Nat)
                BY Concat
            <4> QED
                BY <3>1, <4>1 DEF Sdk!Events
        <3>3. PICK w : /\ w = IF Sdk!Matches(i, s) THEN Append(q, i) ELSE q
                       /\ queue'[s] = w \/ queue'[s] = Append(w, Sdk!End)
            BY <1>11, <2>6, <3>1
        <3>4. PICK a : a = IF Sdk!Matches(i, s) THEN Append(e, i) ELSE e
            OBVIOUS
        <3>5. w \in Seq(Nat) /\ a \in Seq(Nat) /\ Sdk!End \in Nat
            BY <1>4, <3>1, <3>2, <3>3, <3>4, Added DEF Sdk!End
        <3>6. g \o w = a
            <4>1. g \o Append(q, i) = Append(e, i)
                <5>1. i \in Nat
                    BY <1>4
                <5>2. g \o Append(q, i) = Append(g \o q, i)
                    BY <5>1, AddedLater
                <5> QED
                    BY <3>2, <5>2
            <4> QED
                BY <3>2, <3>3, <3>4, <4>1
        <3>7. PICK d : d = Sdk!Events(s)' /\ (d = a \/ d = Append(a, Sdk!End))
            <4>1. CASE queue'[s] = w
                BY <1>3, <3>1, <3>6, <4>1 DEF Sdk!Events
            <4>2. CASE queue'[s] = Append(w, Sdk!End)
                <5>1. g \o Append(w, Sdk!End) = Append(a, Sdk!End)
                    BY <3>1, <3>5, <3>6, AddedLater
                <5> QED
                    BY <1>3, <3>1, <4>2, <5>1 DEF Sdk!Events
            <4> QED
                BY <3>3, <4>1, <4>2
        <3>8. Own(seen, s, d)'
            <4>1. Own(seen, s, e)
                BY <2>1, <3>2 DEF SubInv
            <4>2. i # Sdk!End
                BY <1>2 DEF Sdk!End
            <4>3. Own(seen', s, a)
                BY <1>2, <1>3, <1>4, <3>2, <3>4, <4>1, <4>2, GivenOwn
            <4>4. Own(seen', s, d)
                BY <3>5, <3>7, <4>3, EndOrder
            <4> QED
                BY <1>3, <4>4 DEF Own, Sdk!Matches
        <3>9. ASSUME start[s] # Sdk!NoSeq, ~full', ~jumped'
              PROVE  InOrder(s, d)' /\ OwedAll(s)'
            <4>1. start[s] \in Nat /\ ~full /\ ~jumped
                BY <1>3, <2>1, <3>9
            <4>2. /\ InOrder(s, a) /\ Holds(s, a, c)
                  /\ \A m \in 1 .. c : Sdk!Matches(m, s) => m \in seen \cup {i}
                <5>1. Reads(s, i)
                    BY <1>1, <1>2, <2>1, <2>6, <4>1, Zenon DEF Reads
                <5>2. c = Passed(i) /\ a = WithRead(s, i) /\ Sdk!Events(s) \in Seq(Nat)
                    BY <1>7, <3>2, <3>4 DEF Passed, WithRead
                <5> QED
                    BY <5>1, <5>2, GivenOrder, Zenon
            <4>3. InOrder(s, d) /\ Holds(s, d, c)
                BY <3>5, <3>7, <4>2, EndOrder
            <4>4. InOrder(s, d)'
                BY <1>3, <4>3 DEF InOrder, Holds, Sdk!Matches
            <4>5. Holds(s, d, c)'
                BY <1>3, <4>3 DEF Holds, Sdk!Matches
            <4>6. \A m \in 1 .. c : Sdk!Matches(m, s)' => m \in seen'
                BY <1>3, <4>2 DEF Sdk!Matches
            <4> QED
                BY <1>7, <3>7, <4>4, <4>5, <4>6 DEF OwedAll
        <3>10. start[s] # Sdk!NoSeq => start'[s] <= cursor'
            <4>1. ASSUME start[s] # Sdk!NoSeq
                  PROVE  start[s] <= cursor /\ start[s] \in Nat
                BY <2>1, <4>1 DEF SubInv
            <4> QED
                BY <1>6, <1>7, <1>8, <2>1, <4>1
        <3> QED
            BY <2>1, <2>2, <2>3, <2>4, <3>7, <3>8, <3>9, <3>10 DEF SubInv
    <2> QED
        BY <2>5, <2>6
<1> QED
    BY <1>9, <1>14, <1>15 DEF SdkInv

LEMMA DeliverFullInv ==
    ASSUME MaxQueue \in Nat, SdkInv, Sdk!DeliverFull
    PROVE  SdkInv'
<1>1. StreamInv /\ QueueInv /\ fan.pc = "reading" /\ fan \in Fan
    BY DEF SdkInv, StreamInv, Sdk!DeliverFull, Sdk!Reading
<1>2. PICK i : i = Sdk!NextOn(fan.cur) /\ i # 0 /\ i \notin seen
    BY DEF Sdk!DeliverFull, Sdk!Reading, Sdk!Known
<1>3. /\ streams' = [streams EXCEPT ![fan.cur].pos = i] /\ seen' = seen \cup {i}
      /\ full' = TRUE
      /\ UNCHANGED <<log, shared, filter, state, waits, given, shut, faults, start, jumped>>
    BY <1>2 DEF Sdk!DeliverFull
<1>q. /\ cursor' = Sdk!Max({cursor, i})
      /\ \E before \in SUBSET {s \in Sdk!Registered : Len(queue[s]) < MaxQueue} :
            queue' = [s \in Subs |-> IF s \in before THEN Sdk!WithEvent(s, i) ELSE queue[s]]
    BY <1>2 DEF Sdk!DeliverFull
<1>f. fan' = IF shared = fan.cur THEN [fan EXCEPT !.pc = "stuck"] ELSE [fan EXCEPT !.cur = shared]
    BY DEF Sdk!DeliverFull
<1>4. /\ streams' \in Seq(Stream) /\ Len(streams') = Len(streams) /\ i \in Nat
      /\ \A m \in 1 .. Len(streams) : streams'[m].filter = streams[m].filter
      /\ \A c \in Nat : c >= cursor /\ c >= i =>
             \A m \in 1 .. Len(streams) : streams'[m].pos <= c
    BY <1>1, <1>2, <1>3, PosInv
<1>5. /\ i \in 1 .. Len(log) /\ Len(log) \in Nat /\ fan.cur \in 1 .. Len(streams)
      /\ shared \in 1 .. Len(streams) /\ Len(streams) \in Nat
    <2>1. shared \in 0 .. Len(streams) /\ shared # 0 /\ streams \in Seq(Stream)
        BY <1>1 DEF StreamInv
    <2> QED
        BY <1>1, <1>2, <2>1, NextFact
<1>6. cursor \in Nat /\ cursor <= Len(log) /\ seen \subseteq 1 .. cursor
    BY <1>1, <1>5 DEF StreamInv
<1>7. PICK c \in Nat : c = cursor' /\ c = IF cursor <= i THEN i ELSE cursor
    BY <1>q, <1>4, <1>6, MaxFact
<1>8. c >= cursor /\ c >= i /\ c \in 0 .. Len(log)
    BY <1>5, <1>6, <1>7
<1>9. /\ fan' \in Fan
      /\ \/ fan'.pc = "stuck" /\ fan'.cur = fan.cur
         \/ fan'.pc = "reading" /\ fan'.cur = shared
    BY <1>1, <1>5, <1>f DEF Fan
<1>10. StreamInv'
    <2>1. \A m \in 1 .. Len(streams) : streams'[m].pos <= c
        BY <1>4, <1>8
    <2>2. seen' \subseteq 1 .. c
        BY <1>3, <1>5, <1>6, <1>8
    <2>3. cursor' = c
        BY <1>7
    <2> QED
        BY <1>1, <1>3, <1>4, <1>5, <1>8, <1>9, <2>1, <2>2, <2>3 DEF StreamInv
<1>11. /\ queue \in [Subs -> Seq(Nat)] /\ given \in [Subs -> Seq(Nat)]
       /\ start \in [Subs -> Nat \cup {Sdk!NoSeq}] /\ \A s \in Subs : Len(queue[s]) <= MaxQueue
    BY <1>1 DEF QueueInv
<1>12. /\ queue' = [s \in Subs |-> queue'[s]]
       /\ \A s \in Subs : \/ queue'[s] = queue[s]
                          \/ /\ queue'[s] = Append(queue[s], i) /\ s \in Sdk!Registered
                             /\ Len(queue[s]) < MaxQueue /\ Sdk!Matches(i, s)
    <2>1. PICK before \in SUBSET {s \in Sdk!Registered : Len(queue[s]) < MaxQueue} :
              queue' = [s \in Subs |-> IF s \in before THEN Sdk!WithEvent(s, i) ELSE queue[s]]
        BY <1>q
    <2> QED
        BY <2>1 DEF Sdk!WithEvent
<1>13. ASSUME NEW s \in Subs
       PROVE  queue'[s] \in Seq(Nat) /\ Len(queue'[s]) <= MaxQueue
    <2>1. CASE queue'[s] = queue[s]
        BY <1>11, <2>1
    <2>2. CASE queue'[s] = Append(queue[s], i) /\ Len(queue[s]) < MaxQueue
        <3>1. queue[s] \in Seq(Nat) /\ i \in Nat
            BY <1>4, <1>11
        <3>2. queue'[s] \in Seq(Nat) /\ Len(queue'[s]) = Len(queue[s]) + 1 /\ Len(queue[s]) \in Nat
            BY <2>2, <3>1, Added
        <3> QED
            BY <2>2, <3>2
    <2> QED
        BY <1>12, <2>1, <2>2
<1>14. QueueInv'
    <2>1. queue' \in [Subs -> Seq(Nat)]
        BY <1>12, <1>13
    <2>2. \A s \in Subs : state'[s] = "idle" => queue'[s] = <<>> /\ given'[s] = <<>>
        BY <1>1, <1>3, <1>12 DEF QueueInv, Sdk!Registered
    <2> QED
        BY <1>1, <1>3, <1>13, <2>1, <2>2 DEF QueueInv
<1>15. ASSUME NEW s \in Subs
       PROVE  SubInv(s)'
    <2>1. SubInv(s) /\ start[s] \in Nat \cup {Sdk!NoSeq} /\ start'[s] = start[s]
        BY <1>1, <1>3 DEF SdkInv, QueueInv
    <2>2. PICK q \in Seq(Nat), g \in Seq(Nat) : q = queue[s] /\ g = given[s]
        BY <1>11
    <2>3. PICK e \in Seq(Nat) : e = g \o q /\ e = Sdk!Events(s)
        <3>1. g \o q \in Seq(Nat)
            BY Concat
        <3> QED
            BY <2>2, <3>1 DEF Sdk!Events
    <2>4. PICK d : d = Sdk!Events(s)' /\ (d = e \/ (d = Append(e, i) /\ Sdk!Matches(i, s)))
        <3>1. CASE queue'[s] = queue[s]
            BY <1>3, <2>2, <2>3, <3>1 DEF Sdk!Events
        <3>2. CASE queue'[s] = Append(queue[s], i) /\ Sdk!Matches(i, s)
            <4>1. i \in Nat
                BY <1>4
            <4>2. g \o Append(q, i) = Append(g \o q, i)
                BY <4>1, AddedLater
            <4> QED
                BY <1>3, <2>2, <2>3, <3>2, <4>2 DEF Sdk!Events
        <3> QED
            BY <1>12, <3>1, <3>2
    <2>5. Own(seen, s, d)'
        <3>1. Own(seen, s, e)
            BY <2>1, <2>3 DEF SubInv
        <3>2. i # Sdk!End /\ i \in Nat
            BY <1>2, <1>4 DEF Sdk!End
        <3>3. Own(seen', s, d)
            BY <1>2, <1>3, <2>4, <3>1, <3>2, GivenOwn
        <3> QED
            BY <1>3, <3>3 DEF Own, Sdk!Matches
    <2>6. start[s] # Sdk!NoSeq => start'[s] <= cursor'
        <3>1. ASSUME start[s] # Sdk!NoSeq
              PROVE  start[s] <= cursor /\ start[s] \in Nat
            BY <2>1, <3>1 DEF SubInv
        <3> QED
            BY <1>6, <1>7, <1>8, <2>1, <3>1
    <2>7. ASSUME start[s] # Sdk!NoSeq, s \in Sdk!Registered'
          PROVE  Covering(s)'
        <3>1. s \in Sdk!Registered
            BY <1>3, <2>7 DEF Sdk!Registered
        <3>2. Covering(s)
            BY <2>1, <2>7, <3>1 DEF SubInv
        <3>3. /\ Sdk!FilterCovers(filter, Params[s]) /\ Sdk!FilterCovers(streams[shared].filter, Params[s])
              /\ Sdk!FilterCovers(streams[fan.cur].filter, Params[s])
            BY <1>1, <3>2 DEF Covering
        <3> QED
            BY <1>3, <1>4, <1>5, <1>9, <3>3 DEF Covering
    <2> QED
        BY <1>3, <2>1, <2>4, <2>5, <2>6, <2>7 DEF SubInv
<1> QED
    BY <1>10, <1>14, <1>15 DEF SdkInv

LEMMA FanInv ==
    ASSUME MaxQueue \in Nat, SdkInv, Sdk!FanStep
    PROVE  SdkInv'
BY DeliverKnownInv, DeliverNewInv, DeliverFullInv, RotateInv, ReconnectInv, AttemptInv,
   AttemptFailsInv, ReconnectedInv, FanoutEndsInv DEF Sdk!FanStep

LEMMA SubStepInv ==
    ASSUME MaxQueue \in Nat, SdkInv, NothingYet, NEW s \in Subs,
           Sdk!Register(s) \/ Sdk!SubStep(s)
    PROVE  SdkInv'
BY RegisterInv, CoveredInv, RotatesInv, ReadyInv, RefusedInv, GetInv DEF Sdk!SubStep

LEMMA StutterInv ==
    ASSUME SdkInv, UNCHANGED Sdk!vars
    PROVE  SdkInv'
<1>1. UNCHANGED <<log, streams, shared, filter, cursor, seen, fan, Sdk!subVars, shut, start,
                  jumped, full>>
    BY DEF Sdk!vars, Sdk!streamVars, Sdk!noteVars
<1>2. StreamInv'
    BY <1>1 DEF SdkInv, StreamInv, Sdk!subVars
<1>3. \A s \in Subs : Covering(s) => Covering(s)'
    BY <1>1 DEF Covering
<1> QED
    BY <1>1, <1>2, <1>3, FanQuiet

\* Nothing is read, and no queue filled or emptied, until there is a stream.
LEMMA NothingNext ==
    ASSUME SdkInv, NothingYet, [Sdk!Next]_Sdk!vars
    PROVE  NothingYet'
<1>1. StreamInv
    BY DEF SdkInv
<1>2. SUFFICES ASSUME shared' = 0
               PROVE  NothingYet'
    BY DEF NothingYet
<1>3. /\ fan.pc \in {"reading", "stuck"} => shared # 0
      /\ fan.pc \in {"reconnecting", "awaiting"} => shared # 0
    BY <1>1 DEF StreamInv
<1>4. ~Sdk!FanStep
    <2>1. ASSUME Sdk!Deliver \/ Sdk!DeliverFull
          PROVE  fan.pc = "reading" /\ shared' = shared
        BY <2>1 DEF Sdk!Deliver, Sdk!DeliverFull, Sdk!Reading
    <2>2. ASSUME Sdk!Rotate \/ Sdk!Reconnect
          PROVE  fan.pc \in {"reading", "stuck"} /\ shared' = shared
        BY <2>2 DEF Sdk!Rotate, Sdk!Reconnect, Sdk!StreamOver, Sdk!streamVars
    <2>3. ASSUME Sdk!Attempt \/ Sdk!AttemptFails
          PROVE  fan.pc \in {"reconnecting", "awaiting"} /\ shared' = shared
        BY <2>3 DEF Sdk!Attempt, Sdk!AttemptFails, Sdk!streamVars
    <2>4. ASSUME Sdk!Reconnected
          PROVE  shared' # 0
        BY <1>1, <2>4 DEF Sdk!Reconnected, StreamInv
    <2>5. ASSUME Sdk!FanoutEnds
          PROVE  fan.pc \in {"reading", "stuck", "reconnecting"} /\ shared' = shared
        BY <2>5 DEF Sdk!FanoutEnds, Sdk!StreamOver, Sdk!streamVars
    <2> QED
        BY <1>2, <1>3, <2>1, <2>2, <2>3, <2>4, <2>5 DEF Sdk!FanStep
<1>5. CASE Sdk!Jump
    BY <1>5 DEF Sdk!Jump, NothingYet, Sdk!streamVars, Sdk!subVars
<1>6. ASSUME NEW s \in Subs, Sdk!Register(s) \/ Sdk!SubStep(s)
      PROVE  NothingYet'
    <2>1. CASE Sdk!ReconcileRotates(s)
        BY <1>1, <1>2, <2>1 DEF Sdk!ReconcileRotates, StreamInv
    <2>2. CASE Sdk!Get(s)
        BY <1>2, <2>2 DEF Sdk!Get, NothingYet, Sdk!streamVars
    <2>3. CASE Sdk!Register(s) \/ Sdk!ReconcileCovered(s) \/ Sdk!Ready(s) \/ Sdk!Refused(s)
        <3>1. UNCHANGED <<shared, cursor, jumped, queue, given>>
            BY <2>3 DEF Sdk!Register, Sdk!ReconcileCovered, Sdk!Ready, Sdk!Refused,
                        Sdk!streamVars, Sdk!noteVars
        <3> QED
            BY <3>1 DEF NothingYet
    <2> QED
        BY <1>6, <2>1, <2>2, <2>3 DEF Sdk!SubStep
<1>7. CASE \/ Sdk!Emit \/ Sdk!Close \/ UNCHANGED Sdk!vars
           \/ \E n \in DOMAIN streams : Sdk!Accept(n) \/ Sdk!Drop(n) \/ Sdk!CloseOld(n)
    <2>1. UNCHANGED <<shared, cursor, jumped, queue, given>>
        BY <1>7 DEF Sdk!Emit, Sdk!Close, Sdk!Accept, Sdk!Drop, Sdk!CloseOld, Sdk!vars,
                    Sdk!streamVars, Sdk!subVars, Sdk!noteVars
    <2> QED
        BY <2>1 DEF NothingYet
<1> QED
    BY <1>4, <1>5, <1>6, <1>7 DEF Sdk!Next

LEMMA SdkNext ==
    ASSUME MaxQueue \in Nat, SdkInv, NothingYet, [Sdk!Next]_Sdk!vars
    PROVE  SdkInv'
<1>1. CASE Sdk!Emit
    BY <1>1, EmitInv
<1>2. CASE Sdk!Jump
    BY <1>2, JumpInv
<1>3. CASE Sdk!Close
    BY <1>3, CloseInv
<1>4. CASE Sdk!FanStep
    BY <1>4, FanInv
<1>5. CASE \E s \in Subs : Sdk!Register(s) \/ Sdk!SubStep(s)
    BY <1>5, SubStepInv
<1>6. CASE \E n \in DOMAIN streams : Sdk!Accept(n) \/ Sdk!Drop(n) \/ Sdk!CloseOld(n)
    BY <1>6, NetworkInv
<1>7. CASE UNCHANGED Sdk!vars
    BY <1>7, StutterInv
<1> QED
    BY <1>1, <1>2, <1>3, <1>4, <1>5, <1>6, <1>7 DEF Sdk!Next

LEMMA SdkAlways == ASSUME MaxQueue \in Nat PROVE Sdk!Spec => []SdkInv
<1>1. Sdk!Init => SdkInv /\ NothingYet
    BY InitSdk DEF NothingYet, Sdk!Init
<1>2. SdkInv /\ NothingYet /\ [Sdk!Next]_Sdk!vars => SdkInv' /\ NothingYet'
    BY SdkNext, NothingNext
<1> QED
    BY <1>1, <1>2, PTL DEF Sdk!Spec

-----------------------------------------------------------------------------
(* Theorems.                                                               *)

\* _fanout, _dedup_iter: no subscription gets an event twice, or one it did not
\* ask for; one that the stream covered when it was made, and the one that opened
\* the first stream, gets, in order and without a gap, every event that it asks
\* for, whatever is dropped, opened again and rotated for others, for any number
\* of subscriptions, streams and events.
THEOREM SubscriptionsInOrder ==
    ASSUME MaxQueue \in Nat
    PROVE  Sdk!Spec => []OnceInOrder
<1>1. SdkInv => OnceInOrder
    <2>1. SUFFICES ASSUME SdkInv, NEW s \in Subs, NEW i \in Sdk!Given(s)
                   PROVE  LET x == Sdk!Events(s)[i]
                          IN  /\ Sdk!Matches(x, s)
                              /\ \A j \in Sdk!Given(s) : j # i => Sdk!Events(s)[j] # x
                              /\ (start[s] # Sdk!NoSeq /\ ~full /\ ~jumped) =>
                                    /\ x > start[s]
                                    /\ \A j \in Sdk!Given(s) : j > i => Sdk!Events(s)[j] > x
                                    /\ \A k \in start[s] + 1 .. x : Sdk!Matches(k, s) =>
                                           \E j \in Sdk!Given(s) : Sdk!Events(s)[j] = k
        BY DEF OnceInOrder, Sdk!OnceInOrder
    <2>2. SubInv(s) /\ given[s] \in Seq(Nat) /\ queue[s] \in Seq(Nat)
          /\ start[s] \in Nat \cup {Sdk!NoSeq}
        BY <2>1 DEF SdkInv, QueueInv
    <2>3. PICK e \in Seq(Nat) : e = Sdk!Events(s)
        BY <2>2, Concat DEF Sdk!Events
    <2>4. PICK x : x = e[i]
        OBVIOUS
    <2>5. /\ \A j \in Sdk!Given(s) : j \in DOMAIN e /\ j \in Nat /\ \A l \in 1 .. j : e[l] # Sdk!End
          /\ \A j \in DOMAIN e : (\A l \in 1 .. j : e[l] # Sdk!End) => j \in Sdk!Given(s)
        BY <2>3 DEF Sdk!Given
    <2>6. \A j \in Sdk!Given(s) : e[j] # Sdk!End /\ e[j] \in Nat
        BY <2>3, <2>5
    <2>7. Own(seen, s, e)
        BY <2>2, <2>3 DEF SubInv
    <2>8. Sdk!Matches(x, s) /\ \A j \in Sdk!Given(s) : j # i => e[j] # x
        BY <2>4, <2>5, <2>6, <2>7, Zenon DEF Own
    <2>9. ASSUME start[s] # Sdk!NoSeq, ~full, ~jumped
          PROVE  /\ x > start[s]
                 /\ \A j \in Sdk!Given(s) : j > i => e[j] > x
                 /\ \A k \in start[s] + 1 .. x : Sdk!Matches(k, s) => \E j \in Sdk!Given(s) : e[j] = k
        <3>1. InOrder(s, e) /\ start[s] \in Nat
            BY <2>2, <2>3, <2>9 DEF SubInv
        <3>2. x \in Nat /\ x # Sdk!End /\ i \in DOMAIN e /\ i \in Nat
            BY <2>4, <2>5, <2>6
        <3>3. x > start[s] /\ Holds(s, e, x)
            BY <2>4, <3>1, <3>2 DEF InOrder
        <3>4. ASSUME NEW j \in Sdk!Given(s), j > i
              PROVE  e[j] > x
            <4>1. j \in DOMAIN e /\ e[j] # Sdk!End /\ e[j] \in Nat /\ i < j
                BY <2>5, <2>6, <3>2, <3>4
            <4>2. e[i] < e[j]
                BY <2>4, <3>1, <3>2, <4>1, Zenon DEF InOrder
            <4> QED
                BY <2>4, <3>2, <4>1, <4>2
        <3>5. ASSUME NEW k \in start[s] + 1 .. x, Sdk!Matches(k, s)
              PROVE  \E j \in Sdk!Given(s) : e[j] = k
            <4>1. PICK j \in DOMAIN e : e[j] = k
                BY <3>3, <3>5 DEF Holds
            <4>2. j <= i
                <5>1. ASSUME i < j
                      PROVE  FALSE
                    <6>1. k # Sdk!End /\ k <= x /\ k \in Nat
                        BY <3>1, <3>2, <3>5 DEF Sdk!End
                    <6>2. x < k
                        BY <2>4, <3>1, <3>2, <4>1, <5>1, <6>1, Zenon DEF InOrder
                    <6> QED
                        BY <3>2, <6>1, <6>2
                <5> QED
                    BY <3>2, <4>1, <5>1
            <4>3. \A l \in 1 .. j : e[l] # Sdk!End
                <5>1. \A l \in 1 .. i : e[l] # Sdk!End
                    BY <2>5
                <5>2. j \in Nat
                    BY <4>1
                <5>3. \A l \in 1 .. j : l \in 1 .. i
                    BY <3>2, <4>2, <5>2
                <5> QED
                    BY <5>1, <5>3, Zenon
            <4> QED
                BY <2>5, <4>1, <4>3
        <3> QED
            BY <3>3, <3>4, <3>5
    <2> QED
        BY <2>3, <2>4, <2>8, <2>9
<1> QED
    BY <1>1, SdkAlways, PTL

\* The types of the stream and of the subscriptions; no queue grows beyond
\* max_queue_size, and the cursor is never ahead of the run.
THEOREM StreamTyped ==
    ASSUME MaxQueue \in Nat
    PROVE  Sdk!Spec => []Sdk!TypeOK
<1>1. SdkInv => Sdk!TypeOK
    <2>1. SUFFICES ASSUME SdkInv PROVE Sdk!TypeOK
        OBVIOUS
    <2>2. StreamInv /\ QueueInv
        BY <2>1 DEF SdkInv
    <2>3. log \in Seq([channel : Kinds \cup {Sdk!Terminal}, namespace : {<<>>}])
        BY <2>2 DEF StreamInv, Event
    <2>4. fan.pc \in {"none", "reading", "stuck", "reconnecting", "awaiting", "done", "cancelled"}
        BY <2>2 DEF StreamInv, Fan
    <2>5. seen \subseteq DOMAIN log
        <3>1. cursor \in 0 .. Len(log) /\ seen \subseteq 1 .. cursor /\ Len(log) \in Nat
              /\ DOMAIN log = 1 .. Len(log)
            BY <2>2, <2>3 DEF StreamInv
        <3> QED
            BY <3>1
    <2>6. \A s \in Subs : Len(queue[s]) <= MaxQueue /\ start[s] \in Nat \cup {Sdk!NoSeq}
        BY <2>2 DEF QueueInv
    <2> QED
        BY <2>2, <2>3, <2>4, <2>5, <2>6 DEF Sdk!TypeOK, StreamInv, QueueInv
<1> QED
    BY <1>1, SdkAlways, PTL

-----------------------------------------------------------------------------
(* The streams of a run: RunStream.                                        *)

ReadersAssumption == Readers \subseteq {"values", "events", "child", "output"}

-----------------------------------------------------------------------------
(* The invariant.                                                          *)

\* Nobody has aborted the run or cancelled a consumer, and nobody has had a
\* scheduled task to wait for.
Normal == ~lost /\ abort = "none" /\ Run!NoneWaitedFor

Part == [kind : {"value", "start", "inner", "result"}, n : Nat, status : Run!Results]
Item == Part \cup {Run!Lifecycle(e) : e \in {"started"} \cup Run!Results}

RunTyped ==
    /\ made \in Seq(Part)
    /\ items \in [Run!Channels -> Seq(Item)] /\ got \in [Readers -> Seq(Item)]
    /\ closed \in [Run!Channels -> {"no", "closed", "failed"}]
    /\ pc \in [Readers -> {"absent", "cursor", "waiting", "notified", "pulling", "pushing",
                           "ended", "raised"}]
    /\ exhausted \in BOOLEAN /\ pumping \in BOOLEAN /\ open \in BOOLEAN /\ has \in BOOLEAN
    /\ gen \in {"live", "stop", "error"}
    /\ pull.is \in {"none", "running", "part", "stop", "error"}

\* The first n parts have one of kind k.
Has(k, n) == \E i \in 1 .. n : made[i].kind = k

\* The parts that have gone through the mux.
Pushed0 == IF pull.is = "part" THEN Len(made) - 1 ELSE Len(made)

\* What the subgraph does: it starts once, yields, and ends.
MadeInOrder ==
    /\ \A i \in DOMAIN made : made[i].n = i
    /\ \A j \in DOMAIN made : made[j].kind \in {"inner", "result"} => Has("start", j - 1)
    /\ \A i, j \in DOMAIN made : made[i].kind = "result" /\ i < j => made[j].kind = "value"
    /\ \A i, j \in DOMAIN made : made[i].kind = "start" /\ made[j].kind = "start" => i = j
    /\ sub = IF Has("result", Len(made)) THEN "over"
             ELSE IF Has("start", Len(made)) THEN "running" ELSE "none"

Puller(c) == pc[c] \in {"pulling", "pushing"}

\* One consumer at most has a pull under way, and the generator is over when
\* a pull has said so.
OnePuller ==
    /\ \A c, e \in Readers : Puller(c) /\ Puller(e) => c = e
    /\ pumping <=> \E c \in Readers : Puller(c)
    /\ pumping <=> pull.is # "none"
    /\ \A c \in Readers : pc[c] = "pushing" => pull.is = "part"
    /\ pull.is = "part" => made # <<>> /\ pull.part = made[Len(made)]
    /\ exhausted => ~pumping /\ gen # "live"
    /\ ~exhausted => gen = IF pull.is \in {"stop", "error"} THEN pull.is ELSE "live"

\* The channels are open until the generator is over, those of the subgraph
\* until its result has gone through.
MuxState ==
    /\ \A ch \in Run!Channels \ {"child"} :
          closed[ch] = IF exhausted THEN (IF gen = "stop" THEN "closed" ELSE "failed") ELSE "no"
    /\ exhausted => closed["child"] # "no" /\ ~open
    /\ ~exhausted => (closed["child"] # "no" <=> Has("result", Pushed0))
    /\ ~exhausted => (open <=> Has("start", Pushed0) /\ ~Has("result", Pushed0))

\* What a reader has received and what waits for it.
StreamOf(c) == got[c] \o items[c]

\* s is the parts of kind k numbered m to n, in order.
ListsTo(s, k, m, n) ==
    /\ \A i, j \in DOMAIN s : i < j => s[i].n < s[j].n
    /\ Run!Range(s) = {made[i] : i \in {j \in m .. n : made[j].kind = k}}

\* The streams hold what has gone through the mux since they were subscribed.
ContentOf(c) ==
    pc[c] # "absent" =>
        /\ c = "values" => ListsTo(StreamOf(c), "value", 1, Pushed0)
        /\ c = "events" /\ ~exhausted => StreamOf(c) = [i \in 1 .. Pushed0 |-> Run!Shown(made[i])]
        /\ c = "events" /\ exhausted /\ gen = "stop" => StreamOf(c) = Run!WholeLog
        /\ c = "child" /\ has =>
              \E m \in 1 .. Pushed0 + 1 : ListsTo(StreamOf(c), "inner", m, Pushed0)
        /\ c = "child" /\ ~has => StreamOf(c) = <<>>

\* Who has ended has seen the end of its channel.
EndSeen(c) ==
    /\ pc[c] = "ended" =>
          IF c = "child" /\ has THEN closed[c] = "closed" /\ items[c] = <<>>
          ELSE exhausted /\ gen = "stop" /\ (c \in {"values", "events"} => items[c] = <<>>)
    /\ pc[c] = "raised" =>
          IF c = "child" /\ has THEN closed[c] = "failed" ELSE exhausted /\ gen = "error"

RunInv ==
    /\ RunTyped /\ MadeInOrder /\ OnePuller /\ MuxState
    /\ \A c \in Readers : ContentOf(c) /\ EndSeen(c)

-----------------------------------------------------------------------------
(* The invariant implies the property.                                     *)

LEMMA ListsToLists ==
    ASSUME RunTyped, MadeInOrder, NEW s, NEW k, NEW m \in 1 .. Len(made) + 1,
           ListsTo(s, k, m, Len(made))
    PROVE  Run!Lists(s, k, m)
<1>1. DOMAIN made = 1 .. Len(made) /\ Len(made) \in Nat
    BY DEF RunTyped
<1>2. {made[i] : i \in {j \in m .. Len(made) : made[j].kind = k}}
        = {p \in Run!Range(made) : p.kind = k /\ p.n >= m}
    <2>1. ASSUME NEW i \in DOMAIN made PROVE i \in m .. Len(made) <=> made[i].n >= m
        BY <1>1 DEF MadeInOrder
    <2>2. \A i \in m .. Len(made) : i \in DOMAIN made
        BY <1>1
    <2> QED
        BY <2>1, <2>2 DEF Run!Range
<1> QED
    BY <1>2 DEF Run!Lists, ListsTo

LEMMA RunInvImplies ==
    ASSUME ReadersAssumption, RunInv
    PROVE  StreamsComplete
<1> USE DEF RunInv
<1> SUFFICES ASSUME NEW c \in Readers
             PROVE  /\ (pc[c] = "ended" /\ (c = "child" => ~has)) => gen = "stop"
                    /\ (pc[c] = "ended" /\ c = "values") => Run!Lists(got[c], "value", 1)
                    /\ (pc[c] = "ended" /\ c = "events") => got[c] = Run!WholeLog
                    /\ (pc[c] = "ended" /\ c = "child" /\ has) =>
                          \E m \in 1 .. Len(made) + 1 : Run!Lists(got[c], "inner", m)
                    /\ pc[c] = "raised" => gen = "error" \/ (c = "child" /\ closed[c] = "failed")
    BY DEF StreamsComplete, Run!StreamsComplete
<1>1. ContentOf(c) /\ EndSeen(c)
    OBVIOUS
<1>2. Len(made) \in Nat /\ DOMAIN made = 1 .. Len(made)
    BY DEF RunTyped
<1>3. c \in Run!Channels => (items[c] = <<>> => StreamOf(c) = got[c])
    <2> SUFFICES ASSUME c \in Run!Channels, items[c] = <<>> PROVE got[c] \o items[c] = got[c]
        BY DEF StreamOf
    <2>1. got[c] \in Seq(Item)
        BY DEF RunTyped
    <2> QED
        BY <2>1
<1>4. exhausted => Pushed0 = Len(made)
    BY DEF OnePuller, Pushed0
<1>5. (pc[c] = "ended" /\ c = "values") => Run!Lists(got[c], "value", 1)
    <2> SUFFICES ASSUME pc[c] = "ended", c = "values" PROVE Run!Lists(got[c], "value", 1)
        OBVIOUS
    <2>1. ListsTo(got[c], "value", 1, Len(made))
        BY <1>1, <1>3, <1>4 DEF ContentOf, EndSeen, Run!Channels
    <2>2. 1 \in 1 .. Len(made) + 1
        BY <1>2
    <2> QED
        BY <2>1, <2>2, ListsToLists
<1>6. (pc[c] = "ended" /\ c = "events") => got[c] = Run!WholeLog
    BY <1>1, <1>3 DEF ContentOf, EndSeen, Run!Channels
<1>7. (pc[c] = "ended" /\ c = "child" /\ has) =>
          \E m \in 1 .. Len(made) + 1 : Run!Lists(got[c], "inner", m)
    <2> SUFFICES ASSUME pc[c] = "ended", c = "child", has
                 PROVE  \E m \in 1 .. Len(made) + 1 : Run!Lists(got[c], "inner", m)
        OBVIOUS
    <2>1. PICK m \in 1 .. Len(made) + 1 : ListsTo(got[c], "inner", m, Pushed0)
        <3>1. 1 .. Pushed0 + 1 \subseteq 1 .. Len(made) + 1
            BY <1>2 DEF Pushed0
        <3> QED
            BY <3>1, <1>1, <1>3 DEF ContentOf, EndSeen, Run!Channels
    <2>2. CASE Pushed0 = Len(made)
        BY <2>1, <2>2, ListsToLists
    <2>3. CASE Pushed0 # Len(made)
        <3>1. ~exhausted /\ Pushed0 = Len(made) - 1 /\ made # <<>>
            BY <2>3, <1>4 DEF Pushed0, OnePuller
        <3>2. Has("result", Len(made) - 1) /\ Len(made) \in DOMAIN made
            BY <3>1, <1>1, <1>2 DEF MuxState, EndSeen, RunTyped
        <3>3. made[Len(made)].kind = "value"
            BY <3>2, <1>2 DEF Has, MadeInOrder
        <3>4. {j \in m .. Len(made) - 1 : made[j].kind = "inner"}
                = {j \in m .. Len(made) : made[j].kind = "inner"}
            BY <3>3, <1>2
        <3>5. ListsTo(got[c], "inner", m, Len(made))
            BY <2>1, <3>1, <3>4 DEF ListsTo
        <3> QED
            BY <3>5, ListsToLists
    <2> QED
        BY <2>2, <2>3
<1> QED
    BY <1>1, <1>5, <1>6, <1>7 DEF EndSeen

-----------------------------------------------------------------------------
(* Sequences.                                                              *)

LEMMA TakeSeq ==
    ASSUME NEW T, NEW s \in Seq(T), NEW t \in Seq(T), t # <<>>
    PROVE  Append(s, Head(t)) \o Tail(t) = s \o t
BY SMTT(30)

LEMMA PushSeq ==
    ASSUME NEW T, NEW s \in Seq(T), NEW t \in Seq(T), NEW x \in T
    PROVE  s \o Append(t, x) = Append(s \o t, x) /\ s \o t \in Seq(T)
BY SMTT(30)

LEMMA ListsMore ==
    ASSUME RunTyped, MadeInOrder, NEW s \in Seq(Item), NEW k, NEW n \in Nat, n + 1 <= Len(made),
           NEW m \in 1 .. n + 1, ListsTo(s, k, m, n)
    PROVE  /\ made[n + 1].kind = k => ListsTo(Append(s, made[n + 1]), k, m, n + 1)
           /\ made[n + 1].kind # k => ListsTo(s, k, m, n + 1)
<1> DEFINE p == made[n + 1]
           S(e) == {made[i] : i \in {j \in m .. e : made[j].kind = k}}
<1>1. n + 1 \in DOMAIN made /\ DOMAIN made = 1 .. Len(made) /\ Len(made) \in Nat
    BY DEF RunTyped
<1>2. p.n = n + 1
    BY <1>1 DEF MadeInOrder
<1>3. Run!Range(s) = S(n)
    BY DEF ListsTo
<1>4. \A x \in S(n) : x.n \in Nat /\ x.n < n + 1
    BY <1>1 DEF MadeInOrder
<1>5. m .. n + 1 = (m .. n) \cup {n + 1}
    OBVIOUS
<1>6. CASE p.kind # k
    <2>1. S(n + 1) = S(n)
        BY <1>5, <1>6
    <2> QED
        BY <1>6, <2>1 DEF ListsTo
<1>7. CASE p.kind = k
    <2>1. S(n + 1) = S(n) \cup {p}
        BY <1>5, <1>7
    <2> DEFINE t == Append(s, p)
    <2>2. p \in Item
        BY <1>1 DEF Item, RunTyped
    <2>3. /\ DOMAIN t = (DOMAIN s) \cup {Len(s) + 1} /\ DOMAIN s = 1 .. Len(s) /\ Len(s) \in Nat
          /\ \A i \in DOMAIN s : t[i] = s[i]
          /\ t[Len(s) + 1] = p
        BY <2>2
    <2> HIDE DEF t, p, S
    <2>4. Run!Range(t) = Run!Range(s) \cup {p}
        BY <2>3 DEF Run!Range
    <2>5. ASSUME NEW i \in DOMAIN t, NEW j \in DOMAIN t, i < j
          PROVE  t[i].n < t[j].n
        <3>1. i \in DOMAIN s /\ t[i] = s[i]
            BY <2>3, <2>5
        <3>2. CASE j \in DOMAIN s
            BY <2>3, <2>5, <3>1, <3>2 DEF ListsTo
        <3>3. CASE j = Len(s) + 1
            <4>1. t[i] \in S(n)
                BY <3>1, <1>3 DEF Run!Range
            <4> QED
                BY <4>1, <3>3, <2>3, <1>2, <1>4
        <3> QED
            BY <2>3, <3>2, <3>3
    <2>6. Run!Range(t) = S(n + 1)
        BY <2>1, <2>4, <1>3
    <2>7. ListsTo(t, k, m, n + 1)
        BY <2>5, <2>6 DEF ListsTo, S
    <2> QED
        BY <1>7, <2>7 DEF t, p
<1> QED
    BY <1>6, <1>7

-----------------------------------------------------------------------------
(* Steps that move one consumer only.                                      *)

LEMMA ContentStays ==
    ASSUME NEW e \in Readers, ContentOf(e), pc'[e] # "absent" => pc[e] # "absent",
           made' = made, sub' = sub, gen' = gen, exhausted' = exhausted, pull' = pull,
           items' = items, has' = has, got' = got
    PROVE  ContentOf(e)'
<1>1. StreamOf(e)' = StreamOf(e) /\ Pushed0' = Pushed0 /\ Run!WholeLog' = Run!WholeLog
    BY DEF StreamOf, Pushed0, Run!WholeLog
<1>2. \A s, k, m, n : ListsTo(s, k, m, n)' <=> ListsTo(s, k, m, n)
    BY DEF ListsTo
<1> QED
    BY <1>1, <1>2 DEF ContentOf

\* c goes to where; nothing else changes.
Moves(c, where) ==
    /\ pc' = [pc EXCEPT ![c] = where]
    /\ UNCHANGED <<Run!genVars, Run!pumpVars, abort, scheduled, Run!muxVars, has, got, lost>>

LEMMA MoveStep ==
    ASSUME RunInv, NEW c \in Readers, NEW where, Moves(c, where), pc[c] # "absent",
           where \in {"cursor", "waiting", "notified", "pulling", "pushing", "ended", "raised"},
           Puller(c) <=> where \in {"pulling", "pushing"},
           where = "pushing" => pull.is = "part",
           where = "ended" =>
               IF c = "child" /\ has THEN closed[c] = "closed" /\ items[c] = <<>>
               ELSE exhausted /\ gen = "stop" /\ (c \in {"values", "events"} => items[c] = <<>>),
           where = "raised" =>
               IF c = "child" /\ has THEN closed[c] = "failed" ELSE exhausted /\ gen = "error"
    PROVE  RunInv'
<1> USE DEF RunInv
<1>1. /\ pc' = [pc EXCEPT ![c] = where]
      /\ made' = made /\ sub' = sub /\ gen' = gen /\ exhausted' = exhausted /\ pumping' = pumping
      /\ pull' = pull /\ items' = items /\ closed' = closed /\ open' = open /\ has' = has /\ got' = got
    BY DEF Moves, Run!genVars, Run!pumpVars, Run!muxVars
<1>2. pc'[c] = where /\ (\A e \in Readers : e # c => pc'[e] = pc[e])
    BY <1>1 DEF RunTyped
<1>3. RunTyped'
    BY <1>1 DEF RunTyped
<1>4. \A e \in Readers : Puller(e)' <=> Puller(e)
    BY <1>2 DEF Puller
<1>5. OnePuller'
    <2>1. \A e \in Readers : pc'[e] = "pushing" => pull.is = "part"
        BY <1>2 DEF OnePuller
    <2> QED
        BY <2>1, <1>1, <1>4 DEF OnePuller
<1>6. MadeInOrder' /\ MuxState'
    BY <1>1 DEF MadeInOrder, MuxState, Has, Pushed0
<1>7. ASSUME NEW e \in Readers PROVE ContentOf(e)' /\ EndSeen(e)'
    <2>1. pc'[e] # "absent" => pc[e] # "absent"
        BY <1>2
    <2>2. ContentOf(e)'
        BY <2>1, <1>1, ContentStays
    <2>3. EndSeen(e)'
        <3>1. EndSeen(e)
            OBVIOUS
        <3> QED
            BY <3>1, <1>1, <1>2 DEF EndSeen
    <2> QED
        BY <2>2, <2>3
<1> QED
    BY <1>3, <1>5, <1>6, <1>7

LEMMA RunStutter ==
    ASSUME RunInv, UNCHANGED <<Run!genVars, Run!pumpVars, Run!muxVars, pc, has, got>>
    PROVE  RunInv'
<1>1. /\ pc' = pc
      /\ made' = made /\ sub' = sub /\ gen' = gen /\ exhausted' = exhausted /\ pumping' = pumping
      /\ pull' = pull /\ items' = items /\ closed' = closed /\ open' = open /\ has' = has /\ got' = got
    BY DEF Run!genVars, Run!pumpVars, Run!muxVars
<1>2. \A e \in Readers : ContentOf(e)'
    BY <1>1, ContentStays DEF RunInv
<1>3. RunTyped' /\ \A e \in Readers : EndSeen(e)'
    BY <1>1 DEF RunInv, RunTyped, EndSeen
<1>4. MadeInOrder' /\ OnePuller' /\ MuxState'
    BY <1>1 DEF RunInv, MadeInOrder, OnePuller, MuxState, Puller, Has, Pushed0
<1> QED
    BY <1>2, <1>3, <1>4 DEF RunInv

\* The channel that a reader is on: its own, or, for one who waits to be handed
\* the subgraph, that of the subgraphs.
LEMMA ChannelFacts ==
    ASSUME ReadersAssumption, NEW c \in Readers, c # "output"
    PROVE  /\ Run!ChannelOf(c) \in Run!Channels /\ c \in Run!Channels
           /\ c # "child" => Run!ChannelOf(c) = c /\ Run!ChannelOf(c) # "child"
           /\ c = "child" /\ has => Run!ChannelOf(c) = c
           /\ c = "child" /\ ~has => Run!ChannelOf(c) = "subgraphs"
BY DEF ReadersAssumption, Run!ChannelOf, Run!Channels

LEMMA SeeClosedStep ==
    ASSUME ReadersAssumption, RunInv, NEW c \in Readers, Run!SeeClosed(c)
    PROVE  RunInv'
<1> USE DEF RunInv
<1>1. /\ pc[c] = "cursor" /\ c # "output" /\ items[Run!ChannelOf(c)] = <<>>
      /\ closed[Run!ChannelOf(c)] # "no"
      /\ Moves(c, IF closed[Run!ChannelOf(c)] = "failed" THEN "raised" ELSE "ended")
    BY DEF Run!SeeClosed, Moves
<1>2. closed[Run!ChannelOf(c)] \in {"closed", "failed"}
    BY <1>1, ChannelFacts DEF RunTyped
<1>3. CASE c = "child" /\ has
    BY <1>1, <1>2, <1>3, ChannelFacts, MoveStep DEF Puller
<1>4. CASE ~(c = "child" /\ has)
    <2>1. Run!ChannelOf(c) \in Run!Channels \ {"child"} /\ (c \in {"values", "events"} => Run!ChannelOf(c) = c)
        BY <1>1, <1>4, ChannelFacts
    <2>2. exhausted /\ gen \in {"stop", "error"}
          /\ closed[Run!ChannelOf(c)] = IF gen = "stop" THEN "closed" ELSE "failed"
        BY <2>1, <1>1 DEF MuxState, OnePuller, RunTyped
    <2>3. CASE gen = "stop"
        BY <2>1, <2>2, <2>3, <1>1, <1>4, MoveStep DEF Puller
    <2>4. CASE gen = "error"
        BY <2>1, <2>2, <2>4, <1>1, <1>4, MoveStep DEF Puller
    <2> QED
        BY <2>2, <2>3, <2>4
<1> QED
    BY <1>3, <1>4

\* A cursor whose channel is open has nobody to end it.
LEMMA NotStopped ==
    ASSUME ReadersAssumption, RunInv, exhausted, NEW c \in Readers, c # "output"
    PROVE  ~Run!Stops(c)
<1>1. CASE Run!ChannelOf(c) = "child"
    BY <1>1 DEF Run!Stops, RunInv, MuxState
<1>2. CASE Run!ChannelOf(c) # "child"
    <2>1. Run!ChannelOf(c) \in Run!Channels \ {"child"}
        BY <1>2, ChannelFacts
    <2> QED
        BY <2>1 DEF Run!Stops, RunInv, MuxState
<1> QED
    BY <1>1, <1>2

LEMMA RefusedStep ==
    ASSUME ReadersAssumption, RunInv, NEW c \in Readers, Run!PumpRefused(c)
    PROVE  RunInv'
<1> USE DEF RunInv
<1>1. /\ pc[c] = "cursor" /\ exhausted /\ c = "output" /\ closed' = closed
      /\ pc' = [pc EXCEPT ![c] = Run!After(c, FALSE)]
      /\ UNCHANGED <<Run!genVars, Run!pumpVars, abort, scheduled, Run!muxVars, has, got, lost>>
    BY NotStopped DEF Run!PumpRefused, Run!Asks, Run!muxVars
<1>2. /\ gen \in {"stop", "error"}
      /\ closed["events"] = IF gen = "stop" THEN "closed" ELSE "failed"
    BY <1>1 DEF MuxState, OnePuller, RunTyped, Run!Channels
<1>3. Run!After(c, FALSE) = IF gen = "stop" THEN "ended" ELSE "raised"
    BY <1>1, <1>2 DEF Run!After
<1>4. Moves(c, IF gen = "stop" THEN "ended" ELSE "raised")
    BY <1>1, <1>3 DEF Moves
<1> QED
    BY <1>1, <1>2, <1>4, MoveStep DEF Puller

LEMMA WaitsStep ==
    ASSUME RunInv, NEW c \in Readers, Run!PumpWaits(c)
    PROVE  RunInv'
<1>1. pc[c] = "cursor" /\ Moves(c, "waiting")
    BY DEF Run!PumpWaits, Run!Asks, Moves
<1> QED
    BY <1>1, MoveStep DEF Puller

LEMMA WokenStep ==
    ASSUME ReadersAssumption, RunInv, NEW c \in Readers, Run!Woken(c)
    PROVE  RunInv'
<1> USE DEF RunInv
<1>1. /\ pc[c] = "notified" /\ closed' = closed /\ items' = items /\ has' = has
      /\ pc' = [pc EXCEPT ![c] = Run!After(c, ~exhausted)]
      /\ UNCHANGED <<Run!genVars, Run!pumpVars, abort, scheduled, Run!muxVars, has, got, lost>>
    BY DEF Run!Woken, Run!muxVars
<1>2. CASE ~exhausted \/ c # "output"
    <2>1. exhausted /\ c # "output" => ~Run!Stops(c)'
        <3>1. exhausted /\ c # "output" => ~Run!Stops(c)
            BY NotStopped
        <3> QED
            BY <3>1, <1>1 DEF Run!Stops, Run!ChannelOf
    <2>2. Run!After(c, ~exhausted) = "cursor"
        BY <2>1, <1>2 DEF Run!After
    <2>3. Moves(c, "cursor")
        BY <2>2, <1>1 DEF Moves
    <2> QED
        BY <2>3, <1>1, MoveStep DEF Puller
<1>3. CASE exhausted /\ c = "output"
    <2>1. /\ gen \in {"stop", "error"}
          /\ closed["events"] = IF gen = "stop" THEN "closed" ELSE "failed"
        BY <1>3 DEF MuxState, OnePuller, RunTyped, Run!Channels
    <2>2. Run!After(c, ~exhausted) = IF gen = "stop" THEN "ended" ELSE "raised"
        BY <1>1, <1>3, <2>1 DEF Run!After
    <2>3. Moves(c, IF gen = "stop" THEN "ended" ELSE "raised")
        BY <2>2, <1>1 DEF Moves
    <2> QED
        BY <2>1, <2>3, <1>1, <1>3, MoveStep DEF Puller
<1> QED
    BY <1>2, <1>3

LEMMA PushStartsStep ==
    ASSUME RunInv, NEW c \in Readers, Run!PushStarts(c)
    PROVE  RunInv'
<1>1. pc[c] = "pulling" /\ pull.is = "part" /\ Moves(c, "pushing")
    BY DEF Run!PushStarts, Moves
<1> QED
    BY <1>1, MoveStep DEF Puller

-----------------------------------------------------------------------------
(* A reader takes an item.                                                 *)

LEMMA TakeItemStep ==
    ASSUME ReadersAssumption, RunInv, NEW c \in Readers, Run!Take(c)
    PROVE  RunInv'
<1> USE DEF RunInv
<1> DEFINE ch == Run!ChannelOf(c)
<1>1. /\ pc[c] = "cursor" /\ c # "output" /\ items[ch] # <<>>
      /\ items' = [items EXCEPT ![ch] = Tail(items[ch])]
      /\ IF ch = "subgraphs"
         THEN has' = TRUE /\ got' = got
         ELSE got' = [got EXCEPT ![c] = Append(got[c], Head(items[c]))] /\ has' = has
      /\ made' = made /\ sub' = sub /\ gen' = gen /\ exhausted' = exhausted /\ pumping' = pumping
      /\ pull' = pull /\ closed' = closed /\ open' = open /\ pc' = pc
    BY DEF Run!Take, Run!genVars, Run!pumpVars
<1>2. /\ ch \in Run!Channels /\ c \in Run!Channels
      /\ c # "child" => ch = c
      /\ c = "child" /\ has => ch = c
      /\ c = "child" /\ ~has => ch = "subgraphs"
      /\ c # "subgraphs"
    BY <1>1, ChannelFacts DEF ReadersAssumption
<1> HIDE DEF ch
<1>3. items[ch] \in Seq(Item) /\ Tail(items[ch]) \in Seq(Item) /\ Head(items[ch]) \in Item
    BY <1>1, <1>2 DEF RunTyped
<1>4. /\ items'[ch] = Tail(items[ch])
      /\ \A d \in Run!Channels : d # ch => items'[d] = items[d]
      /\ items' \in [Run!Channels -> Seq(Item)]
    BY <1>1, <1>2, <1>3 DEF RunTyped
<1>5. /\ got' \in [Readers -> Seq(Item)]
      /\ \A e \in Readers : e # c \/ ch = "subgraphs" => got'[e] = got[e]
      /\ ch # "subgraphs" => ch = c /\ got'[c] = Append(got[c], Head(items[c]))
    <2>1. CASE ch = "subgraphs"
        BY <2>1, <1>1 DEF RunTyped
    <2>2. CASE ch # "subgraphs"
        <3>1. ch = c /\ Head(items[c]) \in Item
            BY <2>2, <1>2, <1>3 DEF RunTyped
        <3>2. got[c] \in Seq(Item)
            BY DEF RunTyped
        <3>3. Append(got[c], Head(items[c])) \in Seq(Item)
            BY <3>1, <3>2
        <3> QED
            BY <2>2, <3>1, <3>3, <1>1 DEF RunTyped
    <2> QED
        BY <2>1, <2>2
<1>6. RunTyped'
    BY <1>1, <1>4, <1>5 DEF RunTyped
<1>7. MadeInOrder' /\ OnePuller' /\ MuxState'
    BY <1>1 DEF MadeInOrder, OnePuller, MuxState, Puller, Has, Pushed0
<1>8. ASSUME NEW e \in Readers, e # "output"
      PROVE  StreamOf(e)' = StreamOf(e)
    <2>1. e \in Run!Channels /\ e # "subgraphs"
        BY <1>8, ChannelFacts DEF ReadersAssumption
    <2>2. CASE e # ch
        <3>1. got'[e] = got[e]
            BY <2>2, <1>5
        <3> QED
            BY <2>1, <2>2, <3>1, <1>4 DEF StreamOf
    <2>3. CASE e = ch
        <3>1. ch # "subgraphs" /\ e = c
            BY <2>1, <2>3, <1>5
        <3>2. got'[c] = Append(got[c], Head(items[c])) /\ items'[c] = Tail(items[c])
            BY <2>3, <3>1, <1>4, <1>5
        <3>3. got[c] \in Seq(Item) /\ items[c] \in Seq(Item) /\ items[c] # <<>>
            BY <2>3, <3>1, <1>1, <1>3 DEF RunTyped
        <3>4. Append(got[c], Head(items[c])) \o Tail(items[c]) = got[c] \o items[c]
            BY <3>3, TakeSeq
        <3> QED
            BY <3>1, <3>2, <3>4 DEF StreamOf
    <2> QED
        BY <2>2, <2>3
<1>9. ASSUME NEW e \in Readers PROVE ContentOf(e)'
    <2>1. ContentOf(e) /\ Pushed0' = Pushed0 /\ Run!WholeLog' = Run!WholeLog
        BY <1>1 DEF Pushed0, Run!WholeLog
    <2>2. \A s, k, m, n : ListsTo(s, k, m, n)' <=> ListsTo(s, k, m, n)
        BY <1>1 DEF ListsTo
    <2>3. CASE e # "child"
        <3>1. e = "values" \/ e = "events" => e # "output"
            OBVIOUS
        <3> QED
            BY <2>1, <2>2, <2>3, <3>1, <1>1, <1>8 DEF ContentOf
    <2>4. CASE e = "child" /\ has' = has
        BY <2>1, <2>2, <2>4, <1>1, <1>8 DEF ContentOf
    <2>5. CASE e = "child" /\ has' # has /\ pc[e] # "absent"
        <3>1. ~has /\ has'
            BY <2>5, <1>1 DEF RunTyped
        <3>2. StreamOf(e)' = <<>>
            BY <2>1, <2>5, <3>1, <1>8 DEF ContentOf
        <3>3. PICK n : n = Pushed0
            OBVIOUS
        <3>4. n \in Nat /\ n + 1 \in 1 .. n + 1 /\ n + 1 .. n = {}
            <4>1. Len(made) \in Nat /\ (made # <<>> => Len(made) - 1 \in Nat)
                BY DEF RunTyped
            <4> QED
                BY <4>1, <3>3 DEF Pushed0, OnePuller
        <3>5. ListsTo(<<>>, "inner", n + 1, n)'
            <4>1. Run!Range(<<>>) = {} /\ DOMAIN <<>> = {}
                BY DEF Run!Range
            <4> QED
                BY <3>4, <4>1 DEF ListsTo
        <3> QED
            BY <2>1, <2>5, <3>1, <3>2, <3>3, <3>4, <3>5, <1>1 DEF ContentOf
    <2> QED
        BY <2>3, <2>4, <2>5, <1>1 DEF ContentOf
<1>10. ASSUME NEW e \in Readers PROVE EndSeen(e)'
    <2>1. EndSeen(e) /\ pc'[c] = "cursor" /\ pc'[e] = pc[e]
        BY <1>1
    <2>2. CASE e = c
        BY <2>1, <2>2 DEF EndSeen
    <2>3. CASE e # c /\ e # "child"
        <3>1. e \in {"values", "events"} => e # ch /\ e \in Run!Channels
            BY <2>3, <1>2 DEF Run!Channels
        <3>2. e \in {"values", "events"} => items'[e] = items[e]
            BY <3>1, <1>4
        <3> QED
            BY <2>1, <2>3, <3>2, <1>1 DEF EndSeen
    <2>4. CASE e # c /\ e = "child"
        <3>1. ch # "child" /\ ch # "subgraphs"
            BY <2>4, <1>2
        <3>2. has' = has /\ items'["child"] = items["child"]
            BY <3>1, <1>1, <1>4 DEF Run!Channels
        <3> QED
            BY <2>1, <2>4, <3>2, <1>1 DEF EndSeen
    <2> QED
        BY <2>2, <2>3, <2>4
<1> QED
    BY <1>6, <1>7, <1>9, <1>10

-----------------------------------------------------------------------------
(* The generator.                                                          *)

LEMMA PullsStep ==
    ASSUME RunInv, NEW c \in Readers, Run!PumpPulls(c)
    PROVE  RunInv'
<1> USE DEF RunInv
<1>1. /\ pc[c] = "cursor" /\ ~exhausted /\ ~pumping
      /\ pumping' = TRUE /\ pull' = [is |-> "running"]
      /\ pc' = [pc EXCEPT ![c] = "pulling"]
      /\ made' = made /\ sub' = sub /\ gen' = gen /\ exhausted' = exhausted
      /\ items' = items /\ closed' = closed /\ open' = open /\ has' = has /\ got' = got
    BY DEF Run!PumpPulls, Run!Asks, Run!genVars, Run!muxVars
<1>2. pc'[c] = "pulling" /\ (\A e \in Readers : e # c => pc'[e] = pc[e])
    BY <1>1 DEF RunTyped
<1>3. /\ pull.is = "none" /\ pull'.is = "running" /\ (\A e \in Readers : ~Puller(e))
    BY <1>1 DEF OnePuller
<1>4. RunTyped'
    BY <1>1, <1>3 DEF RunTyped
<1>5. Pushed0' = Pushed0
    BY <1>1, <1>3 DEF Pushed0
<1>6. \A e \in Readers : Puller(e)' <=> e = c
    BY <1>2, <1>3 DEF Puller
<1>7. OnePuller'
    <2>1. \A e \in Readers : pc'[e] # "pushing"
        BY <1>2, <1>3 DEF Puller
    <2> QED
        BY <2>1, <1>1, <1>3, <1>6 DEF OnePuller
<1>8. MadeInOrder'
    BY <1>1 DEF MadeInOrder, Has
<1>9. MuxState'
    BY <1>1, <1>5 DEF MuxState, Has
<1>10. ASSUME NEW e \in Readers PROVE ContentOf(e)' /\ EndSeen(e)'
    <2>1. /\ ContentOf(e) /\ EndSeen(e)
          /\ pc'[e] \notin {"ended", "raised"} \/ pc'[e] = pc[e]
        BY <1>2
    <2>2. pc'[e] # "absent" => pc[e] # "absent"
        BY <1>1, <1>2
    <2>3. StreamOf(e)' = StreamOf(e) /\ Run!WholeLog' = Run!WholeLog
        BY <1>1 DEF StreamOf, Run!WholeLog
    <2>4. \A s, k, m, n : ListsTo(s, k, m, n)' <=> ListsTo(s, k, m, n)
        BY <1>1 DEF ListsTo
    <2>5. ContentOf(e)'
        BY <2>2, <2>3, <2>4, <1>1, <1>5 DEF ContentOf
    <2>6. EndSeen(e)'
        <3>1. EndSeen(e)
            OBVIOUS
        <3> QED
            BY <3>1, <1>1, <1>2 DEF EndSeen
    <2> QED
        BY <2>5, <2>6
<1> QED
    BY <1>4, <1>7, <1>8, <1>9, <1>10

LEMMA ReturnStep ==
    ASSUME RunInv, Run!Return
    PROVE  RunInv'
<1> USE DEF RunInv
<1>1. /\ pull.is = "running"
      /\ \/ gen = "live" /\ \E e \in {"stop", "error"} : gen' = e /\ pull' = [is |-> e]
         \/ gen # "live"
      /\ made' = made /\ sub' = sub /\ exhausted' = exhausted /\ pumping' = pumping /\ pc' = pc
      /\ items' = items /\ closed' = closed /\ open' = open /\ has' = has /\ got' = got
    BY DEF Run!Return, Run!muxVars
<1>2. pumping /\ ~exhausted /\ gen = "live"
    BY <1>1 DEF OnePuller
<1>3. gen' \in {"stop", "error"} /\ pull'.is = gen'
    BY <1>1, <1>2
<1>4. RunTyped' /\ Pushed0' = Pushed0
    BY <1>1, <1>3 DEF RunTyped, Pushed0
<1>5. OnePuller'
    <2>1. \A e \in Readers : (Puller(e)' <=> Puller(e)) /\ pc'[e] # "pushing"
        BY <1>1 DEF Puller, OnePuller
    <2> QED
        BY <2>1, <1>1, <1>2, <1>3 DEF OnePuller
<1>6. MadeInOrder' /\ MuxState'
    BY <1>1, <1>2, <1>4 DEF MadeInOrder, MuxState, Has
<1>7. ASSUME NEW e \in Readers PROVE ContentOf(e)' /\ EndSeen(e)'
    <2>1. ContentOf(e) /\ EndSeen(e)
        OBVIOUS
    <2>2. StreamOf(e)' = StreamOf(e) /\ Run!WholeLog' = Run!WholeLog
        BY <1>1 DEF StreamOf, Run!WholeLog
    <2>3. \A s, k, m, n : ListsTo(s, k, m, n)' <=> ListsTo(s, k, m, n)
        BY <1>1 DEF ListsTo
    <2>4. ContentOf(e)'
        BY <2>1, <2>2, <2>3, <1>1, <1>2, <1>4 DEF ContentOf
    <2> QED
        BY <2>1, <2>4, <1>1, <1>2 DEF EndSeen
<1> QED
    BY <1>4, <1>5, <1>6, <1>7

LEMMA YieldStep ==
    ASSUME RunInv, Run!Yield
    PROVE  RunInv'
<1> USE DEF RunInv
<1>0. PICK N : N = Len(made)
    OBVIOUS
<1>1. PICK p :
      /\ pull.is = "running" /\ gen = "live"
      /\ p \in Part /\ p.n = N + 1
      /\ p.kind = "start" => sub = "none"
      /\ p.kind \in {"inner", "result"} => sub = "running"
      /\ made' = Append(made, p) /\ pull' = [is |-> "part", part |-> p]
      /\ sub' = CASE p.kind = "start" -> "running" [] p.kind = "result" -> "over" [] OTHER -> sub
      /\ gen' = gen /\ exhausted' = exhausted /\ pumping' = pumping /\ pc' = pc
      /\ items' = items /\ closed' = closed /\ open' = open /\ has' = has /\ got' = got
    <2>1. PICK k \in {"value", "start", "inner", "result"}, st \in Run!Results :
          /\ pull.is = "running" /\ gen = "live"
          /\ k = "start" => sub = "none"
          /\ k \in {"inner", "result"} => sub = "running"
          /\ LET q == [kind |-> k, n |-> Len(made) + 1, status |-> st]
             IN  made' = Append(made, q) /\ pull' = [is |-> "part", part |-> q]
          /\ sub' = CASE k = "start" -> "running" [] k = "result" -> "over" [] OTHER -> sub
          /\ UNCHANGED <<gen, exhausted, pumping, abort, scheduled, Run!muxVars, pc, has, got, lost>>
        BY DEF Run!Yield
    <2> DEFINE q == [kind |-> k, n |-> Len(made) + 1, status |-> st]
    <2>2. q \in Part /\ q.n = N + 1 /\ q.kind = k
        BY <1>0 DEF Part, RunTyped
    <2> HIDE DEF q
    <2>3. made' = Append(made, q) /\ pull' = [is |-> "part", part |-> q]
        BY <2>1 DEF q
    <2> QED
        BY <2>1, <2>2, <2>3 DEF Run!muxVars
<1>2. /\ N \in Nat /\ DOMAIN made = 1 .. N /\ DOMAIN made' = 1 .. N + 1 /\ Len(made') = N + 1
      /\ made' \in Seq(Part)
      /\ \A i \in 1 .. N : made'[i] = made[i]
      /\ made'[N + 1] = p
    BY <1>0, <1>1 DEF RunTyped
<1>3. pull'.is = "part" /\ pull'.part = p /\ pumping /\ ~exhausted
    BY <1>1 DEF OnePuller
<1>4. RunTyped'
    BY <1>1, <1>2, <1>3 DEF RunTyped
<1>5. Pushed0 = N /\ Pushed0' = N
    BY <1>0, <1>1, <1>2, <1>3 DEF Pushed0
<1>6. \A k : /\ \A n \in 0 .. N : Has(k, n)' <=> Has(k, n)
             /\ Has(k, N + 1)' <=> Has(k, N) \/ p.kind = k
    <2>1. \A n \in 0 .. N : \A i \in 1 .. n : i \in 1 .. N
        BY <1>2
    <2>2. ASSUME NEW k PROVE \A n \in 0 .. N : Has(k, n)' <=> Has(k, n)
        BY <2>1, <1>2 DEF Has
    <2>3. 1 .. N + 1 = (1 .. N) \cup {N + 1}
        BY <1>2
    <2>4. ASSUME NEW k PROVE Has(k, N + 1)' <=> Has(k, N) \/ p.kind = k
        BY <2>3, <1>2 DEF Has
    <2> QED
        BY <2>2, <2>4
<1>7. sub = IF Has("result", N) THEN "over" ELSE IF Has("start", N) THEN "running" ELSE "none"
    BY <1>0 DEF MadeInOrder
<1>8. MadeInOrder'
    <2>1. \A i \in DOMAIN made' : made'[i].n = i
        BY <1>1, <1>2 DEF MadeInOrder
    <2>2. ASSUME NEW j \in DOMAIN made', made'[j].kind \in {"inner", "result"}
          PROVE  Has("start", j - 1)'
        <3>1. CASE j = N + 1
            <4>1. sub = "running" /\ j - 1 = N /\ N \in 0 .. N
                BY <3>1, <2>2, <1>1, <1>2
            <4> QED
                BY <4>1, <1>6, <1>7
        <3>2. CASE j \in 1 .. N
            <4>1. j - 1 \in 0 .. N /\ made[j].kind \in {"inner", "result"}
                BY <3>2, <2>2, <1>2
            <4>2. Has("start", j - 1)
                BY <4>1, <3>2, <1>2 DEF MadeInOrder
            <4> QED
                BY <4>1, <4>2, <1>6
        <3> QED
            BY <3>1, <3>2, <1>2
    <2>3. ASSUME NEW i \in DOMAIN made', NEW j \in DOMAIN made', made'[i].kind = "result", i < j
          PROVE  made'[j].kind = "value"
        <3>1. i \in 1 .. N
            BY <2>3, <1>2
        <3>2. CASE j \in 1 .. N
            BY <3>1, <3>2, <2>3, <1>2 DEF MadeInOrder
        <3>3. CASE j = N + 1
            <4>1. Has("result", N)
                BY <3>1, <2>3, <1>2 DEF Has
            <4> QED
                BY <4>1, <3>3, <1>1, <1>2, <1>7 DEF Part
        <3> QED
            BY <3>2, <3>3, <1>2
    <2>4. ASSUME NEW i \in DOMAIN made', NEW j \in DOMAIN made',
                 made'[i].kind = "start", made'[j].kind = "start"
          PROVE  i = j
        <3>1. p.kind = "start" => ~Has("start", N)
            BY <1>1, <1>7
        <3>2. p.kind = "start" => \A h \in 1 .. N : made[h].kind # "start"
            BY <3>1 DEF Has
        <3> QED
            BY <3>2, <2>4, <1>2 DEF MadeInOrder
    <2>5. sub' = IF Has("result", N + 1)' THEN "over"
                 ELSE IF Has("start", N + 1)' THEN "running" ELSE "none"
        <3>1. p.kind = "start" => ~Has("result", N)
            BY <1>1, <1>7
        <3> QED
            BY <3>1, <1>1, <1>6, <1>7 DEF Part
    <2> QED
        BY <2>1, <2>2, <2>3, <2>4, <2>5, <1>2 DEF MadeInOrder
<1>9. OnePuller'
    <2>1. \A e \in Readers : Puller(e)' <=> Puller(e)
        BY <1>1 DEF Puller
    <2>2. made' # <<>> /\ pull'.part = made'[Len(made')]
        BY <1>2, <1>3
    <2> QED
        BY <2>1, <2>2, <1>1, <1>3 DEF OnePuller
<1>10. MuxState'
    <2>1. N \in 0 .. N
        BY <1>2
    <2>2. \A k : Has(k, Pushed0)' <=> Has(k, Pushed0)
        BY <2>1, <1>5, <1>6
    <2> QED
        BY <2>2, <1>1, <1>3 DEF MuxState
<1>11. ASSUME NEW e \in Readers PROVE ContentOf(e)' /\ EndSeen(e)'
    <2>1. ContentOf(e) /\ EndSeen(e) /\ StreamOf(e)' = StreamOf(e)
        BY <1>1 DEF StreamOf
    <2>2. ASSUME NEW s, NEW k, NEW m \in Nat \ {0}
          PROVE  ListsTo(s, k, m, N)' <=> ListsTo(s, k, m, N)
        <3>1. \A j \in m .. N : made'[j] = made[j]
            BY <1>2
        <3>2. {j \in m .. N : made'[j].kind = k} = {j \in m .. N : made[j].kind = k}
            BY <3>1
        <3>3. {made'[i] : i \in {j \in m .. N : made'[j].kind = k}}
                = {made[i] : i \in {j \in m .. N : made[j].kind = k}}
            BY <3>1, <3>2
        <3> QED
            BY <3>3 DEF ListsTo
    <2>3. ContentOf(e)'
        <3>1. \A i \in 1 .. N : made'[i] = made[i]
            BY <1>2
        <3>2. [i \in 1 .. N |-> Run!Shown(made'[i])] = [i \in 1 .. N |-> Run!Shown(made[i])]
            BY <3>1
        <3>3. ASSUME NEW m \in 1 .. N + 1, ListsTo(StreamOf(e), "inner", m, N)
              PROVE  ListsTo(StreamOf(e), "inner", m, N)'
            <4>1. m \in Nat \ {0}
                BY <1>2
            <4>2. PICK s : s = StreamOf(e)
                OBVIOUS
            <4>3. ListsTo(s, "inner", m, N)'
                BY <4>1, <4>2, <3>3, <2>2
            <4> QED
                BY <4>1, <4>2, <4>3, <2>1
        <3>4. ListsTo(StreamOf(e), "value", 1, N) => ListsTo(StreamOf(e), "value", 1, N)'
            <4>1. PICK s : s = StreamOf(e)
                OBVIOUS
            <4>2. ListsTo(s, "value", 1, N) => ListsTo(s, "value", 1, N)'
                BY <2>2
            <4> QED
                BY <4>1, <4>2, <2>1
        <3> QED
            BY <3>2, <3>3, <3>4, <2>1, <1>0, <1>1, <1>3, <1>5 DEF ContentOf
    <2> QED
        BY <2>1, <2>3, <1>1, <1>3 DEF EndSeen
<1> QED
    BY <1>4, <1>8, <1>9, <1>10, <1>11

-----------------------------------------------------------------------------
(* The mux.                                                                *)

Buffers == [Run!Channels -> Seq(Item)]

LEMMA PushedFacts ==
    ASSUME NEW buf \in Buffers, NEW ch \in Run!Channels, NEW x \in Item, NEW after, after = Run!Pushed(buf, ch, x)
    PROVE  /\ after \in Buffers
           /\ ch \in Run!Subscribed => after[ch] = Append(buf[ch], x)
           /\ ch \notin Run!Subscribed => after[ch] = buf[ch]
           /\ \A d \in Run!Channels : d # ch => after[d] = buf[d]
<1>1. buf[ch] \in Seq(Item) /\ Append(buf[ch], x) \in Seq(Item)
    BY DEF Buffers
<1> QED
    BY <1>1 DEF Run!Pushed, Buffers

LEMMA SubscribedFacts ==
    ASSUME NEW c \in Readers, pc[c] # "absent"
    PROVE  /\ c = "values" => "values" \in Run!Subscribed
           /\ c = "events" => "events" \in Run!Subscribed
           /\ c = "child" => (has <=> "child" \in Run!Subscribed)
<1> DEFINE present == {e \in Readers \ {"output"} : pc[e] # "absent"}
<1>1. Run!Subscribed = {Run!ChannelOf(e) : e \in present}
                           \cup (IF "child" \in present THEN {"subgraphs"} ELSE {})
    BY DEF Run!Subscribed
<1>2. c # "output" => c \in present
    OBVIOUS
<1>3. \A e : Run!ChannelOf(e) = IF e = "child" /\ ~has THEN "subgraphs" ELSE e
    BY DEF Run!ChannelOf
<1> HIDE DEF present
<1>4. c = "values" \/ c = "events" => c \in Run!Subscribed
    BY <1>1, <1>2, <1>3
<1>5. c = "child" /\ has => "child" \in Run!Subscribed
    BY <1>1, <1>2, <1>3
<1>6. "child" \in Run!Subscribed => has
    BY <1>1, <1>3
<1> QED
    BY <1>4, <1>5, <1>6

\* The finally clause of _apump_next wakes those who wait, and moves nobody else.
LEMMA EndPumpFacts ==
    ASSUME RunTyped, NEW c \in Readers, NEW next \in {"cursor", "ended", "raised"}, Run!EndPump(c, next)
    PROVE  /\ pumping' = FALSE
           /\ pc' \in [Readers -> {"absent", "cursor", "waiting", "notified", "pulling", "pushing",
                                   "ended", "raised"}]
           /\ pc'[c] = next
           /\ \A e \in Readers : e # c =>
                 pc'[e] = pc[e] \/ (pc[e] = "waiting" /\ pc'[e] = "notified")
<1> DEFINE q == [pc EXCEPT ![c] = next]
<1>1. pumping' = FALSE /\ pc' = [e \in Readers |-> IF q[e] = "waiting" THEN "notified" ELSE q[e]]
    BY DEF Run!EndPump, Run!NotifyAll
<1>2. q[c] = next /\ \A e \in Readers : q[e] = IF e = c THEN next ELSE pc[e]
    BY DEF RunTyped
<1> HIDE DEF q
<1>3. \A e \in Readers : pc[e] \in {"absent", "cursor", "waiting", "notified", "pulling", "pushing",
                                    "ended", "raised"}
    BY DEF RunTyped
<1>4. \A e \in Readers : pc'[e] = IF e = c THEN next
                                   ELSE IF pc[e] = "waiting" THEN "notified" ELSE pc[e]
    BY <1>1, <1>2
<1>5. pc' = [e \in Readers |-> pc'[e]]
    BY <1>1
<1> QED
    BY <1>1, <1>3, <1>4, <1>5

\* When the pump ends nobody pulls any more.
LEMMA PumpOver ==
    ASSUME RunInv, NEW c \in Readers, Puller(c), NEW next \in {"cursor", "ended", "raised"},
           Run!EndPump(c, next), pull' = Run!NoPull, made' = made,
           exhausted' => gen' # "live", ~exhausted' => gen' = "live"
    PROVE  OnePuller'
<1>1. /\ pumping' = FALSE /\ pc'[c] = next
      /\ \A e \in Readers : e # c => pc'[e] = pc[e] \/ (pc[e] = "waiting" /\ pc'[e] = "notified")
    BY EndPumpFacts DEF RunInv
<1>2. \A e \in Readers : e # c => ~Puller(e)
    BY DEF RunInv, OnePuller
<1>3. \A e \in Readers : ~Puller(e)' /\ pc'[e] # "pushing"
    BY <1>1, <1>2 DEF Puller
<1>4. pull'.is = "none"
    BY DEF Run!NoPull
<1> QED
    BY <1>1, <1>3, <1>4 DEF OnePuller

\* The facts about a part that is being pushed, the last that was made.
LEMMA LastPart ==
    ASSUME RunInv, ~exhausted, pull.is = "part"
    PROVE  /\ Len(made) \in Nat /\ Len(made) - 1 \in Nat /\ Len(made) \in DOMAIN made
           /\ Pushed0 = Len(made) - 1
           /\ pull.part = made[Len(made)] /\ pull.part \in Part
           /\ \A k : Has(k, Len(made)) <=> Has(k, Len(made) - 1) \/ pull.part.kind = k
           /\ pull.part.kind \in {"inner", "result"} => Has("start", Len(made) - 1)
           /\ pull.part.kind = "start" => ~Has("start", Len(made) - 1) /\ ~Has("result", Len(made) - 1)
           /\ pull.part.kind \in {"inner", "result"} => ~Has("result", Len(made) - 1)
<1> USE DEF RunInv
<1>0. PICK N : N = Len(made)
    OBVIOUS
<1>1. N \in Nat /\ N - 1 \in Nat /\ DOMAIN made = 1 .. N /\ N \in DOMAIN made
    BY <1>0 DEF RunTyped, OnePuller
<1>2. Pushed0 = N - 1 /\ pull.part = made[N] /\ pull.part \in Part
    BY <1>0, <1>1 DEF Pushed0, OnePuller, RunTyped
<1>3. 1 .. N = (1 .. N - 1) \cup {N}
    BY <1>1
<1>4. \A k : Has(k, N) <=> Has(k, N - 1) \/ pull.part.kind = k
    BY <1>2, <1>3 DEF Has
<1>5. pull.part.kind \in {"inner", "result"} => Has("start", N - 1)
    BY <1>1, <1>2 DEF MadeInOrder
<1>6. pull.part.kind # "value" => ~Has("result", N - 1)
    BY <1>1, <1>2 DEF MadeInOrder, Has
<1>7. pull.part.kind = "start" => ~Has("start", N - 1)
    BY <1>1, <1>2 DEF MadeInOrder, Has
<1> QED
    BY <1>0, <1>1, <1>2, <1>4, <1>5, <1>6, <1>7

LEMMA LogMore ==
    ASSUME RunTyped, NEW n \in Nat, n + 1 <= Len(made)
    PROVE  Append([i \in 1 .. n |-> Run!Shown(made[i])], Run!Shown(made[n + 1]))
               = [i \in 1 .. n + 1 |-> Run!Shown(made[i])]
<1> DEFINE f == [i \in 1 .. n |-> Run!Shown(made[i])]
           g == [i \in 1 .. n + 1 |-> Run!Shown(made[i])]
           T == {Run!Shown(made[i]) : i \in 1 .. n + 1}
<1>1. f \in Seq(T) /\ Len(f) = n
    OBVIOUS
<1>2. Append(f, Run!Shown(made[n + 1])) = g
    <2>1. \A i \in 1 .. n + 1 : Append(f, Run!Shown(made[n + 1]))[i] = g[i]
        BY <1>1
    <2>2. Append(f, Run!Shown(made[n + 1])) = [i \in 1 .. n + 1 |-> Append(f, Run!Shown(made[n + 1]))[i]]
        BY <1>1
    <2> QED
        BY <2>1, <2>2
<1> QED
    BY <1>2

LEMMA ShownItem ==
    ASSUME NEW p \in Part
    PROVE  p \in Item /\ Run!Shown(p) \in Item
           /\ (p.kind \in {"value", "inner"} => Run!Shown(p) = p)
           /\ (p.kind = "start" => Run!Shown(p) = Run!Lifecycle("started"))
           /\ (p.kind = "result" => Run!Shown(p) = Run!Lifecycle(p.status))
BY DEF Item, Part, Run!Shown

\* What a push does to the buffers.
LEMMA RoutedSeq ==
    ASSUME NEW p \in Part, NEW to, items \in Buffers, to = Run!Routed(p),
           p.kind = "inner" => closed["child"] = "no", p.kind = "result" => open
    PROVE  /\ to \in Buffers
           /\ to["events"] = IF "events" \in Run!Subscribed
                             THEN Append(items["events"], Run!Shown(p)) ELSE items["events"]
           /\ to["values"] = IF "values" \in Run!Subscribed /\ p.kind = "value"
                             THEN Append(items["values"], p) ELSE items["values"]
           /\ to["child"] = IF "child" \in Run!Subscribed /\ p.kind = "inner"
                            THEN Append(items["child"], p) ELSE items["child"]
<1>1. p \in Item
    BY ShownItem
<1>2. /\ "values" \in Run!Channels /\ "events" \in Run!Channels /\ "subgraphs" \in Run!Channels /\ "child" \in Run!Channels
    BY DEF Run!Channels
<1>3. PICK q \in Item : q = Run!Shown(p)
    BY ShownItem
<1>v. "values" \in Run!Channels
    BY <1>2
<1>e. "events" \in Run!Channels
    BY <1>2
<1>s. "subgraphs" \in Run!Channels
    BY <1>2
<1>c. "child" \in Run!Channels
    BY <1>2
<1>4. CASE p.kind = "value"
    <2>1. PICK a : a = Run!Pushed(items, "values", p)
        OBVIOUS
    <2>2. to = Run!Pushed(a, "events", p) /\ q = p
        BY <2>1, <1>3, <1>4, ShownItem DEF Run!Routed
    <2>3. /\ a \in Buffers
          /\ "values" \in Run!Subscribed => a["values"] = Append(items["values"], p)
          /\ "values" \notin Run!Subscribed => a["values"] = items["values"]
          /\ \A d \in Run!Channels : d # "values" => a[d] = items[d]
        BY <2>1, <1>1, <1>v, PushedFacts
    <2>4. /\ to \in Buffers
          /\ "events" \in Run!Subscribed => to["events"] = Append(a["events"], p)
          /\ "events" \notin Run!Subscribed => to["events"] = a["events"]
          /\ \A d \in Run!Channels : d # "events" => to[d] = a[d]
        BY <2>2, <2>3, <1>1, <1>e, PushedFacts
    <2> QED
        BY <2>2, <2>3, <2>4, <1>2, <1>3, <1>4
<1>5. CASE p.kind = "start"
    <2>1. PICK a : a = Run!Pushed(items, "events", q)
        OBVIOUS
    <2>2. to = Run!Pushed(a, "subgraphs", p)
        BY <2>1, <1>3, <1>5, ShownItem DEF Run!Routed
    <2>3. /\ a \in Buffers
          /\ "events" \in Run!Subscribed => a["events"] = Append(items["events"], q)
          /\ "events" \notin Run!Subscribed => a["events"] = items["events"]
          /\ \A d \in Run!Channels : d # "events" => a[d] = items[d]
        BY <2>1, <1>e, PushedFacts
    <2>4. a \in Buffers /\ p \in Item
        BY <1>1, <2>3
    <2>5. /\ to \in Buffers
          /\ \A d \in Run!Channels : d # "subgraphs" => to[d] = a[d]
        BY <2>2, <2>4, <1>s, PushedFacts, SMTT(30)
    <2> QED
        BY <2>3, <2>5, <1>2, <1>3, <1>5
<1>6. CASE p.kind = "inner"
    <2>1. PICK a : a = Run!Pushed(items, "child", p)
        OBVIOUS
    <2>2. to = Run!Pushed(a, "events", p) /\ q = p
        BY <2>1, <1>3, <1>6, ShownItem DEF Run!Routed
    <2>3. /\ a \in Buffers
          /\ "child" \in Run!Subscribed => a["child"] = Append(items["child"], p)
          /\ "child" \notin Run!Subscribed => a["child"] = items["child"]
          /\ \A d \in Run!Channels : d # "child" => a[d] = items[d]
        BY <2>1, <1>1, <1>c, PushedFacts
    <2>4. /\ to \in Buffers
          /\ "events" \in Run!Subscribed => to["events"] = Append(a["events"], p)
          /\ "events" \notin Run!Subscribed => to["events"] = a["events"]
          /\ \A d \in Run!Channels : d # "events" => to[d] = a[d]
        BY <2>2, <2>3, <1>1, <1>e, PushedFacts
    <2> QED
        BY <2>2, <2>3, <2>4, <1>2, <1>3, <1>6
<1>7. CASE p.kind = "result"
    <2>1. to = Run!Pushed(items, "events", q)
        BY <1>3, <1>7, ShownItem DEF Run!Routed
    <2>2. /\ to \in Buffers
          /\ "events" \in Run!Subscribed => to["events"] = Append(items["events"], q)
          /\ "events" \notin Run!Subscribed => to["events"] = items["events"]
          /\ \A d \in Run!Channels : d # "events" => to[d] = items[d]
        BY <1>e, <2>1, PushedFacts
    <2> QED
        BY <2>2, <1>2, <1>3, <1>7
<1> QED
    BY <1>4, <1>5, <1>6, <1>7 DEF Part

LEMMA RoutedFacts ==
    ASSUME RunInv, ~exhausted, pull.is = "part", items' = Run!Routed(pull.part)
    PROVE  /\ items' \in [Run!Channels -> Seq(Item)]
           /\ items'["events"] = IF "events" \in Run!Subscribed
                                 THEN Append(items["events"], Run!Shown(pull.part)) ELSE items["events"]
           /\ items'["values"] = IF "values" \in Run!Subscribed /\ pull.part.kind = "value"
                                 THEN Append(items["values"], pull.part) ELSE items["values"]
           /\ items'["child"] = IF "child" \in Run!Subscribed /\ pull.part.kind = "inner"
                                THEN Append(items["child"], pull.part) ELSE items["child"]
<1>1. pull.part \in Part /\ items \in Buffers
    BY LastPart DEF RunInv, RunTyped, Buffers
<1>2. /\ pull.part.kind = "inner" => closed["child"] = "no"
      /\ pull.part.kind = "result" => open
    BY LastPart DEF RunInv, MuxState
<1> QED
    BY <1>1, <1>2, RoutedSeq DEF Buffers

\* A part that goes through the mux lengthens the streams it belongs to.
LEMMA ContentPush ==
    ASSUME ReadersAssumption, RunInv, ~exhausted, pull.is = "part", items' = Run!Routed(pull.part),
           NEW e \in Readers, pc'[e] # "absent" => pc[e] # "absent", pull' = Run!NoPull,
           made' = made, sub' = sub, gen' = gen, exhausted' = exhausted, has' = has, got' = got
    PROVE  ContentOf(e)'
<1>1. PICK N : N = Len(made)
    OBVIOUS
<1>2. PICK p : p = pull.part
    OBVIOUS
<1>3. PICK n : n = N - 1
    OBVIOUS
<1>4. /\ n \in Nat /\ n + 1 = N /\ N \in Nat /\ p = made[n + 1] /\ p \in Part /\ p \in Item
      /\ Run!Shown(p) \in Item
      /\ Pushed0 = n /\ Pushed0' = n + 1
    BY <1>1, <1>2, <1>3, LastPart, ShownItem DEF Pushed0, Run!NoPull
<1>5. RunTyped /\ MadeInOrder /\ ContentOf(e)
    BY DEF RunInv
<1>6. \A s, k, m : ListsTo(s, k, m, n + 1)' <=> ListsTo(s, k, m, n + 1)
    BY DEF ListsTo
<1>7. SUFFICES ASSUME pc'[e] # "absent" PROVE ContentOf(e)'
    BY DEF ContentOf
<1>8. pc[e] # "absent"
    BY <1>7
<1>9. ASSUME NEW s \in Seq(Item), NEW m \in 1 .. n + 1, NEW k, ListsTo(s, k, m, n)
      PROVE  /\ p.kind = k => ListsTo(Append(s, p), k, m, n + 1)
             /\ p.kind # k => ListsTo(s, k, m, n + 1)
    <2>1. n \in Nat /\ n + 1 <= Len(made) /\ p = made[n + 1]
        BY <1>1, <1>4
    <2>2. /\ made[n + 1].kind = k => ListsTo(Append(s, made[n + 1]), k, m, n + 1)
          /\ made[n + 1].kind # k => ListsTo(s, k, m, n + 1)
        BY <2>1, <1>5, <1>9, ListsMore
    <2> QED
        BY <2>1, <2>2
<1>10. e \in {"values", "events", "child", "output"}
    BY DEF ReadersAssumption
<1>11. CASE e = "values"
    <2>1. PICK s : s = StreamOf(e)
        OBVIOUS
    <2>2. s \in Seq(Item) /\ ListsTo(s, "value", 1, n)
        <3>1. got["values"] \in Seq(Item) /\ items["values"] \in Seq(Item)
            BY <1>5, <1>11 DEF RunTyped, Run!Channels
        <3> QED
            BY <3>1, <2>1, <1>4, <1>5, <1>8, <1>11 DEF ContentOf, StreamOf
    <2>3. StreamOf(e)' = IF p.kind = "value" THEN Append(s, p) ELSE s
        <3>1. got["values"] \in Seq(Item) /\ items["values"] \in Seq(Item)
            BY <1>5, <1>11 DEF RunTyped, Run!Channels
        <3>2. items'["values"] = IF p.kind = "value" THEN Append(items["values"], p) ELSE items["values"]
            BY <1>2, <1>8, <1>11, RoutedFacts, SubscribedFacts
        <3>3. got["values"] \o Append(items["values"], p) = Append(got["values"] \o items["values"], p)
            <4>1. p \in Item
                BY <1>4
            <4>2. \A u, v \in Seq(Item), x \in Item : u \o Append(v, x) = Append(u \o v, x)
                BY PushSeq
            <4> QED
                BY <3>1, <4>1, <4>2, Zenon
        <3> QED
            BY <3>2, <3>3, <2>1, <1>11 DEF StreamOf
    <2>4. PICK t : t = StreamOf(e)'
        OBVIOUS
    <2>5. ListsTo(t, "value", 1, n + 1)'
        <3>1. 1 \in 1 .. n + 1
            BY <1>4
        <3> QED
            BY <3>1, <2>2, <2>3, <2>4, <1>6, <1>9
    <2> QED
        BY <2>4, <2>5, <1>4, <1>11 DEF ContentOf
<1>12. CASE e = "events"
    <2>1. PICK s : s = StreamOf(e)
        OBVIOUS
    <2>2. s = [i \in 1 .. n |-> Run!Shown(made[i])]
        BY <2>1, <1>4, <1>5, <1>8, <1>12 DEF ContentOf
    <2>3. StreamOf(e)' = Append(s, Run!Shown(p))
        <3>1. got["events"] \in Seq(Item) /\ items["events"] \in Seq(Item)
            BY <1>5, <1>12 DEF RunTyped, Run!Channels
        <3>2. items'["events"] = Append(items["events"], Run!Shown(p))
            BY <1>2, <1>8, <1>12, RoutedFacts, SubscribedFacts
        <3>3. got["events"] \o Append(items["events"], Run!Shown(p))
                = Append(got["events"] \o items["events"], Run!Shown(p))
            <4>1. Run!Shown(p) \in Item
                BY <1>4
            <4>2. \A u, v \in Seq(Item), x \in Item : u \o Append(v, x) = Append(u \o v, x)
                BY PushSeq
            <4> QED
                BY <3>1, <4>1, <4>2, Zenon
        <3> QED
            BY <3>2, <3>3, <2>1, <1>12 DEF StreamOf
    <2>4. Append(s, Run!Shown(p)) = [i \in 1 .. n + 1 |-> Run!Shown(made[i])]
        BY <2>2, <1>1, <1>4, <1>5, LogMore
    <2>5. StreamOf(e)' = [i \in 1 .. n + 1 |-> Run!Shown(made[i])]
        BY <2>3, <2>4
    <2> QED
        BY <2>5, <1>4, <1>12 DEF ContentOf
<1>13. CASE e = "child"
    <2>1. PICK s : s = StreamOf(e)
        OBVIOUS
    <2>2. got["child"] \in Seq(Item) /\ items["child"] \in Seq(Item)
        BY <1>5, <1>13 DEF RunTyped, Run!Channels
    <2>3. items'["child"] = IF has /\ p.kind = "inner" THEN Append(items["child"], p) ELSE items["child"]
        BY <1>2, <1>8, <1>13, RoutedFacts, SubscribedFacts
    <2>4. StreamOf(e)' = IF has /\ p.kind = "inner" THEN Append(s, p) ELSE s
        <3>1. got["child"] \o Append(items["child"], p) = Append(got["child"] \o items["child"], p)
            <4>1. p \in Item
                BY <1>4
            <4>2. \A u, v \in Seq(Item), x \in Item : u \o Append(v, x) = Append(u \o v, x)
                BY PushSeq
            <4> QED
                BY <2>2, <4>1, <4>2, Zenon
        <3> QED
            BY <3>1, <2>1, <2>3, <1>13 DEF StreamOf
    <2>5. CASE ~has
        BY <2>1, <2>4, <2>5, <1>5, <1>8, <1>13 DEF ContentOf
    <2>6. CASE has
        <3>1. PICK m \in 1 .. n + 1 : ListsTo(s, "inner", m, n)
            BY <2>1, <2>6, <1>4, <1>5, <1>8, <1>13 DEF ContentOf
        <3>2. s \in Seq(Item)
            BY <2>1, <2>2, <1>13 DEF StreamOf
        <3>3. PICK t : t = StreamOf(e)'
            OBVIOUS
        <3>4. ListsTo(t, "inner", m, n + 1)'
            BY <3>1, <3>2, <3>3, <2>4, <2>6, <1>6, <1>9
        <3>5. m \in 1 .. n + 1 + 1
            BY <1>4
        <3> QED
            BY <3>3, <3>4, <3>5, <2>6, <1>4, <1>13 DEF ContentOf
    <2> QED
        BY <2>5, <2>6
<1>14. CASE e = "output"
    BY <1>14 DEF ContentOf
<1> QED
    BY <1>10, <1>11, <1>12, <1>13, <1>14

LEMMA OpenAfterIs ==
    ASSUME NEW p
    PROVE  /\ p.kind = "start" => Run!OpenAfter(p) = TRUE
           /\ p.kind = "result" => Run!OpenAfter(p) = FALSE
           /\ p.kind # "start" /\ p.kind # "result" => Run!OpenAfter(p) = open
BY Zenon DEF Run!OpenAfter

LEMMA PushEndsStep ==
    ASSUME ReadersAssumption, RunInv, NEW c \in Readers, Run!PushEnds(c)
    PROVE  RunInv'
<1>1. /\ pc[c] = "pushing"
      /\ items' = Run!Routed(pull.part) /\ closed' = Run!ChildClosed(pull.part) /\ open' = Run!OpenAfter(pull.part)
      /\ pull' = Run!NoPull
      /\ made' = made /\ sub' = sub /\ gen' = gen /\ exhausted' = exhausted /\ has' = has /\ got' = got
      /\ Run!EndPump(c, Run!After(c, TRUE))
    BY DEF Run!PushEnds, Run!genVars
<1>2. Run!After(c, TRUE) = "cursor"
    BY Zenon DEF Run!After
<1>3. Run!EndPump(c, "cursor")
    BY <1>1, <1>2
<1>4. RunTyped /\ MadeInOrder /\ OnePuller /\ MuxState
    BY DEF RunInv
<1>5. Puller(c) /\ pull.is = "part" /\ ~exhausted /\ gen = "live"
    <2>1. Puller(c) /\ pull.is = "part"
        BY <1>1, <1>4 DEF OnePuller, Puller
    <2>2. ~exhausted
        BY <2>1, <1>4 DEF OnePuller
    <2> QED
        BY <2>1, <2>2, <1>4 DEF OnePuller
<1>6. /\ pumping' = FALSE
      /\ pc' \in [Readers -> {"absent", "cursor", "waiting", "notified", "pulling", "pushing",
                              "ended", "raised"}]
      /\ pc'[c] = "cursor"
      /\ \A e \in Readers : e # c =>
            pc'[e] = pc[e] \/ (pc[e] = "waiting" /\ pc'[e] = "notified")
    BY <1>3, <1>4, EndPumpFacts
<1>7. PICK p : p = pull.part
    OBVIOUS
<1>8. PICK N : N = Len(made)
    OBVIOUS
<1>9. /\ N \in Nat /\ Pushed0 = N - 1 /\ Pushed0' = N /\ p \in Part
      /\ \A k : Has(k, N) <=> Has(k, N - 1) \/ p.kind = k
      /\ p.kind \in {"inner", "result"} => Has("start", N - 1)
      /\ p.kind = "start" => ~Has("start", N - 1) /\ ~Has("result", N - 1)
      /\ p.kind \in {"inner", "result"} => ~Has("result", N - 1)
    BY <1>1, <1>5, <1>7, <1>8, LastPart DEF Pushed0, Run!NoPull
<1>10. /\ \A ch \in Run!Channels \ {"child"} : closed'[ch] = closed[ch]
       /\ closed'["child"] = IF p.kind = "result" /\ open /\ closed["child"] = "no"
                               THEN (IF p.status = "failed" THEN "failed" ELSE "closed")
                               ELSE closed["child"]
       /\ closed' \in [Run!Channels -> {"no", "closed", "failed"}]
    BY <1>1, <1>4, <1>7 DEF Run!ChildClosed, RunTyped, Run!Channels
<1>11. /\ p.kind = "start" => open' = TRUE
       /\ p.kind = "result" => open' = FALSE
       /\ p.kind # "start" /\ p.kind # "result" => open' = open
    BY <1>1, <1>7, OpenAfterIs
<1>12. items' \in [Run!Channels -> Seq(Item)]
    BY <1>1, <1>5, RoutedFacts
<1>13. RunTyped'
    <2>1. open' \in BOOLEAN
        BY <1>4, <1>11 DEF RunTyped
    <2>2. pull'.is = "none"
        BY <1>1 DEF Run!NoPull
    <2>3. made \in Seq(Part) /\ got \in [Readers -> Seq(Item)] /\ exhausted \in BOOLEAN
          /\ has \in BOOLEAN /\ gen \in {"live", "stop", "error"}
        BY <1>4 DEF RunTyped
    <2> QED
        BY <2>1, <2>2, <2>3, <1>1, <1>6, <1>10, <1>12 DEF RunTyped
<1>14. MadeInOrder'
    BY <1>1, <1>4 DEF MadeInOrder, Has
<1>15. OnePuller'
    BY <1>1, <1>3, <1>5, PumpOver
<1>16. MuxState'
    <2>1. \A k : Has(k, N)' <=> Has(k, N)
        BY <1>1 DEF Has
    <2>2. /\ closed["child"] # "no" <=> Has("result", N - 1)
          /\ open <=> Has("start", N - 1) /\ ~Has("result", N - 1)
          /\ \A ch \in Run!Channels \ {"child"} : closed[ch] = "no"
        BY <1>4, <1>5, <1>9 DEF MuxState
    <2>3. closed'["child"] # "no" <=> Has("result", N)
        BY <2>2, <1>9, <1>10
    <2>4. open' <=> Has("start", N) /\ ~Has("result", N)
        BY <2>2, <1>9, <1>11
    <2> QED
        BY <2>1, <2>2, <2>3, <2>4, <1>1, <1>5, <1>9, <1>10 DEF MuxState
<1>17. ASSUME NEW e \in Readers PROVE ContentOf(e)' /\ EndSeen(e)'
    <2>1. pc'[e] # "absent" => pc[e] # "absent"
        BY <1>1, <1>6
    <2>2. ContentOf(e)'
        BY <2>1, <1>1, <1>5, ContentPush
    <2>3. EndSeen(e)
        BY DEF RunInv
    <2>4. pc'[e] \in {"ended", "raised"} => pc'[e] = pc[e]
        BY <1>6
    <2>5. pc[e] \in {"ended", "raised"} => e = "child" /\ has
        BY <2>3, <1>5 DEF EndSeen
    <2>6. pc[e] \in {"ended", "raised"} =>
              closed'["child"] = closed["child"] /\ items'["child"] = items["child"]
        <3>1. SUFFICES ASSUME pc[e] \in {"ended", "raised"}
                       PROVE  closed'["child"] = closed["child"] /\ items'["child"] = items["child"]
            OBVIOUS
        <3>2. closed["child"] # "no"
            BY <3>1, <2>3, <2>5 DEF EndSeen
        <3>3. Has("result", N - 1)
            BY <3>2, <1>4, <1>5, <1>9 DEF MuxState
        <3>4. p.kind # "inner"
            BY <3>3, <1>9
        <3> QED
            BY <3>2, <3>4, <1>1, <1>5, <1>7, <1>10, RoutedFacts
    <2>7. EndSeen(e)'
        BY <2>3, <2>4, <2>5, <2>6, <1>1 DEF EndSeen
    <2> QED
        BY <2>2, <2>7
<1> QED
    BY <1>13, <1>14, <1>15, <1>16, <1>17 DEF RunInv

\* The end of the generator: every channel is closed or failed, and a subgraph
\* that was open gets its terminal event.
LEMMA EndMuxFacts ==
    ASSUME RunTyped, NEW how \in {"closed", "failed"}, Run!EndMux(how)
    PROVE  /\ items' \in [Run!Channels -> Seq(Item)]
           /\ \A ch \in Run!Channels \ {"events"} : items'[ch] = items[ch]
           /\ ~open => items' = items
           /\ open /\ how = "closed" /\ "events" \in Run!Subscribed =>
                 items'["events"] = Append(items["events"], Run!Lifecycle("completed"))
           /\ \A ch \in Run!Channels : closed'[ch] = IF closed[ch] = "no" THEN how ELSE closed[ch]
           /\ closed' \in [Run!Channels -> {"no", "closed", "failed"}]
           /\ open' = FALSE
<1>1. PICK x \in Item : /\ how = "closed" => x = Run!Lifecycle("completed")
                        /\ items' = IF open THEN Run!Pushed(items, "events", x) ELSE items
    <2>1. Run!Lifecycle("completed") \in Item /\ Run!Lifecycle("failed") \in Item
        BY DEF Item, Run!Results
    <2>2. CASE how = "closed"
        BY <2>1, <2>2 DEF Run!EndMux
    <2>3. CASE how = "failed"
        BY <2>1, <2>3 DEF Run!EndMux
    <2> QED
        BY <2>2, <2>3
<1>2. items \in Buffers /\ "events" \in Run!Channels
    BY DEF RunTyped, Buffers, Run!Channels
<1>3. ASSUME NEW y, y = Run!Pushed(items, "events", x)
      PROVE  /\ y \in Buffers
             /\ "events" \in Run!Subscribed => y["events"] = Append(items["events"], x)
             /\ \A ch \in Run!Channels : ch # "events" => y[ch] = items[ch]
    BY <1>2, <1>3, PushedFacts
<1>4. /\ items' \in Buffers
      /\ \A ch \in Run!Channels \ {"events"} : items'[ch] = items[ch]
      /\ open /\ "events" \in Run!Subscribed => items'["events"] = Append(items["events"], x)
      /\ ~open => items' = items
    BY <1>1, <1>2, <1>3
<1>5. /\ closed' = [ch \in Run!Channels |-> IF closed[ch] = "no" THEN how ELSE closed[ch]]
      /\ open' = FALSE
    BY DEF Run!EndMux
<1>6. \A ch \in Run!Channels : closed[ch] \in {"no", "closed", "failed"}
    BY DEF RunTyped
<1>7. closed' \in [Run!Channels -> {"no", "closed", "failed"}]
    BY <1>5, <1>6
<1>8. \A ch \in Run!Channels : closed'[ch] = IF closed[ch] = "no" THEN how ELSE closed[ch]
    BY <1>5
<1>9. items' \in [Run!Channels -> Seq(Item)]
    BY <1>4 DEF Buffers
<1> QED
    BY <1>1, <1>4, <1>5, <1>7, <1>8, <1>9

\* The end of a pull by which the generator ends.
EndsWith(c, how) ==
    /\ pc[c] = "pulling" /\ pull.is = IF how = "closed" THEN "stop" ELSE "error"
    /\ Run!EndMux(how) /\ exhausted' = TRUE /\ pull' = Run!NoPull
    /\ UNCHANGED <<Run!genVars, has, got>>
    /\ Run!EndPump(c, Run!After(c, FALSE))

LEMMA EndsWithStep ==
    ASSUME ReadersAssumption, RunInv, NEW c \in Readers, NEW how \in {"closed", "failed"},
           EndsWith(c, how)
    PROVE  RunInv'
<1>1. /\ pc[c] = "pulling" /\ pull.is = IF how = "closed" THEN "stop" ELSE "error"
      /\ Run!EndMux(how) /\ exhausted' = TRUE /\ pull' = Run!NoPull
      /\ made' = made /\ sub' = sub /\ gen' = gen /\ has' = has /\ got' = got
      /\ Run!EndPump(c, Run!After(c, FALSE))
    BY DEF EndsWith, Run!genVars
<1>2. RunTyped /\ MadeInOrder /\ OnePuller /\ MuxState
    BY DEF RunInv
<1>3. Puller(c) /\ ~exhausted /\ gen = pull.is
    <2>1. Puller(c)
        BY <1>1 DEF Puller
    <2>2. ~exhausted
        BY <2>1, <1>2 DEF OnePuller
    <2> QED
        BY <2>1, <2>2, <1>1, <1>2 DEF OnePuller
<1>4. gen = (IF how = "closed" THEN "stop" ELSE "error")
    BY <1>1, <1>3
<1>5. /\ items' \in [Run!Channels -> Seq(Item)]
      /\ \A ch \in Run!Channels \ {"events"} : items'[ch] = items[ch]
      /\ ~open => items' = items
      /\ open /\ how = "closed" /\ "events" \in Run!Subscribed =>
            items'["events"] = Append(items["events"], Run!Lifecycle("completed"))
      /\ \A ch \in Run!Channels : closed'[ch] = IF closed[ch] = "no" THEN how ELSE closed[ch]
      /\ closed' \in [Run!Channels -> {"no", "closed", "failed"}]
      /\ open' = FALSE
    BY <1>1, <1>2, EndMuxFacts
<1>6. \A ch \in Run!Channels \ {"child"} : closed[ch] = "no" /\ closed'[ch] = how
    BY <1>2, <1>3, <1>5 DEF MuxState
<1>7. \A ch \in Run!Channels : closed'[ch] # "no"
    BY <1>5
<1>8. PICK next : next = Run!After(c, FALSE)
    OBVIOUS
<1>9. next = IF c = "output" THEN (IF how = "closed" THEN "ended" ELSE "raised") ELSE "cursor"
    <2>1. CASE c = "output"
        <3>1. closed'["events"] = how
            BY <1>6 DEF Run!Channels
        <3>2. next = IF closed'["events"] = "failed" THEN "raised" ELSE "ended"
            BY <1>8, <2>1 DEF Run!After
        <3> QED
            BY <3>1, <3>2, <2>1
    <2>2. CASE c # "output"
        <3>1. Run!ChannelOf(c)' \in Run!Channels
            BY <2>2, <1>1, ChannelFacts DEF Run!ChannelOf
        <3>2. ~Run!Stops(c)'
            BY <3>1, <1>7 DEF Run!Stops
        <3> QED
            BY <3>2, <1>8, <2>2 DEF Run!After
    <2> QED
        BY <2>1, <2>2
<1>10. next \in {"cursor", "ended", "raised"} /\ Run!EndPump(c, next)
    BY <1>1, <1>8, <1>9
<1>11. /\ pumping' = FALSE
       /\ pc' \in [Readers -> {"absent", "cursor", "waiting", "notified", "pulling", "pushing",
                               "ended", "raised"}]
       /\ pc'[c] = next
       /\ \A e \in Readers : e # c =>
             pc'[e] = pc[e] \/ (pc[e] = "waiting" /\ pc'[e] = "notified")
    BY <1>2, <1>10, EndPumpFacts
<1>12. PICK N : N = Len(made)
    OBVIOUS
<1>13. N \in Nat /\ DOMAIN made = 1 .. N /\ Pushed0 = N /\ Pushed0' = N
    BY <1>1, <1>12, <1>2 DEF RunTyped, Pushed0, Run!NoPull
<1>14. RunTyped'
    <2>1. pull'.is = "none"
        BY <1>1 DEF Run!NoPull
    <2>2. made \in Seq(Part) /\ got \in [Readers -> Seq(Item)]
          /\ has \in BOOLEAN /\ gen \in {"live", "stop", "error"}
        BY <1>2 DEF RunTyped
    <2> QED
        BY <2>1, <2>2, <1>1, <1>5, <1>11 DEF RunTyped
<1>15. MadeInOrder'
    BY <1>1, <1>2 DEF MadeInOrder, Has
<1>16. OnePuller'
    <2>1. gen' # "live"
        BY <1>1, <1>4
    <2> QED
        BY <2>1, <1>1, <1>3, <1>10, PumpOver
<1>17. MuxState'
    <2>1. closed'["child"] # "no"
        BY <1>7 DEF Run!Channels
    <2> QED
        BY <2>1, <1>1, <1>4, <1>5, <1>6 DEF MuxState
<1>18. ASSUME NEW e \in Readers PROVE ContentOf(e)'
    <2>1. SUFFICES ASSUME pc'[e] # "absent" PROVE ContentOf(e)'
        BY DEF ContentOf
    <2>2. pc[e] # "absent"
        BY <2>1, <1>1, <1>11
    <2>3. ContentOf(e)
        BY DEF RunInv
    <2>4. \A s, k, m : ListsTo(s, k, m, N)' <=> ListsTo(s, k, m, N)
        BY <1>1 DEF ListsTo
    <2>5. e \in {"values", "events", "child", "output"}
        BY DEF ReadersAssumption
    <2>6. CASE e \in {"values", "child"}
        <3>1. StreamOf(e)' = StreamOf(e)
            BY <2>6, <1>1, <1>5 DEF StreamOf, Run!Channels
        <3>2. PICK s : s = StreamOf(e)
            OBVIOUS
        <3>3. PICK t : t = StreamOf(e)'
            OBVIOUS
        <3>4. s = t
            BY <3>1, <3>2, <3>3
        <3>5. CASE e = "values"
            <4>1. ListsTo(s, "value", 1, N)
                BY <3>2, <3>5, <2>2, <2>3, <1>13 DEF ContentOf
            <4>2. ListsTo(t, "value", 1, N)'
                BY <4>1, <3>4, <2>4
            <4> QED
                BY <4>2, <3>3, <3>5, <1>13 DEF ContentOf
        <3>6. CASE e = "child" /\ has
            <4>1. PICK m \in 1 .. N + 1 : ListsTo(s, "inner", m, N)
                BY <3>2, <3>6, <2>2, <2>3, <1>13 DEF ContentOf
            <4>2. ListsTo(t, "inner", m, N)'
                BY <4>1, <3>4, <2>4
            <4> QED
                BY <4>2, <3>3, <3>6, <1>1, <1>13 DEF ContentOf
        <3>7. CASE e = "child" /\ ~has
            BY <3>1, <3>7, <2>2, <2>3, <1>1 DEF ContentOf
        <3> QED
            BY <2>6, <3>5, <3>6, <3>7
    <2>7. CASE e = "events"
        <3>1. SUFFICES ASSUME how = "closed" PROVE StreamOf(e)' = Run!WholeLog
            <4>1. Run!WholeLog' = Run!WholeLog
                BY <1>1 DEF Run!WholeLog
            <4> QED
                BY <4>1, <2>7, <1>1, <1>4 DEF ContentOf
        <3>2. StreamOf(e) = [i \in 1 .. N |-> Run!Shown(made[i])]
            BY <2>2, <2>3, <2>7, <1>3, <1>13 DEF ContentOf
        <3>3. Run!WholeLog = StreamOf(e) \o (IF sub = "running" THEN <<Run!Lifecycle("completed")>> ELSE <<>>)
            BY <3>2, <1>13 DEF Run!WholeLog
        <3>4. open <=> sub = "running"
            BY <1>2, <1>3, <1>12, <1>13 DEF MuxState, MadeInOrder
        <3>5. got["events"] \in Seq(Item) /\ items["events"] \in Seq(Item)
            BY <2>7, <1>2 DEF RunTyped, Run!Channels
        <3>6. PICK x \in Item : x = Run!Lifecycle("completed")
            BY DEF Item, Run!Results
        <3>7. \A u, v \in Seq(Item), y \in Item :
                  u \o Append(v, y) = (u \o v) \o <<y>> /\ (u \o v) \o <<>> = u \o v
            OBVIOUS
        <3>8. CASE open
            <4>1. items'["events"] = Append(items["events"], x)
                BY <3>1, <3>6, <3>8, <2>2, <2>7, <1>5, SubscribedFacts
            <4>2. StreamOf(e)' = got["events"] \o Append(items["events"], x)
                BY <4>1, <2>7, <1>1 DEF StreamOf
            <4>3. Run!WholeLog = (got["events"] \o items["events"]) \o <<x>>
                BY <3>3, <3>4, <3>6, <3>8, <2>7 DEF StreamOf
            <4> QED
                BY <4>2, <4>3, <3>5, <3>7, Zenon
        <3>9. CASE ~open
            <4>1. StreamOf(e)' = StreamOf(e)
                BY <3>9, <1>1, <1>5 DEF StreamOf
            <4>2. Run!WholeLog = StreamOf(e) \o <<>>
                BY <3>3, <3>4, <3>9
            <4>3. StreamOf(e) \o <<>> = StreamOf(e)
                BY <3>5, <3>6, <3>7, <2>7 DEF StreamOf
            <4> QED
                BY <4>1, <4>2, <4>3
        <3> QED
            BY <3>8, <3>9
    <2>8. CASE e = "output"
        BY <2>8 DEF ContentOf
    <2> QED
        BY <2>5, <2>6, <2>7, <2>8
<1>19. ASSUME NEW e \in Readers PROVE EndSeen(e)'
    <2>1. CASE e = c
        BY <2>1, <1>1, <1>4, <1>9, <1>11 DEF EndSeen
    <2>2. CASE e # c
        <3>1. EndSeen(e)
            BY DEF RunInv
        <3>2. pc'[e] \in {"ended", "raised"} => pc'[e] = pc[e]
            BY <2>2, <1>11
        <3>3. pc[e] \in {"ended", "raised"} => e = "child" /\ has /\ closed["child"] # "no"
            BY <3>1, <1>3 DEF EndSeen
        <3>4. closed["child"] # "no" => closed'["child"] = closed["child"]
            BY <1>5 DEF Run!Channels
        <3>5. items'["child"] = items["child"]
            BY <1>5 DEF Run!Channels
        <3> QED
            BY <3>1, <3>2, <3>3, <3>4, <3>5, <1>1 DEF EndSeen
    <2> QED
        BY <2>1, <2>2
<1> QED
    BY <1>14, <1>15, <1>16, <1>17, <1>18, <1>19 DEF RunInv

LEMMA EndsStep ==
    ASSUME ReadersAssumption, RunInv, NEW c \in Readers, Run!CloseEnds(c) \/ Run!FailEnds(c)
    PROVE  RunInv'
<1>1. pc[c] \notin {"closing", "failing"}
    BY DEF RunInv, RunTyped
<1>2. CASE Run!CloseEnds(c)
    <2>1. EndsWith(c, "closed")
        BY <1>1, <1>2 DEF Run!CloseEnds, Run!Ends, EndsWith
    <2> QED
        BY <2>1, EndsWithStep
<1>3. CASE Run!FailEnds(c)
    <2>1. EndsWith(c, "failed")
        BY <1>1, <1>3 DEF Run!FailEnds, Run!Ends, EndsWith
    <2> QED
        BY <2>1, EndsWithStep
<1> QED
    BY <1>2, <1>3

-----------------------------------------------------------------------------
(* The theorem.                                                            *)

\* What an abort, a cancellation or the wait for a scheduled task have begun
\* stays: a state without any of them has been without them from the start.
LEMMA NormalBefore ==
    ASSUME Run!Next \/ UNCHANGED Run!vars, Normal'
    PROVE  Normal
<1> USE DEF Normal, Run!NoneWaitedFor, Run!pumpVars
<1>1. CASE UNCHANGED Run!vars
    BY <1>1 DEF Run!vars
<1>2. ASSUME NEW c \in Readers, Run!ReaderStep(c) PROVE Normal
    <2>1. CASE Run!Take(c)
        BY <2>1 DEF Run!Take
    <2>2. CASE Run!SeeClosed(c)
        BY <2>2 DEF Run!SeeClosed
    <2>3. CASE Run!PumpRefused(c)
        BY <2>3 DEF Run!PumpRefused
    <2>4. CASE Run!PumpWaits(c)
        BY <2>4 DEF Run!PumpWaits
    <2>5. CASE Run!PumpPulls(c)
        BY <2>5 DEF Run!PumpPulls
    <2>6. CASE Run!Woken(c)
        BY <2>6 DEF Run!Woken
    <2>7. CASE Run!PushStarts(c)
        BY <2>7 DEF Run!PushStarts
    <2>8. CASE Run!PushEnds(c)
        BY <2>8 DEF Run!PushEnds
    <2>9. CASE Run!PushLate(c)
        BY <2>9 DEF Run!PushLate
    <2>10. CASE Run!PullAborted(c)
        BY <2>10 DEF Run!PullAborted
    <2>11. CASE Run!CloseWaits(c)
        BY <2>11 DEF Run!CloseWaits, Run!Waits
    <2>12. CASE Run!CloseEnds(c)
        BY <2>12 DEF Run!CloseEnds, Run!Ends
    <2>13. CASE Run!CloseRaises(c)
        BY <2>13 DEF Run!CloseRaises
    <2>14. CASE Run!FailWaits(c)
        BY <2>14 DEF Run!FailWaits, Run!Waits
    <2>15. CASE Run!FailEnds(c)
        BY <2>15 DEF Run!FailEnds, Run!Ends
    <2> QED
        BY <1>2, <2>1, <2>2, <2>3, <2>4, <2>5, <2>6, <2>7, <2>8, <2>9, <2>10, <2>11, <2>12, <2>13, <2>14, <2>15 DEF Run!ReaderStep
<1>3. ASSUME NEW c \in Readers, Run!Cancel(c) PROVE Normal
    BY <1>3 DEF Run!Cancel
<1>4. CASE Run!Yield \/ Run!Return \/ Run!AbortStarts \/ Run!AbortEnds \/ Run!TaskEnds
    BY <1>4 DEF Run!Yield, Run!Return, Run!AbortStarts, Run!AbortEnds, Run!TaskEnds
<1>5. CASE Run!Done
    BY <1>5 DEF Run!Done, Run!vars
<1> QED
    BY <1>1, <1>2, <1>3, <1>4, <1>5 DEF Run!Next

LEMMA ReaderKeeps ==
    ASSUME ReadersAssumption, RunInv, Normal, Normal', NEW c \in Readers, Run!ReaderStep(c)
    PROVE  RunInv'
<1>1. CASE Run!Take(c)
    BY <1>1, TakeItemStep
<1>2. CASE Run!SeeClosed(c)
    BY <1>2, SeeClosedStep
<1>3. CASE Run!PumpRefused(c)
    BY <1>3, RefusedStep
<1>4. CASE Run!PumpWaits(c)
    BY <1>4, WaitsStep
<1>5. CASE Run!PumpPulls(c)
    BY <1>5, PullsStep
<1>6. CASE Run!Woken(c)
    BY <1>6, WokenStep
<1>7. CASE Run!PushStarts(c)
    BY <1>7, PushStartsStep
<1>8. CASE Run!PushEnds(c)
    BY <1>8, PushEndsStep
<1>9. CASE Run!CloseEnds(c) \/ Run!FailEnds(c)
    BY <1>9, EndsStep
<1>10. ~Run!PushLate(c)
    <2>1. SUFFICES ASSUME pc[c] = "pushing" PROVE Run!MuxOpen
        BY DEF Run!PushLate
    <2>2. ~exhausted
        BY <2>1 DEF RunInv, OnePuller, Puller
    <2> QED
        BY <2>2 DEF RunInv, MuxState, Run!MuxOpen, Run!Channels
<1>11. ~Run!CloseWaits(c) /\ ~Run!FailWaits(c)
    BY DEF Normal, Run!NoneWaitedFor, Run!CloseWaits, Run!FailWaits, Run!Waits
<1>12. ~Run!CloseRaises(c)
    BY DEF Normal, Run!NoneWaitedFor, Run!CloseRaises
<1>13. ~Run!PullAborted(c)
    BY DEF RunInv, RunTyped, Run!PullAborted
<1> QED
    BY <1>1, <1>2, <1>3, <1>4, <1>5, <1>6, <1>7, <1>8, <1>9, <1>10, <1>11, <1>12, <1>13 DEF Run!ReaderStep

LEMMA RunInvInit ==
    ASSUME Run!Init
    PROVE  RunInv
<1> USE DEF Run!Init
<1>1. made = <<>> /\ Len(made) = 0 /\ DOMAIN made = {} /\ pull.is = "none" /\ Pushed0 = 0
    BY DEF Run!NoPull, Pushed0
<1>2. \A k : ~Has(k, 0)
    BY DEF Has
<1>3. RunTyped
    <2>1. <<>> \in Seq(Part) /\ <<>> \in Seq(Item)
        OBVIOUS
    <2>2. items \in [Run!Channels -> Seq(Item)] /\ got \in [Readers -> Seq(Item)]
        BY <2>1
    <2>3. pc \in [Readers -> {"absent", "cursor", "waiting", "notified", "pulling", "pushing",
                              "ended", "raised"}]
        OBVIOUS
    <2> QED
        BY <2>1, <2>2, <2>3, <1>1 DEF RunTyped
<1>4. MadeInOrder
    BY <1>1, <1>2 DEF MadeInOrder
<1>5. OnePuller
    BY <1>1 DEF OnePuller, Puller
<1>6. MuxState
    BY <1>1, <1>2 DEF MuxState, Run!Channels
<1>7. ASSUME NEW c \in Readers PROVE ContentOf(c) /\ EndSeen(c)
    <2>1. c \in Run!Channels => StreamOf(c) = <<>>
        BY DEF StreamOf
    <2>2. ListsTo(<<>>, "value", 1, 0)
        BY DEF ListsTo, Run!Range
    <2>3. [i \in 1 .. 0 |-> Run!Shown(made[i])] = <<>>
        OBVIOUS
    <2> QED
        BY <2>1, <2>2, <2>3, <1>1 DEF ContentOf, EndSeen, Run!Channels
<1> QED
    BY <1>3, <1>4, <1>5, <1>6, <1>7 DEF RunInv

LEMMA RunInvNext ==
    ASSUME ReadersAssumption, Normal => RunInv, [Run!Next]_Run!vars
    PROVE  Normal' => RunInv'
<1> SUFFICES ASSUME Normal' PROVE RunInv'
    OBVIOUS
<1>1. Normal /\ RunInv
    BY NormalBefore
<1>2. ASSUME NEW c \in Readers, Run!ReaderStep(c) PROVE RunInv'
    BY <1>1, <1>2, ReaderKeeps
<1>3. CASE \E c \in Readers : Run!Cancel(c)
    BY <1>3 DEF Run!Cancel, Normal
<1>4. CASE Run!Yield
    BY <1>1, <1>4, YieldStep
<1>5. CASE Run!Return
    BY <1>1, <1>5, ReturnStep
<1>6. CASE Run!AbortStarts \/ Run!AbortEnds
    BY <1>1, <1>6 DEF Run!AbortStarts, Run!AbortEnds, Normal
<1>8. CASE Run!TaskEnds
    BY <1>1, <1>8, RunStutter DEF Run!TaskEnds
<1>7. CASE Run!Done \/ UNCHANGED Run!vars
    BY <1>1, <1>7, RunStutter DEF Run!Done, Run!vars
<1> QED
    BY <1>2, <1>3, <1>4, <1>5, <1>6, <1>7, <1>8 DEF Run!Next

\* A consumer whose iteration ends normally has received the whole of its
\* stream, each item once and in order, whoever pulled them out of the graph
\* (_apump_next, StreamChannel): for every set of consumers and length of run.
THEOREM StreamsAreComplete ==
    ASSUME ReadersAssumption
    PROVE  Run!Spec => []StreamsComplete
<1>1. Run!Init => (Normal => RunInv)
    BY RunInvInit
<1>2. (Normal => RunInv) /\ [Run!Next]_Run!vars => (Normal => RunInv)'
    BY RunInvNext
<1>3. (Normal => RunInv) => StreamsComplete
    <2>1. CASE Normal
        BY <2>1, RunInvImplies
    <2>2. CASE ~Normal
        BY <2>2 DEF Normal, StreamsComplete, Run!StreamsComplete
    <2> QED
        BY <2>1, <2>2
<1> QED
    BY <1>1, <1>2, <1>3, PTL DEF Run!Spec
=============================================================================
