-------------------------- MODULE PregelLoopProofs --------------------------
(***************************************************************************)
(* Proofs about PregelLoop, for every graph, input, limit and number of    *)
(* runs; at the end, the proof that it implements BulkSynchronous.         *)
(***************************************************************************)
EXTENDS PregelLoop, FiniteSetTheorems, SequenceTheorems, TLAPS

-----------------------------------------------------------------------------
(* Versions.                                                               *)

\* The least of the nonempty finite sets of naturals without a maximum would
\* have a smaller one.
LEMMA MaxExists ==
    ASSUME NEW S \in SUBSET Nat, IsFiniteSet(S), S # {}
    PROVE  \E m \in S : \A x \in S : x <= m
<1> DEFINE Bad == {T \in SUBSET S : T # {} /\ ~(\E m \in T : \A x \in T : x <= m)}
<1> SUFFICES ASSUME Bad # {} PROVE FALSE
    OBVIOUS
<1>1. IsWellFoundedOn(StrictSubsetOrdering(S), FiniteSubsetsOf(S))
    BY FS_StrictSubsetOrderingWellFounded
<1>2. Bad \subseteq FiniteSubsetsOf(S)
    BY FS_Subset DEF FiniteSubsetsOf
<1>3. PICK T \in Bad : \A U \in Bad : ~(<<U, T>> \in StrictSubsetOrdering(S))
    BY <1>1, <1>2, WFMin
<1>4. PICK x \in T : TRUE
    OBVIOUS
<1>5. T \ {x} \notin Bad
    BY <1>3, <1>4 DEF StrictSubsetOrdering
<1>6. CASE T \ {x} = {}
    BY <1>4, <1>6
<1>7. CASE T \ {x} # {}
    <2>1. PICK m \in T \ {x} : \A y \in T \ {x} : y <= m
        BY <1>5, <1>7
    <2>2. \A y \in T : y <= IF x <= m THEN m ELSE x
        BY <1>4, <2>1
    <2> QED
        BY <1>4, <2>1, <2>2
<1> QED
    BY <1>6, <1>7

LEMMA MaxVersionBounds ==
    ASSUME NEW k, k.versions \in [Chans -> Nat]
    PROVE  /\ MaxVersion(k) \in Nat
           /\ \A c \in Chans : k.versions[c] <= MaxVersion(k)
<1> DEFINE S == {k.versions[c] : c \in Chans}
<1>1. k.versions \in Surjection(Chans, S)
    BY DEF Surjection
<1>2. IsFiniteSet(S)
    BY <1>1, GraphAssumption, FS_Surjection
<1>3. TASKS \in Chans
    BY GraphAssumption
<1>4. k.versions[TASKS] \in S /\ S \in SUBSET Nat
    BY <1>3
<1>5. PICK m \in S : \A x \in S : x <= m
    BY <1>2, <1>4, MaxExists
<1>6. \E v \in S : \A c \in Chans : k.versions[c] <= v
    BY <1>5
<1>7. MaxVersion(k) \in S /\ \A c \in Chans : k.versions[c] <= MaxVersion(k)
    BY <1>6 DEF MaxVersion
<1> QED
    BY <1>4, <1>7

-----------------------------------------------------------------------------
(* Channels.                                                               *)

\* What a channel may hold: only values that may be written to it.
State(c) == [got : SUBSET Values(c), fin : BOOLEAN]

\* Channels that only a task reading them empties.
Held == Barriers \cup Deferred

LEMMA Kinds ==
    ASSUME NEW c \in Chans
    PROVE  /\ Kind[c] \in {"ephemeral", "last", "last after finish", "topic",
                           "barrier", "barrier after finish"}
           /\ c \in Barriers <=> Kind[c] \in {"barrier", "barrier after finish"}
           /\ c \in Deferred <=> Kind[c] \in {"last after finish", "barrier after finish"}
           /\ Kind[c] = "topic" <=> c = TASKS
           /\ c \in Barriers => Values(c) = Names[c] /\ Names[c] # {}
           /\ TASKS \notin Barriers /\ TASKS \notin Deferred
BY GraphAssumption DEF Barriers, Deferred, Values

LEMMA EmptyState ==
    ASSUME NEW c \in Chans
    PROVE  Empty \in State(c) /\ ~IsAvailable(c, Empty) /\ ~IsFull(c, Empty)
BY Kinds DEF Empty, State, IsAvailable, IsFull

LEMMA ConsumeState ==
    ASSUME NEW c \in Chans, NEW s \in State(c)
    PROVE  /\ Consume(c, s) \in State(c)
           /\ Consume(c, s) # s => Consume(c, s) = Empty /\ c \in Held /\ IsAvailable(c, s)
           /\ c \in Held => ~IsAvailable(c, Consume(c, s))
BY EmptyState DEF Consume, Held

LEMMA UpdateCases ==
    ASSUME NEW c \in Chans, NEW s \in State(c), NEW vals \in SUBSET Values(c)
    PROVE  /\ Kind[c] \in {"ephemeral", "topic"} =>
                  Update(c, s, vals) = [got |-> vals, fin |-> s.fin]
           /\ c \in Barriers => Update(c, s, vals) = [got |-> s.got \cup vals, fin |-> s.fin]
           /\ Kind[c] = "last" /\ vals # {} =>
                  Update(c, s, vals) = [got |-> vals, fin |-> s.fin]
           /\ Kind[c] = "last after finish" /\ vals # {} =>
                  Update(c, s, vals) = [got |-> vals, fin |-> FALSE]
           /\ Kind[c] \in {"last", "last after finish"} /\ vals = {} => Update(c, s, vals) = s
<1>1. \A v : [s EXCEPT !.got = v] = [got |-> v, fin |-> s.fin]
    BY DEF State
<1>2. CASE Kind[c] \in {"ephemeral", "topic"}
    <2>1. Update(c, s, vals) = [s EXCEPT !.got = vals]
        BY <1>2, Kinds, Zenon DEF Update
    <2> QED
        BY <1>1, <1>2, <2>1, Kinds
<1>3. CASE c \in Barriers
    <2>1. Update(c, s, vals) = [s EXCEPT !.got = s.got \cup vals]
        BY <1>3, Kinds DEF Update
    <2> QED
        BY <1>1, <1>3, <2>1, Kinds
<1>4. CASE Kind[c] = "last"
    <2>1. vals # {} => Update(c, s, vals) = [s EXCEPT !.got = vals]
        BY <1>4, Kinds DEF Update
    <2>2. vals = {} => Update(c, s, vals) = s
        BY <1>4, Kinds DEF Update
    <2> QED
        BY <1>1, <1>4, <2>1, <2>2, Kinds
<1>5. CASE Kind[c] = "last after finish"
    <2>1. vals # {} => Update(c, s, vals) = [got |-> vals, fin |-> FALSE]
        BY <1>5, Kinds DEF Update
    <2>2. vals = {} => Update(c, s, vals) = s
        BY <1>5, Kinds DEF Update
    <2> QED
        BY <1>5, <2>1, <2>2, Kinds
<1> QED
    BY <1>2, <1>3, <1>4, <1>5, Kinds

LEMMA UpdatesCases ==
    ASSUME NEW c \in Chans, NEW s, NEW vals
    PROVE  /\ c \in Barriers => (Updates(c, s, vals) <=> ~(vals \subseteq s.got))
           /\ Kind[c] \in {"ephemeral", "topic"} =>
                  (Updates(c, s, vals) <=> vals # {} \/ s.got # {})
           /\ c \notin Barriers /\ vals # {} => Updates(c, s, vals)
BY Kinds DEF Updates

LEMMA UpdateState ==
    ASSUME NEW c \in Chans, NEW s \in State(c), NEW vals \in SUBSET Values(c)
    PROVE  /\ Update(c, s, vals) \in State(c)
           /\ vals # {} /\ ~Updates(c, s, vals) => Update(c, s, vals) = s
<1>1. CASE c \in Barriers
    <2>1. Update(c, s, vals) = [got |-> s.got \cup vals, fin |-> s.fin]
        BY <1>1, UpdateCases
    <2>2. ~Updates(c, s, vals) => vals \subseteq s.got
        BY <1>1, UpdatesCases
    <2> QED
        BY <2>1, <2>2 DEF State
<1>2. CASE c \notin Barriers
    <2>1. \/ Update(c, s, vals) = s
          \/ Update(c, s, vals) = [got |-> vals, fin |-> s.fin]
          \/ Update(c, s, vals) = [got |-> vals, fin |-> FALSE]
        BY <1>2, Kinds, UpdateCases
    <2>2. vals # {} => Updates(c, s, vals)
        BY <1>2, UpdatesCases
    <2>3. [got |-> vals, fin |-> FALSE] \in State(c)
        BY DEF State
    <2>4. [got |-> vals, fin |-> s.fin] \in State(c)
        BY DEF State
    <2> QED
        BY <2>1, <2>2, <2>3, <2>4
<1> QED
    BY <1>1, <1>2

\* A channel that is notified of a step in which it is not written is left as
\* it is or loses what it held.
LEMMA UpdateIdle ==
    ASSUME NEW c \in Chans, NEW s \in State(c)
    PROVE  /\ c \in Held => Update(c, s, {}) = s
           /\ Update(c, s, {}) # s => ~IsAvailable(c, Update(c, s, {}))
<1>1. CASE c \in Barriers
    <2>1. Update(c, s, {}) = [got |-> s.got \cup {}, fin |-> s.fin]
        BY <1>1, UpdateCases
    <2> QED
        BY <2>1 DEF State
<1>2. CASE Kind[c] \in {"ephemeral", "topic"}
    <2>1. Update(c, s, {}) = [got |-> {}, fin |-> s.fin]
        BY <1>2, UpdateCases
    <2>2. Update(c, s, {}).got = {}
        BY <2>1
    <2>3. ~IsFull(c, Update(c, s, {})) /\ c \notin Held
        BY <1>2, <2>2, Kinds DEF IsFull, Held
    <2> QED
        BY <2>3 DEF IsAvailable
<1>3. CASE Kind[c] \in {"last", "last after finish"}
    BY <1>3, UpdateCases
<1> QED
    BY <1>1, <1>2, <1>3, Kinds

LEMMA FinishState ==
    ASSUME NEW c \in Chans, NEW s \in State(c)
    PROVE  /\ Finish(c, s) \in State(c)
           /\ Finish(c, s) # s => IsAvailable(c, Finish(c, s)) /\ c \in Deferred
           /\ IsFull(c, Finish(c, s)) <=> IsFull(c, s)
           /\ c \in Deferred /\ IsFull(c, s) => IsAvailable(c, Finish(c, s))
           /\ IsAvailable(c, s) => IsAvailable(c, Finish(c, s))
           /\ Finish(c, s).got = s.got
BY Kinds DEF Finish, State, IsAvailable, IsFull

-----------------------------------------------------------------------------
(* The stages of apply_writes.                                             *)

\* The channels after the writes, and those that are available again.
Written(k, ts, w) ==
    [c \in Chans |-> IF w[c] # {} THEN Update(c, Consumed(k, ts)[c], w[c])
                     ELSE Consumed(k, ts)[c]]
Rewritten(k, ts, w) ==
    {c \in Chans : /\ w[c] # {} /\ Updates(c, Consumed(k, ts)[c], w[c])
                   /\ IsAvailable(c, Written(k, ts, w)[c])}

\* The channels after the others were notified of the step.
Notified(k, ts, w) ==
    [c \in Chans |->
        IF ts # {} /\ IsAvailable(c, Written(k, ts, w)[c]) /\ c \notin Rewritten(k, ts, w)
        THEN Update(c, Written(k, ts, w)[c], {}) ELSE Written(k, ts, w)[c]]

\* The channels after all were notified of the end.
Ending(k, ts, w) == LastStep(Rewritten(k, ts, w), ts # {})
Ended(k, ts, w)  ==
    [c \in Chans |-> IF Ending(k, ts, w) THEN Finish(c, Notified(k, ts, w)[c])
                     ELSE Notified(k, ts, w)[c]]

\* What apply_writes returns, and the channels that get a new version.
Announced(k, ts, w) ==
    Rewritten(k, ts, w) \cup
        {c \in Chans : /\ Ended(k, ts, w)[c] # Notified(k, ts, w)[c]
                       /\ IsAvailable(c, Ended(k, ts, w)[c])}
Changed(k, ts, w) ==
    {c \in Chans : \/ Consumed(k, ts)[c] # k.chan[c]
                   \/ w[c] # {} /\ Updates(c, Consumed(k, ts)[c], w[c])
                   \/ Notified(k, ts, w)[c] # Written(k, ts, w)[c]
                   \/ Ended(k, ts, w)[c] # Notified(k, ts, w)[c]}

LEMMA ApplyWritesStages ==
    ASSUME NEW k, NEW ts, NEW w
    PROVE  ApplyWrites(k, ts, w) =
               [k EXCEPT !.chan = Ended(k, ts, w),
                         !.versions = Bumped(k, Changed(k, ts, w)),
                         !.seen = Seen(k, ts),
                         !.updated = Announced(k, ts, w)]
<1>1. [c \in Chans |-> IF c \in {d \in Chans : /\ ts # {}
                                               /\ IsAvailable(d, Written(k, ts, w)[d])
                                               /\ d \notin Rewritten(k, ts, w)}
                       THEN Update(c, Written(k, ts, w)[c], {})
                       ELSE Written(k, ts, w)[c]] = Notified(k, ts, w)
    BY Zenon DEF Notified
<1> QED
    BY <1>1, Zenon DEF ApplyWrites, Written, Rewritten, Ending, Ended, Announced, Changed

\* Checkpoints whose channels hold values of their own, and in which nothing
\* is seen before it is there.
Typed(k) ==
    /\ k \in Checkpoint
    /\ \A c \in Chans : k.chan[c] \in State(c) /\ k.seenInt[c] <= k.versions[c]
    /\ \A n \in Nodes, c \in Chans : k.seen[n][c] <= k.versions[c]

LEMMA TypedParts ==
    ASSUME NEW k, Typed(k)
    PROVE  /\ DOMAIN k.chan = Chans
           /\ k.versions \in [Chans -> Nat] /\ k.seenInt \in [Chans -> Nat]
           /\ k.seen \in [Nodes -> [Chans -> Nat]]
           /\ k.updated \in SUBSET Chans /\ k.step \in Int
           /\ \A c \in Chans : k.chan[c] \in State(c)
           /\ MaxVersion(k) \in Nat
           /\ \A c \in Chans : k.versions[c] <= MaxVersion(k)
BY MaxVersionBounds DEF Typed, Checkpoint

\* A function of the states of channels, in the type of checkpoints.
LEMMA ChanType ==
    ASSUME NEW f, f = [c \in Chans |-> f[c]], \A c \in Chans : f[c] \in State(c)
    PROVE  f \in [Chans -> [got : UNION {SUBSET Values(c) : c \in Chans}, fin : BOOLEAN]]
<1>1. \A c \in Chans : State(c) \subseteq
          [got : UNION {SUBSET Values(d) : d \in Chans}, fin : BOOLEAN]
    BY DEF State
<1> QED
    BY <1>1

\* What apply_writes does to a channel.
LEMMA ChannelStages ==
    ASSUME NEW k, Typed(k), NEW ts, NEW w, NEW c \in Chans, w[c] \in SUBSET Values(c)
    PROVE  /\ Ended(k, ts, w)[c] \in State(c)
           /\ c \notin Changed(k, ts, w) => Ended(k, ts, w)[c] = k.chan[c]
           /\ c \in Changed(k, ts, w) /\ IsAvailable(c, Ended(k, ts, w)[c]) =>
                  c \in Announced(k, ts, w)
           /\ c \in Announced(k, ts, w) =>
                  c \in Changed(k, ts, w) /\ IsAvailable(c, Ended(k, ts, w)[c])
           /\ \A n \in ts \cap Nodes :
                  c \in Triggers[n] /\ c \in Held /\ IsAvailable(c, Ended(k, ts, w)[c]) =>
                      c \in Changed(k, ts, w)
           /\ Ending(k, ts, w) /\ c \in Deferred /\ IsFull(c, Ended(k, ts, w)[c]) =>
                  IsAvailable(c, Ended(k, ts, w)[c])
<1> DEFINE s0 == k.chan[c]
           s1 == Consumed(k, ts)[c]
           s2 == Written(k, ts, w)[c]
           s3 == Notified(k, ts, w)[c]
           s4 == Ended(k, ts, w)[c]
           wrote == w[c] # {} /\ Updates(c, s1, w[c])
<1>1. s0 \in State(c)
    BY DEF Typed
<1>2. s1 = s0 \/ s1 = Consume(c, s0)
    BY DEF Consumed
<1>3. \A n \in ts \cap Nodes : c \in Triggers[n] => s1 = Consume(c, s0)
    BY DEF Consumed
<1>4. s2 = IF w[c] # {} THEN Update(c, s1, w[c]) ELSE s1
    BY DEF Written
<1>5. \/ s3 = s2
      \/ s3 = Update(c, s2, {}) /\ c \notin Rewritten(k, ts, w) /\ IsAvailable(c, s2)
    BY DEF Notified
<1>6. s4 = IF Ending(k, ts, w) THEN Finish(c, s3) ELSE s3
    BY DEF Ended
<1>7. c \in Rewritten(k, ts, w) <=> wrote /\ IsAvailable(c, s2)
    BY DEF Rewritten
<1>8. c \in Announced(k, ts, w) <=> \/ c \in Rewritten(k, ts, w)
                                    \/ s4 # s3 /\ IsAvailable(c, s4)
    BY DEF Announced
<1>9. c \in Changed(k, ts, w) <=> s1 # s0 \/ wrote \/ s3 # s2 \/ s4 # s3
    BY DEF Changed
<1> HIDE DEF s0, s1, s2, s3, s4
<1>10. s1 \in State(c) /\ (s1 # s0 => s1 = Empty)
    BY <1>1, <1>2, ConsumeState
<1>11. s2 \in State(c) /\ (~wrote => s2 = s1)
    BY <1>4, <1>10, UpdateState
<1>12. s3 \in State(c) /\ (s3 # s2 => ~IsAvailable(c, s3) /\ c \notin Held)
    <2>1. Update(c, s2, {}) \in State(c)
        BY <1>11, UpdateState
    <2> QED
        BY <1>5, <1>11, <2>1, UpdateIdle
<1>13. /\ s4 \in State(c)
       /\ s4 # s3 => IsAvailable(c, s4)
       /\ IsAvailable(c, s3) => IsAvailable(c, s4)
       /\ Ending(k, ts, w) /\ c \in Deferred /\ IsFull(c, s4) => IsAvailable(c, s4)
    BY <1>6, <1>12, FinishState
<1>14. c \notin Changed(k, ts, w) => s4 = s0
    BY <1>9, <1>11
<1>15. ASSUME c \in Changed(k, ts, w), IsAvailable(c, s4)
       PROVE  c \in Announced(k, ts, w)
    <2>1. CASE s4 # s3
        BY <1>8, <1>15, <2>1
    <2>2. CASE s4 = s3
        <3>1. s3 = s2
            BY <1>12, <1>15, <2>2
        <3>2. wrote
            <4> SUFFICES ASSUME ~wrote PROVE FALSE
                OBVIOUS
            <4>1. s2 = s1 /\ s1 # s0
                BY <1>9, <1>11, <1>15, <2>2, <3>1
            <4> QED
                BY <1>10, <1>15, <2>2, <3>1, <4>1, EmptyState
        <3> QED
            BY <1>7, <1>8, <1>15, <2>2, <3>1, <3>2
    <2> QED
        BY <2>1, <2>2
<1>16. ASSUME c \in Announced(k, ts, w)
       PROVE  c \in Changed(k, ts, w) /\ IsAvailable(c, s4)
    <2>1. CASE c \in Rewritten(k, ts, w)
        BY <1>5, <1>7, <1>9, <1>13, <2>1
    <2>2. CASE c \notin Rewritten(k, ts, w)
        BY <1>8, <1>9, <1>16, <2>2
    <2> QED
        BY <2>1, <2>2
<1>17. ASSUME NEW n \in ts \cap Nodes, c \in Triggers[n], c \in Held, IsAvailable(c, s4),
              c \notin Changed(k, ts, w)
       PROVE  FALSE
    <2>1. s1 = Consume(c, s0) /\ s1 = s0 /\ s4 = s0
        BY <1>3, <1>9, <1>14, <1>17
    <2>2. ~IsAvailable(c, Consume(c, s0))
        BY <1>1, <1>17, ConsumeState
    <2>3. s4 = Consume(c, s0)
        BY <2>1
    <2> QED
        BY <1>17, <2>2, <2>3
<1> QED
    BY <1>13, <1>14, <1>15, <1>16, <1>17 DEF s0, s4

\* What may be written: a function w of the channels.
LEMMA WritesType ==
    /\ \A o, c : c \in Chans => Writes(o)[c] \in SUBSET Values(c)
    /\ \A cs, c : c \in Chans => WritesTo(cs)[c] \in SUBSET Values(c)
BY DEF Writes, WritesTo

\* The checkpoint that apply_writes makes.
LEMMA ApplyWritesParts ==
    ASSUME NEW k, Typed(k), NEW ts, NEW w, \A c \in Chans : w[c] \in SUBSET Values(c),
           NEW k2, k2 = ApplyWrites(k, ts, w)
    PROVE  /\ Typed(k2)
           /\ k2.chan = Ended(k, ts, w) /\ k2.updated = Announced(k, ts, w)
           /\ k2.seen = Seen(k, ts) /\ k2.seenInt = k.seenInt /\ k2.step = k.step
           /\ \A c \in Chans : k2.versions[c] = IF c \in Changed(k, ts, w)
                                                THEN MaxVersion(k) + 1 ELSE k.versions[c]
           /\ \A n \in Nodes, c \in Chans :
                  /\ k2.seen[n][c] = IF n \in ts /\ c \in Triggers[n]
                                     THEN k.versions[c] ELSE k.seen[n][c]
                  /\ k2.seen[n][c] <= MaxVersion(k)
<1>1. k2 = [k EXCEPT !.chan = Ended(k, ts, w),
                     !.versions = Bumped(k, Changed(k, ts, w)),
                     !.seen = Seen(k, ts),
                     !.updated = Announced(k, ts, w)]
    BY ApplyWritesStages
<1>2. /\ k2.chan = Ended(k, ts, w) /\ k2.updated = Announced(k, ts, w)
      /\ k2.versions = Bumped(k, Changed(k, ts, w))
      /\ k2.seen = Seen(k, ts) /\ k2.seenInt = k.seenInt /\ k2.step = k.step
      /\ k2 = [chan |-> k2.chan, versions |-> k2.versions, seen |-> k2.seen,
               seenInt |-> k2.seenInt, updated |-> k2.updated, step |-> k2.step]
    BY <1>1 DEF Typed, Checkpoint
<1>3. \A c \in Chans : Ended(k, ts, w)[c] \in State(c)
    BY ChannelStages
<1>4. k2.chan \in [Chans -> [got : UNION {SUBSET Values(c) : c \in Chans}, fin : BOOLEAN]]
    <2>1. Ended(k, ts, w) = [c \in Chans |-> Ended(k, ts, w)[c]]
        BY DEF Ended
    <2> QED
        BY <1>2, <1>3, <2>1, ChanType
<1>5. k2.updated \subseteq Chans
    BY <1>2 DEF Announced, Rewritten
<1>6. /\ k2.versions \in [Chans -> Nat]
      /\ \A c \in Chans : k2.versions[c] = IF c \in Changed(k, ts, w)
                                           THEN MaxVersion(k) + 1 ELSE k.versions[c]
      /\ \A c \in Chans : k.versions[c] <= k2.versions[c]
    BY <1>2, TypedParts DEF Bumped
<1>7. /\ k2.seen \in [Nodes -> [Chans -> Nat]]
      /\ \A n \in Nodes, c \in Chans :
             k2.seen[n][c] = IF n \in ts /\ c \in Triggers[n]
                             THEN k.versions[c] ELSE k.seen[n][c]
    BY <1>2, TypedParts DEF Seen
<1>8. \A n \in Nodes, c \in Chans : k2.seen[n][c] <= k.versions[c]
    BY <1>7, TypedParts DEF Typed
<1>9. k2 \in Checkpoint
    BY <1>2, <1>4, <1>5, <1>6, <1>7, TypedParts DEF Checkpoint
<1>10. \A n \in Nodes, c \in Chans : /\ k2.seen[n][c] <= k2.versions[c]
                                     /\ k2.seen[n][c] <= MaxVersion(k)
    BY <1>6, <1>7, <1>8, TypedParts
<1>11. \A c \in Chans : k2.seenInt[c] <= k2.versions[c]
    BY <1>2, <1>6, TypedParts DEF Typed
<1> QED
    BY <1>2, <1>3, <1>6, <1>7, <1>9, <1>10, <1>11 DEF Typed

\* Without tasks, apply_writes only writes.
LEMMA NoTasks ==
    ASSUME NEW k, Typed(k), NEW w, NEW c \in Chans
    PROVE  /\ Ended(k, {}, w)[c] = IF w[c] # {} THEN Update(c, k.chan[c], w[c]) ELSE k.chan[c]
           /\ c \in Changed(k, {}, w) <=> w[c] # {} /\ Updates(c, k.chan[c], w[c])
<1>1. Consumed(k, {})[c] = k.chan[c]
    BY DEF Consumed
<1>2. Written(k, {}, w)[c] = IF w[c] # {} THEN Update(c, k.chan[c], w[c]) ELSE k.chan[c]
    BY <1>1 DEF Written
<1>3. Notified(k, {}, w)[c] = Written(k, {}, w)[c]
    BY DEF Notified
<1>4. ~Ending(k, {}, w)
    BY DEF Ending, LastStep
<1>5. Ended(k, {}, w)[c] = Notified(k, {}, w)[c]
    BY <1>4 DEF Ended
<1> QED
    BY <1>1, <1>2, <1>3, <1>5 DEF Changed

-----------------------------------------------------------------------------
(* What a checkpoint owes.                                                 *)

\* A barrier that is complete, or a deferred channel that is finished, still
\* triggers every node it triggers: reading it empties it.
Fresh(k) ==
    \A n \in Nodes, c \in Chans :
        c \in Triggers[n] /\ c \in Held /\ IsAvailable(c, k.chan[c]) => Triggered(k, c, n)

\* The channels noted as updated, if any are, are all that trigger a node.
Noted(k) ==
    k.updated # {} =>
        \A n \in Nodes, c \in Chans : c \in Triggers[n] /\ Triggered(k, c, n) => c \in k.updated

\* A deferred channel that is written to waits for something.
Waits(k) == DiscardTasks(k) = {} => \A c \in Deferred : ~IsFull(c, k.chan[c])

Sound(k) == Typed(k) /\ Fresh(k) /\ Noted(k)

\* Two checkpoints that differ in the step or in what an interrupt has seen.
Alike(k, k2) == /\ k2.chan = k.chan /\ k2.versions = k.versions
                /\ k2.seen = k.seen /\ k2.updated = k.updated

LEMMA AlikeFacts ==
    ASSUME NEW k, NEW k2, Alike(k, k2)
    PROVE  /\ Fresh(k2) = Fresh(k) /\ Noted(k2) = Noted(k) /\ Waits(k2) = Waits(k)
           /\ DiscardTasks(k2) = DiscardTasks(k) /\ NextTasks(k2) = NextTasks(k)
<1>1. \A c, n : Triggered(k2, c, n) = Triggered(k, c, n)
    BY DEF Alike, Triggered
<1>2. \A n : IsTriggered(k2, n) = IsTriggered(k, n)
    BY <1>1 DEF IsTriggered
<1>3. Candidates(k2) = Candidates(k)
    BY DEF Alike, Candidates
<1>4. DiscardTasks(k2) = DiscardTasks(k)
    BY <1>2 DEF DiscardTasks, Alike
<1>5. NextTasks(k2) = NextTasks(k)
    BY <1>2, <1>3 DEF NextTasks, Alike
<1> QED
    BY <1>1, <1>4, <1>5 DEF Alike, Fresh, Noted, Waits

\* The set of candidates leaves out no node that is triggered.
LEMMA NoneLeftOut ==
    ASSUME NEW k, Noted(k)
    PROVE  NextTasks(k) = DiscardTasks(k)
<1>1. \A n \in Nodes : IsTriggered(k, n) => n \in Candidates(k)
    <2> SUFFICES ASSUME NEW n \in Nodes, IsTriggered(k, n), k.updated # {}
                 PROVE  Triggers[n] \cap k.updated # {}
        BY DEF Candidates
    <2>1. PICK c \in Triggers[n] : Triggered(k, c, n)
        BY DEF IsTriggered
    <2>2. c \in Chans
        BY GraphAssumption
    <2> QED
        BY <2>1, <2>2 DEF Noted
<1> QED
    BY <1>1 DEF NextTasks, DiscardTasks, Candidates

LEMMA EmptySound == Sound(EmptyCheckpoint) /\ DiscardTasks(EmptyCheckpoint) = {}
                    /\ Waits(EmptyCheckpoint)
<1>1. \A c \in Chans : /\ EmptyCheckpoint.chan[c] = Empty
                       /\ EmptyCheckpoint.versions[c] = 0
                       /\ EmptyCheckpoint.seenInt[c] = 0
    BY DEF EmptyCheckpoint
<1>2. \A n \in Nodes, c \in Chans : EmptyCheckpoint.seen[n][c] = 0
    BY DEF EmptyCheckpoint
<1>3. \A c \in Chans : Empty \in State(c) /\ ~IsAvailable(c, Empty) /\ ~IsFull(c, Empty)
    BY EmptyState
<1>4. EmptyCheckpoint \in Checkpoint
    <2>1. EmptyCheckpoint.chan = [c \in Chans |-> Empty]
        BY DEF EmptyCheckpoint
    <2>2. EmptyCheckpoint.chan
              \in [Chans -> [got : UNION {SUBSET Values(c) : c \in Chans}, fin : BOOLEAN]]
        BY <2>1, <1>3, ChanType
    <2> QED
        BY <2>2 DEF EmptyCheckpoint, Checkpoint
<1>5. Typed(EmptyCheckpoint)
    BY <1>1, <1>2, <1>3, <1>4 DEF Typed
<1>6. \A c \in Chans, n \in Nodes : ~Triggered(EmptyCheckpoint, c, n)
    BY <1>1, <1>3 DEF Triggered
<1>7. Fresh(EmptyCheckpoint)
    BY <1>1, <1>3 DEF Fresh
<1>8. Noted(EmptyCheckpoint)
    BY DEF Noted, EmptyCheckpoint
<1>9. DiscardTasks(EmptyCheckpoint) = {}
    <2>1. EmptyCheckpoint.chan[TASKS].got = {}
        <3>1. TASKS \in Chans
            BY GraphAssumption
        <3>2. Empty.got = {}
            BY DEF Empty
        <3> QED
            BY <1>1, <3>1, <3>2
    <2>2. \A n \in Nodes : ~IsTriggered(EmptyCheckpoint, n)
        BY <1>6, GraphAssumption DEF IsTriggered
    <2> QED
        BY <2>1, <2>2 DEF DiscardTasks
<1>10. Waits(EmptyCheckpoint)
    BY <1>1, <1>3 DEF Waits, Deferred
<1> QED
    BY <1>5, <1>7, <1>8, <1>9, <1>10 DEF Sound

-----------------------------------------------------------------------------
(* What apply_writes announces is what triggers nodes.                     *)

\* A channel that gets a version is newer than what any node has seen of it.
LEMMA ChangedIsNew ==
    ASSUME NEW k, Typed(k), NEW ts, NEW w, \A c \in Chans : w[c] \in SUBSET Values(c),
           NEW k2, k2 = ApplyWrites(k, ts, w),
           NEW c \in Changed(k, ts, w), IsAvailable(c, k2.chan[c])
    PROVE  \A n \in Nodes : Triggered(k2, c, n)
<1>1. c \in Chans
    BY DEF Changed
<1>2. k2.versions[c] = MaxVersion(k) + 1 /\ \A n \in Nodes : k2.seen[n][c] <= MaxVersion(k)
    BY <1>1, ApplyWritesParts
<1>3. MaxVersion(k) \in Nat /\ \A n \in Nodes : k2.seen[n][c] \in Nat
    <2>1. Typed(k2)
        BY ApplyWritesParts
    <2> QED
        BY <1>1, <2>1, TypedParts
<1> QED
    BY <1>2, <1>3 DEF Triggered

LEMMA AnnouncedTriggers ==
    ASSUME NEW k, Typed(k), NEW ts, NEW w, \A c \in Chans : w[c] \in SUBSET Values(c),
           NEW k2, k2 = ApplyWrites(k, ts, w),
           NEW c \in Announced(k, ts, w)
    PROVE  c \in Chans /\ \A n \in Nodes : Triggered(k2, c, n)
<1>1. c \in Chans
    BY DEF Announced, Rewritten
<1>2. c \in Changed(k, ts, w) /\ IsAvailable(c, Ended(k, ts, w)[c])
    BY <1>1, ChannelStages
<1>3. k2.chan = Ended(k, ts, w)
    BY ApplyWritesParts
<1> QED
    BY <1>1, <1>2, <1>3, ChangedIsNew

LEMMA FreshAfter ==
    ASSUME NEW k, Typed(k), Fresh(k), NEW ts, NEW w,
           \A c \in Chans : w[c] \in SUBSET Values(c),
           NEW k2, k2 = ApplyWrites(k, ts, w)
    PROVE  Fresh(k2)
<1> SUFFICES ASSUME NEW n \in Nodes, NEW c \in Chans, c \in Triggers[n], c \in Held,
                    IsAvailable(c, k2.chan[c])
             PROVE  Triggered(k2, c, n)
    BY DEF Fresh
<1>1. k2.chan = Ended(k, ts, w)
    BY ApplyWritesParts
<1>2. CASE c \in Changed(k, ts, w)
    BY <1>2, ChangedIsNew
<1>3. CASE c \notin Changed(k, ts, w)
    <2>1. k2.chan[c] = k.chan[c] /\ k2.versions[c] = k.versions[c]
        BY <1>1, <1>3, ChannelStages, ApplyWritesParts
    <2>2. n \notin ts
        BY <1>1, <1>3, ChannelStages
    <2>3. k2.seen[n][c] = k.seen[n][c]
        BY <2>2, ApplyWritesParts
    <2>4. Triggered(k, c, n)
        BY <2>1 DEF Fresh
    <2> QED
        BY <2>1, <2>3, <2>4 DEF Triggered
<1> QED
    BY <1>2, <1>3

\* After the tasks that were triggered, only what is announced triggers.
LEMMA TriggersAnnounced ==
    ASSUME NEW k, Typed(k), NEW ts, NEW w, \A c \in Chans : w[c] \in SUBSET Values(c),
           \A n \in Nodes : IsTriggered(k, n) => n \in ts,
           NEW k2, k2 = ApplyWrites(k, ts, w),
           NEW n \in Nodes, NEW c \in Triggers[n], Triggered(k2, c, n)
    PROVE  c \in Announced(k, ts, w) /\ c \in Changed(k, ts, w)
<1>1. c \in Chans
    BY GraphAssumption
<1>2. k2.chan = Ended(k, ts, w) /\ IsAvailable(c, k2.chan[c]) /\ k2.versions[c] > k2.seen[n][c]
    BY ApplyWritesParts DEF Triggered
<1>3. CASE c \in Changed(k, ts, w)
    BY <1>1, <1>2, <1>3, ChannelStages
<1>4. CASE c \notin Changed(k, ts, w)
    <2>1. k2.chan[c] = k.chan[c] /\ k2.versions[c] = k.versions[c]
        BY <1>1, <1>2, <1>4, ChannelStages, ApplyWritesParts
    <2>2. k2.seen[n][c] = IF n \in ts THEN k.versions[c] ELSE k.seen[n][c]
        BY <1>1, ApplyWritesParts
    <2>3. n \notin ts
        <3>1. k.versions[c] \in Nat
            BY <1>1, TypedParts
        <3> QED
            BY <1>2, <2>1, <2>2, <3>1
    <2>4. Triggered(k, c, n)
        BY <1>2, <2>1, <2>2, <2>3 DEF Triggered
    <2> QED
        BY <2>3, <2>4 DEF IsTriggered
<1> QED
    BY <1>3, <1>4

\* A superstep with tasks empties the topic of the Sends it does not write.
LEMMA SendsAnnounced ==
    ASSUME NEW k, Typed(k), NEW ts, NEW w, \A c \in Chans : w[c] \in SUBSET Values(c),
           k.chan[TASKS].got # {} => ts # {},
           NEW k2, k2 = ApplyWrites(k, ts, w), k2.chan[TASKS].got # {}
    PROVE  TASKS \in Announced(k, ts, w) /\ TASKS \in Changed(k, ts, w)
<1> DEFINE c == TASKS
<1>1. c \in Chans /\ c \notin Held /\ Kind[c] = "topic"
    BY GraphAssumption, Kinds DEF Held
<1>2. k2.chan[c] = Ended(k, ts, w)[c]
    BY ApplyWritesParts
<1>3. \A s : IsAvailable(c, s) <=> s.got # {}
    BY <1>1 DEF IsAvailable, IsFull, Held
<1>4. c \in Changed(k, ts, w)
    <2> SUFFICES ASSUME c \notin Changed(k, ts, w) PROVE FALSE
        OBVIOUS
    <2>1. Ended(k, ts, w)[c] = k.chan[c]
        BY <1>1, ChannelStages
    <2>2. /\ Consumed(k, ts)[c] = k.chan[c]
          /\ ~(w[c] # {} /\ Updates(c, Consumed(k, ts)[c], w[c]))
          /\ Notified(k, ts, w)[c] = Written(k, ts, w)[c]
          /\ Ended(k, ts, w)[c] = Notified(k, ts, w)[c]
        BY <1>1 DEF Changed
    <2>3. c \notin Rewritten(k, ts, w)
        BY <2>2 DEF Rewritten
    <2>4. IsAvailable(c, Written(k, ts, w)[c]) /\ ts # {}
        BY <1>2, <1>3, <2>1, <2>2
    <2>5. Notified(k, ts, w)[c] = Update(c, Written(k, ts, w)[c], {})
        BY <1>1, <2>3, <2>4 DEF Notified
    <2>6. Written(k, ts, w)[c] \in State(c)
        BY <2>1, <2>2, TypedParts, <1>1
    <2>7. Update(c, Written(k, ts, w)[c], {}).got = {}
        <3>1. {} \in SUBSET Values(c)
            OBVIOUS
        <3>2. Update(c, Written(k, ts, w)[c], {}) =
                  [got |-> {}, fin |-> Written(k, ts, w)[c].fin]
            BY <1>1, <2>6, <3>1, UpdateCases
        <3> QED
            BY <3>2
    <2> QED
        BY <1>2, <2>2, <2>5, <2>7
<1>5. IsAvailable(c, Ended(k, ts, w)[c])
    BY <1>2, <1>3
<1> QED
    BY <1>1, <1>4, <1>5, ChannelStages

\* A checkpoint made from one whose tasks have all run owes only what is new.
LEMMA OwedIsNew ==
    ASSUME NEW k, Typed(k), NEW ts, NEW w, \A c \in Chans : w[c] \in SUBSET Values(c),
           DiscardTasks(k) \subseteq ts,
           NEW k2, k2 = ApplyWrites(k, ts, w)
    PROVE  /\ Noted(k2)
           /\ DiscardTasks(k2) # {} => \E c \in Chans : k2.versions[c] > k2.seenInt[c]
<1>1. \A n \in Nodes : IsTriggered(k, n) => n \in ts
    BY DEF DiscardTasks
<1>2. k2.updated = Announced(k, ts, w)
    BY ApplyWritesParts
<1>3. Noted(k2)
    BY <1>1, <1>2, TriggersAnnounced DEF Noted
<1>4. ASSUME NEW c \in Changed(k, ts, w)
      PROVE  k2.versions[c] > k2.seenInt[c] /\ c \in Chans
    <2>1. c \in Chans
        BY DEF Changed
    <2>2. k2.versions[c] = MaxVersion(k) + 1 /\ k2.seenInt[c] = k.seenInt[c]
        BY <2>1, ApplyWritesParts
    <2>3. /\ k.seenInt[c] <= k.versions[c] /\ k.versions[c] <= MaxVersion(k)
          /\ MaxVersion(k) \in Nat /\ k.seenInt[c] \in Nat /\ k.versions[c] \in Nat
        BY <2>1, TypedParts DEF Typed
    <2> QED
        BY <2>1, <2>2, <2>3
<1>5. CASE k2.chan[TASKS].got # {}
    <2>1. k.chan[TASKS].got # {} => ts # {}
        BY DEF DiscardTasks
    <2> QED
        BY <1>3, <1>4, <1>5, <2>1, SendsAnnounced
<1>6. ASSUME NEW n \in Nodes, IsTriggered(k2, n)
      PROVE  \E c \in Chans : k2.versions[c] > k2.seenInt[c]
    <2>1. PICK c \in Triggers[n] : Triggered(k2, c, n)
        BY <1>6 DEF IsTriggered
    <2> QED
        BY <1>1, <1>4, <2>1, TriggersAnnounced
<1> QED
    BY <1>3, <1>5, <1>6 DEF DiscardTasks

\* A deferred channel that is still written to waits for a node that is
\* triggered: when nothing else is, the end is announced.
LEMMA WaitsAfter ==
    ASSUME NEW k, Typed(k), Fresh(k), NEW ts, NEW w,
           \A c \in Chans : w[c] \in SUBSET Values(c),
           ts # {}, Deferred \subseteq TriggerChans,
           NEW k2, k2 = ApplyWrites(k, ts, w)
    PROVE  Waits(k2)
<1> SUFFICES ASSUME NEW c \in Deferred, IsFull(c, k2.chan[c])
             PROVE  DiscardTasks(k2) # {}
    BY DEF Waits
<1>1. c \in Chans /\ c \in TriggerChans /\ c \in Held
    BY DEF Deferred, Held
<1>2. k2.chan = Ended(k, ts, w) /\ Fresh(k2)
    BY ApplyWritesParts, FreshAfter
<1>3. CASE Ending(k, ts, w)
    <2>1. IsAvailable(c, k2.chan[c])
        BY <1>1, <1>2, <1>3, ChannelStages
    <2>2. PICK n \in Nodes : c \in Triggers[n]
        BY <1>1 DEF TriggerChans
    <2>3. Triggered(k2, c, n)
        BY <1>1, <1>2, <2>1, <2>2 DEF Fresh
    <2> QED
        BY <2>2, <2>3 DEF DiscardTasks, IsTriggered
<1>4. CASE ~Ending(k, ts, w)
    <2>1. PICK d \in Rewritten(k, ts, w) : d \in TriggerChans
        BY <1>4 DEF Ending, LastStep
    <2>2. PICK n \in Nodes : d \in Triggers[n]
        BY <2>1 DEF TriggerChans
    <2>3. d \in Announced(k, ts, w)
        BY <2>1 DEF Announced
    <2>4. Triggered(k2, d, n)
        BY <2>3, AnnouncedTriggers
    <2> QED
        BY <2>2, <2>4 DEF DiscardTasks, IsTriggered
<1> QED
    BY <1>3, <1>4

-----------------------------------------------------------------------------
(* Commands: the writes of the null task.                                  *)

LEMMA NullsParts ==
    ASSUME NEW k, Typed(k), NEW cs \in SUBSET (Chans \ Barriers),
           NEW k2, k2 = ApplyNulls(k, cs)
    PROVE  /\ Typed(k2)
           /\ k2.step = k.step /\ k2.seenInt = k.seenInt
           /\ cs = {} => k2 = k
           /\ Fresh(k) => Fresh(k2)
           /\ Noted(k) => Noted(k2)
<1> DEFINE w == WritesTo(cs)
           k1 == ApplyWrites(k, {}, w)
<1>1. CASE cs = {}
    BY <1>1 DEF ApplyNulls
<1>2. CASE cs # {}
    <2>1. \A c \in Chans : w[c] \in SUBSET Values(c)
        BY WritesType
    <2>2. Typed(k1)
        BY <2>1, ApplyWritesParts
    <2>3. k2 = [k1 EXCEPT !.updated = IF k.updated = {} THEN {} ELSE k.updated \cup k1.updated]
        BY <1>2, Zenon DEF ApplyNulls
    <2>4. /\ k1 \in Checkpoint /\ k1.updated = Announced(k, {}, w)
          /\ k1.step = k.step /\ k1.seenInt = k.seenInt
        BY <2>1, <2>2, ApplyWritesParts DEF Typed
    <2> HIDE DEF k1
    <2>5. /\ k2.chan = k1.chan /\ k2.versions = k1.versions /\ k2.seen = k1.seen
          /\ k2.step = k1.step /\ k2.seenInt = k1.seenInt
          /\ k2.updated = IF k.updated = {} THEN {} ELSE k.updated \cup k1.updated
        BY <2>3, <2>4 DEF Checkpoint
    <2>6. Typed(k2)
        <3>1. k2.updated \subseteq Chans
            BY <2>4, <2>5, TypedParts DEF Checkpoint
        <3>2. k2 \in Checkpoint
            BY <2>3, <2>4, <2>5, <3>1 DEF Checkpoint
        <3> QED
            BY <2>2, <2>5, <3>2 DEF Typed
    <2>7. ASSUME Fresh(k) PROVE Fresh(k2)
        <3>1. Fresh(k1)
            BY <2>1, <2>7, FreshAfter DEF k1
        <3>2. \A c, n : Triggered(k2, c, n) = Triggered(k1, c, n)
            BY <2>5 DEF Triggered
        <3> QED
            BY <2>5, <3>1, <3>2 DEF Fresh
    <2>8. ASSUME Noted(k), k2.updated # {}, NEW n \in Nodes, NEW c \in Chans,
                 c \in Triggers[n], Triggered(k2, c, n)
          PROVE  c \in k2.updated
        <3>1. k.updated # {} /\ k2.updated = k.updated \cup Announced(k, {}, w)
            BY <2>4, <2>5, <2>8
        <3>2. IsAvailable(c, k1.chan[c]) /\ k1.versions[c] > k1.seen[n][c]
            BY <2>5, <2>8 DEF Triggered
        <3>3. k1.chan[c] = Ended(k, {}, w)[c] /\ k1.seen[n][c] = k.seen[n][c]
            BY <2>1, ApplyWritesParts DEF k1
        <3>4. CASE c \in Changed(k, {}, w)
            BY <2>1, <3>1, <3>2, <3>3, <3>4, ChannelStages
        <3>5. CASE c \notin Changed(k, {}, w)
            <4>1. k1.chan[c] = k.chan[c] /\ k1.versions[c] = k.versions[c]
                BY <2>1, <3>3, <3>5, ChannelStages, ApplyWritesParts DEF k1
            <4>2. Triggered(k, c, n)
                BY <3>2, <3>3, <4>1 DEF Triggered
            <4> QED
                BY <2>8, <3>1, <4>2 DEF Noted
        <3> QED
            BY <3>4, <3>5
    <2> QED
        BY <1>2, <2>4, <2>5, <2>6, <2>7, <2>8 DEF Noted
<1> QED
    BY <1>1, <1>2

\* A Command that goes to no deferred node takes nothing from what is owed.
LEMMA NullsKeep ==
    ASSUME NEW k, Typed(k), NEW cs \in SUBSET (Chans \ Barriers), cs \cap Deferred = {},
           NEW k2, k2 = ApplyNulls(k, cs)
    PROVE  /\ DiscardTasks(k) \subseteq DiscardTasks(k2)
           /\ Waits(k) => Waits(k2)
<1> DEFINE w == WritesTo(cs)
           k1 == ApplyWrites(k, {}, w)
<1>1. CASE cs = {}
    BY <1>1 DEF ApplyNulls
<1>2. CASE cs # {}
    <2>1. \A c \in Chans : w[c] \in SUBSET Values(c)
        BY WritesType
    <2>2. Typed(k1)
        BY <2>1, ApplyWritesParts
    <2>3. k2 = [k1 EXCEPT !.updated = IF k.updated = {} THEN {} ELSE k.updated \cup k1.updated]
        BY <1>2, Zenon DEF ApplyNulls
    <2>4. k1 \in Checkpoint
        BY <2>2 DEF Typed
    <2>5. /\ \A c \in Chans : k1.chan[c] = Ended(k, {}, w)[c]
          /\ \A n \in Nodes, c \in Chans : k1.seen[n][c] = k.seen[n][c]
          /\ \A c \in Chans : k1.versions[c] = IF c \in Changed(k, {}, w)
                                               THEN MaxVersion(k) + 1 ELSE k.versions[c]
        BY <2>1, ApplyWritesParts
    <2>6. \A c \in Chans :
              /\ Ended(k, {}, w)[c] = IF w[c] # {} THEN Update(c, k.chan[c], w[c])
                                      ELSE k.chan[c]
              /\ c \in Changed(k, {}, w) <=> w[c] # {} /\ Updates(c, k.chan[c], w[c])
        BY NoTasks
    <2>7. \A c \in Chans : w[c] = IF c \in cs THEN Values(c) ELSE {}
        BY DEF WritesTo
    <2> HIDE DEF k1
    <2>8. k2.chan = k1.chan /\ k2.versions = k1.versions /\ k2.seen = k1.seen
        BY <2>3, <2>4 DEF Checkpoint
    <2> HIDE DEF w
    <2>9. ASSUME NEW n \in Nodes, IsTriggered(k, n)
          PROVE  IsTriggered(k2, n)
        <3>1. PICK c \in Triggers[n] : Triggered(k, c, n)
            BY <2>9 DEF IsTriggered
        <3>2. c \in Chans /\ k.chan[c] \in State(c) /\ k.versions[c] > k.seen[n][c]
            BY <3>1, TypedParts, GraphAssumption DEF Triggered
        <3>3. CASE w[c] = {}
            BY <2>5, <2>6, <2>8, <3>1, <3>2, <3>3 DEF Triggered, IsTriggered
        <3>4. CASE w[c] # {}
            <4>1. c \in cs /\ c \notin Barriers /\ c \notin Deferred
                BY <2>7, <3>2, <3>4
            <4>2. c \in Changed(k, {}, w) /\ k1.chan[c] = Update(c, k.chan[c], w[c])
                <5>1. Updates(c, k.chan[c], w[c])
                    BY <3>2, <3>4, <4>1, UpdatesCases
                <5>2. c \in Changed(k, {}, w)
                    BY <2>6, <3>2, <3>4, <5>1
                <5>3. Ended(k, {}, w)[c] = Update(c, k.chan[c], w[c])
                    BY <2>6, <3>2, <3>4
                <5> QED
                    BY <2>5, <3>2, <5>2, <5>3
            <4>3. k1.chan[c].got = w[c]
                <5>1. w[c] \in SUBSET Values(c)
                    BY <2>7, <3>2
                <5>2. Update(c, k.chan[c], w[c]) = [got |-> w[c], fin |-> k.chan[c].fin]
                    <6>1. Kind[c] \in {"ephemeral", "topic", "last"}
                        BY <3>2, <4>1, Kinds
                    <6> QED
                        BY <3>2, <3>4, <5>1, <6>1, UpdateCases
                <5> QED
                    BY <4>2, <5>2
            <4>4. IsAvailable(c, k1.chan[c])
                BY <3>4, <4>1, <4>3 DEF IsAvailable, IsFull
            <4>5. Triggered(k1, c, n)
                BY <2>1, <3>2, <4>2, <4>4, ChangedIsNew DEF k1
            <4> QED
                BY <2>8, <4>5 DEF Triggered, IsTriggered
        <3> QED
            BY <3>3, <3>4
    <2>10. k.chan[TASKS].got \subseteq k2.chan[TASKS].got
        <3>1. TASKS \in Chans /\ Kind[TASKS] = "topic"
            BY GraphAssumption
        <3>2. k.chan[TASKS] \in State(TASKS)
            BY <3>1, TypedParts
        <3>3. CASE w[TASKS] = {}
            BY <2>5, <2>6, <2>8, <3>1, <3>3
        <3>4. CASE w[TASKS] # {}
            <4>1. w[TASKS] = Values(TASKS) /\ w[TASKS] \in SUBSET Values(TASKS)
                BY <2>7, <3>1, <3>4
            <4>2. Update(TASKS, k.chan[TASKS], w[TASKS]) =
                      [got |-> w[TASKS], fin |-> k.chan[TASKS].fin]
                BY <3>1, <3>2, <4>1, UpdateCases
            <4>3. k2.chan[TASKS].got = Values(TASKS)
                BY <2>5, <2>6, <2>8, <3>1, <3>4, <4>1, <4>2
            <4> QED
                BY <3>2, <4>3 DEF State
        <3> QED
            BY <3>3, <3>4
    <2>11. DiscardTasks(k) \subseteq DiscardTasks(k2)
        BY <2>9, <2>10 DEF DiscardTasks
    <2>12. \A c \in Deferred : k2.chan[c] = k.chan[c]
        BY <2>5, <2>6, <2>7, <2>8 DEF Deferred
    <2> QED
        BY <2>11, <2>12 DEF Waits
<1> QED
    BY <1>1, <1>2

LEMMA PutFacts ==
    ASSUME NEW k, Typed(k), NEW k2, k2 = Put(k)
    PROVE  /\ Alike(k, k2) /\ Typed(k2) /\ k2.seenInt = k.seenInt
           /\ k2.step = k.step + 1
<1>1. k \in Checkpoint /\ k.step + 1 \in Int
    BY DEF Typed, Checkpoint
<1>2. /\ k2.chan = k.chan /\ k2.versions = k.versions /\ k2.seen = k.seen
      /\ k2.updated = k.updated /\ k2.seenInt = k.seenInt /\ k2.step = k.step + 1
      /\ k2 \in Checkpoint
    BY <1>1 DEF Put, Checkpoint
<1> QED
    BY <1>2 DEF Alike, Typed

LEMMA ProceedFacts ==
    ASSUME NEW k, Typed(k), NEW k2, k2 = [k EXCEPT !.seenInt = Proceed(k)]
    PROVE  /\ Alike(k, k2) /\ Typed(k2) /\ k2.seenInt = k2.versions
           /\ k2.step = k.step
<1>1. /\ k2.chan = k.chan /\ k2.versions = k.versions /\ k2.seen = k.seen
      /\ k2.updated = k.updated /\ k2.seenInt = k.versions /\ k2.step = k.step
      /\ k2 \in Checkpoint
    BY DEF Proceed, Typed, Checkpoint
<1>2. \A c \in Chans : k2.seenInt[c] <= k2.versions[c]
    BY <1>1, TypedParts
<1> QED
    BY <1>1, <1>2 DEF Alike, Typed

-----------------------------------------------------------------------------
(* Type correctness.                                                       *)

Items(q) == {q[i] : i \in 1 .. Len(q)}

\* The checkpoints stored or submitted.
Kept == {saved} \cup Items(queue)

\* The channels that Commands write to.
NullChans == UNION Commands

TypedInv ==
    /\ TypeOK
    /\ Typed(ck)
    /\ \A k \in Kept : Typed(k)
    /\ nulls \cup flight \cup savedNulls \subseteq NullChans

LEMMA NullChansType == NullChans \subseteq Chans \ Barriers
BY GraphAssumption DEF NullChans

LEMMA ItemsFacts ==
    ASSUME NEW q \in Seq(Checkpoint)
    PROVE  /\ \A k : Items(Append(q, k)) = Items(q) \cup {k}
           /\ Items(<<>>) = {}
           /\ q # <<>> => Head(q) \in Items(q) /\ Items(Tail(q)) \subseteq Items(q)
<1>1. ASSUME NEW k PROVE Items(Append(q, k)) = Items(q) \cup {k}
    <2>1. /\ Len(Append(q, k)) = Len(q) + 1 /\ Len(q) \in Nat
          /\ \A i \in 1 .. Len(q) : Append(q, k)[i] = q[i]
          /\ Append(q, k)[Len(q) + 1] = k
        BY AppendProperties
    <2>2. 1 .. (Len(q) + 1) = (1 .. Len(q)) \cup {Len(q) + 1}
        BY <2>1
    <2> QED
        BY <2>1, <2>2 DEF Items
<1>2. ASSUME q # <<>> PROVE Head(q) \in Items(q) /\ Items(Tail(q)) \subseteq Items(q)
    <2>1. /\ Len(q) \in Nat /\ Len(q) > 0 /\ Head(q) = q[1]
          /\ Len(Tail(q)) = Len(q) - 1
          /\ \A i \in 1 .. Len(Tail(q)) : Tail(q)[i] = q[i + 1]
        BY <1>2, HeadTailProperties
    <2>2. \A i \in 1 .. Len(Tail(q)) : i + 1 \in 1 .. Len(q)
        BY <2>1
    <2>3. 1 \in 1 .. Len(q)
        BY <2>1
    <2> QED
        BY <2>1, <2>2, <2>3 DEF Items
<1>3. Items(<<>>) = {}
    BY DEF Items
<1> QED
    BY <1>1, <1>2, <1>3

\* A checkpoint that is kept was kept before or is the loop's own.
LEMMA KeptNext ==
    ASSUME TypeOK, [Next]_vars
    PROVE  Kept' \subseteq Kept \cup {ck'}
<1> USE ItemsFacts DEF Kept
<1>0. queue \in Seq(Checkpoint)
    BY DEF TypeOK
<1>1. ASSUME NEW k, NEW q, Items(q) \subseteq Items(queue) \cup {k}, q \in Seq(Checkpoint)
      PROVE  /\ Items(Submit(q, k)) \subseteq Items(queue) \cup {k}
             /\ Items(PutAtExit(q, k)) \subseteq Items(queue) \cup {k}
    BY <1>1 DEF Submit, PutAtExit
<1>2. CASE Invoke
    <2>1. queue' = Submit(queue, ck') /\ saved' = saved
        BY <1>2 DEF Invoke, Enter
    <2> QED
        BY <1>0, <1>1, <2>1
<1>3. ASSUME NEW cs, Resume(cs)
      PROVE  Kept' \subseteq Kept \cup {ck'}
    BY <1>3 DEF Resume, Enter
<1>4. ASSUME NEW why, NEW k, Leave(why, k)
      PROVE  Kept' \subseteq Kept \cup {ck'}
    <2>1. queue' = PutAtExit(queue, k) /\ ck' = k /\ saved' = saved
        BY <1>4 DEF Leave
    <2> QED
        BY <1>0, <1>1, <2>1
<1>5. ASSUME NEW o, AfterTick(o)
      PROVE  Kept' \subseteq Kept \cup {ck'}
    <2>1. /\ \/ queue' = Submit(queue, ck')
             \/ queue' = PutAtExit(Submit(queue, ck'), ck')
          /\ saved' = saved
        BY <1>5 DEF AfterTick
    <2>2. Items(Submit(queue, ck')) \subseteq Items(queue) \cup {ck'}
        BY <1>0, <1>1
    <2>3. Items(PutAtExit(Submit(queue, ck'), ck')) \subseteq Items(queue) \cup {ck'}
        <3>1. ASSUME NEW q, q = Submit(queue, ck')
              PROVE  Items(PutAtExit(q, ck')) \subseteq Items(queue) \cup {ck'}
            BY <1>0, <2>2, <3>1 DEF PutAtExit, Submit
        <3> QED
            BY <3>1
    <2> QED
        BY <2>1, <2>2, <2>3
<1>6. CASE StoreCheckpoint
    BY <1>0, <1>6 DEF StoreCheckpoint
<1>7. CASE Crash
    BY <1>0, <1>7 DEF Crash
<1>8. CASE UNCHANGED <<queue, saved>>
    BY <1>8
<1> QED
    BY <1>2, <1>3, <1>4, <1>5, <1>6, <1>7, <1>8
    DEF Next, TickStops, Drain, TickInterrupts, Tick, AfterTickRaises, Fail, StoreNulls,
        Exit, Rest, vars

\* The checkpoint that apply_writes leaves when it raises.
LEMMA RaisesTyped ==
    ASSUME NEW k, Typed(k), NEW ts, NEW w, \A c \in Chans : w[c] \in SUBSET Values(c),
           NEW done, NEW chan2, NEW changed,
           chan2 = [c \in Chans |-> IF c \in done THEN Update(c, Consumed(k, ts)[c], w[c])
                                    ELSE Consumed(k, ts)[c]],
           NEW k2, k2 = [chan |-> chan2, versions |-> Bumped(k, changed),
                         seen |-> Seen(k, ts), seenInt |-> k.seenInt,
                         updated |-> k.updated, step |-> k.step]
    PROVE  Typed(k2)
<1>1. /\ k2.chan = chan2 /\ k2.versions = Bumped(k, changed) /\ k2.seen = Seen(k, ts)
      /\ k2.updated = k.updated /\ k2.seenInt = k.seenInt /\ k2.step = k.step
      /\ k2 = [chan |-> k2.chan, versions |-> k2.versions, seen |-> k2.seen,
               seenInt |-> k2.seenInt, updated |-> k2.updated, step |-> k2.step]
    OBVIOUS
<1>2. \A c \in Chans : chan2[c] \in State(c)
    <2> SUFFICES ASSUME NEW c \in Chans PROVE chan2[c] \in State(c)
        OBVIOUS
    <2>1. Consumed(k, ts)[c] \in {k.chan[c], Consume(c, k.chan[c])}
        BY DEF Consumed
    <2>2. Consumed(k, ts)[c] \in State(c)
        BY <2>1, TypedParts, ConsumeState
    <2> QED
        BY <2>2, UpdateState
<1>3. k2.chan \in [Chans -> [got : UNION {SUBSET Values(c) : c \in Chans}, fin : BOOLEAN]]
    <2>1. chan2 = [c \in Chans |-> chan2[c]]
        OBVIOUS
    <2> QED
        BY <1>1, <1>2, <2>1, ChanType
<1>4. /\ k2.versions \in [Chans -> Nat]
      /\ \A c \in Chans : k.versions[c] <= k2.versions[c]
    BY <1>1, TypedParts DEF Bumped
<1>5. /\ k2.seen \in [Nodes -> [Chans -> Nat]]
      /\ \A n \in Nodes, c \in Chans : k2.seen[n][c] \in {k.versions[c], k.seen[n][c]}
    BY <1>1, TypedParts DEF Seen
<1>6. \A n \in Nodes, c \in Chans : k2.seen[n][c] <= k2.versions[c]
    <2> SUFFICES ASSUME NEW n \in Nodes, NEW c \in Chans
                 PROVE  k2.seen[n][c] <= k2.versions[c]
        OBVIOUS
    <2>1. /\ k.seen[n][c] <= k.versions[c] /\ k.versions[c] <= k2.versions[c]
          /\ k.seen[n][c] \in Nat /\ k.versions[c] \in Nat /\ k2.versions[c] \in Nat
        BY <1>4, TypedParts DEF Typed
    <2> QED
        BY <1>5, <2>1
<1>7. k2 \in Checkpoint
    BY <1>1, <1>3, <1>4, <1>5, TypedParts DEF Checkpoint
<1>8. \A c \in Chans : k2.seenInt[c] <= k2.versions[c]
    <2> SUFFICES ASSUME NEW c \in Chans PROVE k2.seenInt[c] <= k2.versions[c]
        OBVIOUS
    <2>1. k.seenInt[c] <= k.versions[c] /\ k.seenInt[c] \in Nat /\ k.versions[c] \in Nat
          /\ k.versions[c] <= k2.versions[c] /\ k2.versions[c] \in Nat
        BY <1>4, TypedParts DEF Typed
    <2> QED
        BY <1>1, <2>1
<1> QED
    BY <1>1, <1>2, <1>6, <1>7, <1>8 DEF Typed

\* The loop's checkpoint after any step.
LEMMA CheckpointTyped ==
    ASSUME TypedInv, [Next]_vars
    PROVE  Typed(ck')
<1>1. Typed(ck) /\ Typed(saved)
    BY DEF TypedInv, Kept
<1>2. NullChans \in SUBSET (Chans \ Barriers) /\ savedNulls \subseteq NullChans
    BY NullChansType DEF TypedInv
<1>3. CASE Invoke
    <2> DEFINE k == ApplyNulls(saved, savedNulls)
               k1 == ApplyWrites(k, DiscardTasks(k), WritesTo(Input))
    <2>1. Typed(k)
        BY <1>1, <1>2, NullsParts
    <2>2. Typed(k1)
        BY <2>1, WritesType, ApplyWritesParts
    <2>3. ck' = Put(k1)
        BY <1>3 DEF Invoke
    <2> QED
        BY <2>2, <2>3, PutFacts
<1>4. ASSUME NEW cs \in Commands \cup {{}}, Resume(cs)
      PROVE  Typed(ck')
    <2> DEFINE k == ApplyNulls(saved, nulls')
    <2>1. nulls' \in SUBSET (Chans \ Barriers)
        BY <1>2, <1>4 DEF Resume, NullChans
    <2>2. Typed(k)
        BY <1>1, <2>1, NullsParts
    <2>3. ck' = [k EXCEPT !.seenInt = Proceed(k)]
        BY <1>4 DEF Resume
    <2> QED
        BY <2>2, <2>3, ProceedFacts
<1>5. ASSUME NEW o, AfterTick(o)
      PROVE  Typed(ck')
    <2> DEFINE k1 == ApplyWrites(ck, tasks, Writes(o))
    <2>1. Typed(k1)
        BY <1>1, WritesType, ApplyWritesParts
    <2>2. ck' = Put(k1)
        BY <1>5 DEF AfterTick
    <2> QED
        BY <2>1, <2>2, PutFacts
<1>6. ASSUME NEW o, NEW done, AfterTickRaises(o, done)
      PROVE  Typed(ck')
    <2> DEFINE chan1 == Consumed(ck, tasks)
               chan2 == [c \in Chans |-> IF c \in done THEN Update(c, chan1[c], Writes(o)[c])
                                         ELSE chan1[c]]
               changed == {c \in Chans : \/ chan1[c] # ck.chan[c]
                                         \/ c \in done /\ Updates(c, chan1[c], Writes(o)[c])}
    <2>1. ck' = [ck EXCEPT !.chan = chan2, !.versions = Bumped(ck, changed),
                           !.seen = Seen(ck, tasks)]
        BY <1>6, Zenon DEF AfterTickRaises, Leave
    <2>2. \A c \in Chans : Writes(o)[c] \in SUBSET Values(c)
        BY WritesType
    <2>3. chan2 = [c \in Chans |-> IF c \in done
                                  THEN Update(c, Consumed(ck, tasks)[c], Writes(o)[c])
                                  ELSE Consumed(ck, tasks)[c]]
        OBVIOUS
    <2> HIDE DEF chan2, changed
    <2>4. ck' = [chan |-> chan2, versions |-> Bumped(ck, changed), seen |-> Seen(ck, tasks),
                 seenInt |-> ck.seenInt, updated |-> ck.updated, step |-> ck.step]
        BY <1>1, <2>1 DEF Typed, Checkpoint
    <2> QED
        BY <1>1, <2>2, <2>3, <2>4, RaisesTyped
<1>7. CASE ck' \in {ck, EmptyCheckpoint}
    BY <1>1, <1>7, EmptySound DEF Sound
<1> QED
    BY <1>3, <1>4, <1>5, <1>6, <1>7
    DEF Next, TickStops, Drain, TickInterrupts, Tick, Fail, StoreCheckpoint, StoreNulls,
        Exit, Crash, Gone, Leave, Rest, vars

LEMMA InitTyped == Init => TypedInv
<1> SUFFICES ASSUME Init PROVE TypedInv
    OBVIOUS
<1>1. ck = EmptyCheckpoint /\ Kept = {EmptyCheckpoint} /\ queue = <<>>
    <2>1. Items(<<>>) = {}
        BY DEF Items
    <2> QED
        BY <2>1 DEF Init, Kept
<1>2. Typed(EmptyCheckpoint)
    BY EmptySound DEF Sound
<1>3. EmptyCheckpoint \in Checkpoint
    BY <1>2 DEF Typed
<1>4. TypeOK
    <2>1. \A n \in Nodes, c \in Chans : /\ ck.seen[n][c] <= ck.versions[c]
                                        /\ ck.seenInt[c] <= ck.versions[c]
        BY <1>1, <1>2 DEF Typed
    <2>2. queue \in Seq(Checkpoint) /\ runs \in 0 .. LastRun
        BY <1>1, LoopAssumption DEF Init
    <2>3. ck \in Checkpoint /\ saved \in Checkpoint
        BY <1>3 DEF Init
    <2>4. /\ pc = "idle" /\ status = "pending" /\ tasks = {} /\ stop = 0
          /\ resuming = FALSE /\ asked = FALSE
          /\ nulls = {} /\ flight = {} /\ savedNulls = {}
        BY DEF Init
    <2>5. stop \in Int
        BY <2>4
    <2> QED
        BY <2>1, <2>2, <2>3, <2>4, <2>5, Zenon DEF TypeOK
<1> QED
    BY <1>1, <1>2, <1>4 DEF Init, TypedInv

\* The tasks of a superstep are nodes and Sends.
LEMMA TasksType ==
    ASSUME NEW k, Typed(k)
    PROVE  /\ NextTasks(k) \subseteq Tasks
           /\ NextTasks(k) \subseteq DiscardTasks(k)
<1>1. TASKS \in Chans
    BY GraphAssumption
<1>2. k.chan[TASKS].got \subseteq Packets
    <2>1. Values(TASKS) = Packets
        BY <1>1, Kinds DEF Values
    <2>2. k.chan[TASKS] \in State(TASKS)
        BY <1>1, TypedParts
    <2> QED
        BY <2>1, <2>2 DEF State
<1> QED
    BY <1>2 DEF NextTasks, DiscardTasks, Candidates, Tasks

\* Variables other than the loop's checkpoint.
LEMMA OthersTyped ==
    ASSUME TypedInv, [Next]_vars, Typed(ck')
    PROVE  TypedInv'
<1>1. ck \in Checkpoint /\ ck' \in Checkpoint
    BY DEF TypedInv, Typed
<1>2. \A k \in Kept' : Typed(k)
    BY KeptNext DEF TypedInv
<1>3. saved' \in Checkpoint
    BY <1>2 DEF Kept, Typed
<1>4. queue' \in Seq(Checkpoint)
    <2>1. queue \in Seq(Checkpoint)
        BY DEF TypedInv, TypeOK
    <2>2. ASSUME NEW q \in Seq(Checkpoint)
          PROVE  Submit(q, ck') \in Seq(Checkpoint) /\ PutAtExit(q, ck') \in Seq(Checkpoint)
        BY <1>1 DEF Submit, PutAtExit
    <2>3. CASE Invoke
        BY <2>1, <2>2, <2>3 DEF Invoke
    <2>4. ASSUME NEW why, NEW k, Leave(why, k)
          PROVE  queue' \in Seq(Checkpoint)
        BY <2>1, <2>2, <2>4 DEF Leave
    <2>5. ASSUME NEW o, AfterTick(o)
          PROVE  queue' \in Seq(Checkpoint)
        <3>1. \/ queue' = Submit(queue, ck')
              \/ queue' = PutAtExit(Submit(queue, ck'), ck')
            BY <2>5 DEF AfterTick
        <3>2. Submit(queue, ck') \in Seq(Checkpoint)
            BY <2>1, <2>2
        <3> QED
            BY <2>2, <3>1, <3>2
    <2>6. CASE StoreCheckpoint
        BY <2>1, <2>6 DEF StoreCheckpoint
    <2>7. CASE Crash
        BY <2>7 DEF Crash
    <2>8. CASE UNCHANGED queue
        BY <2>1, <2>8
    <2> QED
        BY <2>3, <2>4, <2>5, <2>6, <2>7, <2>8
        DEF Next, TickStops, Drain, TickInterrupts, Tick, AfterTickRaises, Fail, StoreNulls,
            Exit, Rest, vars, Resume
<1>5. tasks' \subseteq Tasks
    <2>1. tasks \subseteq Tasks /\ NextTasks(ck) \subseteq Tasks
        BY TasksType DEF TypedInv, TypeOK
    <2> QED
        BY <2>1 DEF Next, Invoke, Resume, Enter, TickStops, Drain, TickInterrupts, Tick,
                    AfterTick, AfterTickRaises, Fail, Leave, StoreCheckpoint, StoreNulls,
                    Exit, Crash, Gone, Rest, vars
<1>6. /\ nulls' \cup flight' \cup savedNulls' \subseteq NullChans
    <2>1. nulls \cup flight \cup savedNulls \subseteq NullChans
        BY DEF TypedInv
    <2>2. \A cs \in Commands \cup {{}} : cs \subseteq NullChans
        BY DEF NullChans
    <2> QED
        BY <2>1, <2>2
        DEF Next, Invoke, Resume, Enter, TickStops, Drain, TickInterrupts, Tick,
            AfterTick, AfterTickRaises, Fail, Leave, StoreCheckpoint, StoreNulls,
            Exit, Crash, Gone, Rest, vars
<1>7. pc' \in {"idle", "tick", "run", "exit"}
      /\ status' \in {"pending", "done", "draining", "out_of_steps", "interrupt_before",
                      "interrupt_after", "error"}
    BY DEF TypedInv, TypeOK, Next, Invoke, Resume, Enter, TickStops, Drain, TickInterrupts,
           Tick, AfterTick, AfterTickRaises, Fail, Leave, StoreCheckpoint, StoreNulls,
           Exit, Crash, Gone, Rest, vars
<1>8. stop' \in Int
    <2>1. saved.step \in Int /\ Limit \in Int /\ stop \in Int
        BY LoopAssumption DEF TypedInv, TypeOK, Checkpoint
    <2>2. (saved.step + 1) + Limit + 1 \in Int
        BY <2>1
    <2>3. stop' \in {stop, 0, (saved.step + 1) + Limit + 1}
        BY DEF Next, Invoke, Resume, Enter, TickStops, Drain, TickInterrupts, Tick, AfterTick,
               AfterTickRaises, Fail, Leave, StoreCheckpoint, StoreNulls, Exit, Crash, Gone,
               Rest, vars
    <2> QED
        BY <2>1, <2>2, <2>3
<1>9. runs' \in 0 .. LastRun
    <2>1. runs \in 0 .. LastRun /\ LastRun \in Nat
        BY LoopAssumption DEF TypedInv, TypeOK
    <2>2. CASE Enter
        BY <2>1, <2>2 DEF Enter
    <2>3. CASE runs' = runs
        BY <2>1, <2>3
    <2> QED
        BY <2>2, <2>3
        DEF Next, Invoke, Resume, TickStops, Drain, TickInterrupts, Tick, AfterTick,
            AfterTickRaises, Fail, Leave, StoreCheckpoint, StoreNulls, Exit, Crash, Gone,
            Rest, vars
<1>10. resuming' \in BOOLEAN /\ asked' \in BOOLEAN
    BY DEF TypedInv, TypeOK, Next, Invoke, Resume, Enter, TickStops, Drain, TickInterrupts,
           Tick, AfterTick, AfterTickRaises, Fail, Leave, StoreCheckpoint, StoreNulls,
           Exit, Crash, Gone, Rest, vars
<1>11. \A n \in Nodes, c \in Chans : /\ ck'.seen[n][c] <= ck'.versions[c]
                                     /\ ck'.seenInt[c] <= ck'.versions[c]
    BY DEF Typed
<1>12. TypeOK'
    BY <1>1, <1>3, <1>4, <1>5, <1>6, <1>7, <1>8, <1>9, <1>10, <1>11, NullChansType DEF TypeOK
<1> QED
    BY <1>2, <1>6, <1>12 DEF TypedInv

LEMMA NextTyped == TypedInv /\ [Next]_vars => TypedInv'
BY CheckpointTyped, OthersTyped

\* Every variable of the loop keeps its type, on any graph: a channel holds only
\* what may be written to it, nothing is seen of a channel before the channel has
\* it, and tasks are nodes and Sends of the graph (apply_writes,
\* prepare_next_tasks).
THEOREM LoopTypeCorrect == Spec => []TypeOK
<1>1. TypedInv => TypeOK
    BY DEF TypedInv
<1> QED
    BY <1>1, InitTyped, NextTyped, PTL DEF Spec

-----------------------------------------------------------------------------
(* What the steps do to the loop's checkpoint.                             *)

LEMMA StepFacts ==
    ASSUME NEW k, Typed(k), NEW ts, DiscardTasks(k) \subseteq ts,
           NEW w, \A c \in Chans : w[c] \in SUBSET Values(c),
           NEW k2, k2 = Put(ApplyWrites(k, ts, w))
    PROVE  /\ Typed(k2) /\ Noted(k2)
           /\ Fresh(k) => Fresh(k2)
           /\ DiscardTasks(k2) # {} => \E c \in Chans : k2.versions[c] > k2.seenInt[c]
           /\ k2.step = k.step + 1
           /\ Fresh(k) /\ ts # {} /\ Deferred \subseteq TriggerChans => Waits(k2)
<1> DEFINE k1 == ApplyWrites(k, ts, w)
<1>1. Typed(k1) /\ k1.step = k.step
    BY ApplyWritesParts
<1>2. /\ Noted(k1)
      /\ DiscardTasks(k1) # {} => \E c \in Chans : k1.versions[c] > k1.seenInt[c]
    BY OwedIsNew
<1>3. Fresh(k) => Fresh(k1)
    BY FreshAfter
<1>4. Fresh(k) /\ ts # {} /\ Deferred \subseteq TriggerChans => Waits(k1)
    BY WaitsAfter
<1> HIDE DEF k1
<1>5. /\ Alike(k1, k2) /\ Typed(k2) /\ k2.seenInt = k1.seenInt /\ k2.step = k1.step + 1
    BY <1>1, PutFacts DEF k1
<1> QED
    BY <1>1, <1>2, <1>3, <1>4, <1>5, AlikeFacts DEF Alike

LEMMA InvokeFacts ==
    ASSUME TypedInv, Invoke
    PROVE  /\ Typed(ck') /\ Noted(ck')
           /\ Fresh(saved) => Fresh(ck')
           /\ DiscardTasks(ck') # {} => \E c \in Chans : ck'.versions[c] > ck'.seenInt[c]
           /\ ck'.step = saved.step + 1
<1> DEFINE k == ApplyNulls(saved, savedNulls)
<1>1. Typed(saved) /\ savedNulls \in SUBSET (Chans \ Barriers)
    BY NullChansType DEF TypedInv, Kept
<1>2. Typed(k) /\ k.step = saved.step /\ (Fresh(saved) => Fresh(k))
    BY <1>1, NullsParts
<1>3. ck' = Put(ApplyWrites(k, DiscardTasks(k), WritesTo(Input)))
    BY DEF Invoke
<1>4. \A c \in Chans : WritesTo(Input)[c] \in SUBSET Values(c)
    BY WritesType
<1> HIDE DEF k
<1> QED
    BY <1>2, <1>3, <1>4, StepFacts

LEMMA ResumeFacts ==
    ASSUME TypedInv, NEW cs \in Commands \cup {{}}, Resume(cs)
    PROVE  /\ Alike(ApplyNulls(saved, nulls'), ck')
           /\ nulls' \in SUBSET (Chans \ Barriers) /\ nulls' \subseteq NullChans
           /\ Typed(ApplyNulls(saved, nulls'))
           /\ ck'.seenInt = ck'.versions
           /\ ck'.step = saved.step
           /\ Sound(saved) => Sound(ck')
<1> DEFINE k == ApplyNulls(saved, nulls')
<1>1. Typed(saved) /\ nulls' \in SUBSET (Chans \ Barriers) /\ nulls' \subseteq NullChans
    BY NullChansType DEF TypedInv, Kept, Resume, NullChans
<1>2. /\ Typed(k) /\ k.step = saved.step
      /\ Sound(saved) => Fresh(k) /\ Noted(k)
    BY <1>1, NullsParts DEF Sound
<1>3. ck' = [k EXCEPT !.seenInt = Proceed(k)]
    BY DEF Resume
<1> HIDE DEF k
<1>4. Alike(k, ck') /\ Typed(ck') /\ ck'.seenInt = ck'.versions /\ ck'.step = k.step
    BY <1>2, <1>3, ProceedFacts
<1> QED
    BY <1>1, <1>2, <1>4, AlikeFacts DEF Sound, k

LEMMA AfterTickFacts ==
    ASSUME TypedInv, tasks = DiscardTasks(ck), NEW o, AfterTick(o)
    PROVE  /\ Typed(ck') /\ Noted(ck')
           /\ Fresh(ck) => Fresh(ck')
           /\ DiscardTasks(ck') # {} => \E c \in Chans : ck'.versions[c] > ck'.seenInt[c]
           /\ ck'.step = ck.step + 1
           /\ Fresh(ck) /\ tasks # {} /\ Deferred \subseteq TriggerChans => Waits(ck')
<1>1. Typed(ck) /\ DiscardTasks(ck) \subseteq tasks
    BY DEF TypedInv
<1>2. ck' = Put(ApplyWrites(ck, tasks, Writes(o)))
    BY DEF AfterTick
<1>3. \A c \in Chans : Writes(o)[c] \in SUBSET Values(c)
    BY WritesType
<1> QED
    BY <1>1, <1>2, <1>3, StepFacts

-----------------------------------------------------------------------------
(* A superstep runs all that the checkpoint owes.                          *)

\* No checkpoint is put of a superstep that apply_writes gave up halfway: it
\* raises at a LastValue, and with "exit" what it left is put.
NoHalfSteps == Durability = "async" \/ \A c \in Chans : Kind[c] # "last"

SoundInv ==
    /\ TypedInv
    /\ \A k \in Kept : Sound(k)
    /\ InLoop => Sound(ck)
    /\ pc = "run" => tasks = DiscardTasks(ck) /\ tasks # {}

\* These steps put no checkpoint.
LEMMA KeptSame ==
    ASSUME TypeOK,
           \/ StoreCheckpoint \/ UNCHANGED <<queue, saved>> \/ Crash
           \/ \E o, done : AfterTickRaises(o, done) /\ Durability = "async"
    PROVE  Kept' \subseteq Kept
<1>1. queue \in Seq(Checkpoint)
    BY DEF TypeOK
<1>2. CASE StoreCheckpoint
    BY <1>1, <1>2, ItemsFacts DEF StoreCheckpoint, Kept
<1>3. CASE UNCHANGED <<queue, saved>>
    BY <1>3 DEF Kept
<1>4. CASE Crash
    BY <1>1, <1>4, ItemsFacts DEF Crash, Kept
<1>5. ASSUME NEW o, NEW done, AfterTickRaises(o, done), Durability = "async"
      PROVE  Kept' \subseteq Kept
    <2>1. PICK k : Leave("error", k)
        BY <1>5, Zenon DEF AfterTickRaises
    <2>2. UNCHANGED <<queue, saved>>
        BY <1>5, <2>1 DEF Leave, PutAtExit
    <2> QED
        BY <2>2 DEF Kept
<1> QED
    BY <1>2, <1>3, <1>4, <1>5

\* With "exit", apply_writes does not raise.
LEMMA NeverRaises ==
    ASSUME NoHalfSteps, NEW o, NEW done, AfterTickRaises(o, done)
    PROVE  Durability = "async"
BY DEF NoHalfSteps, AfterTickRaises, Conflicts

LEMMA InitSound == Init => SoundInv
<1> SUFFICES ASSUME Init PROVE SoundInv
    OBVIOUS
<1>1. Kept = {EmptyCheckpoint} /\ pc = "idle"
    BY ItemsFacts DEF Init, Kept, Items
<1> QED
    BY <1>1, EmptySound, InitTyped DEF SoundInv, InLoop

\* The loop's checkpoint while the loop runs, and when it is left.
LEMMA SoundCheckpoint ==
    ASSUME SoundInv, [Next]_vars
    PROVE  /\ InLoop' => Sound(ck')
           /\ \/ Sound(ck')
              \/ StoreCheckpoint \/ UNCHANGED <<queue, saved>>
              \/ \E o, done : AfterTickRaises(o, done)
<1>1. TypedInv /\ Sound(saved)
    BY DEF SoundInv, Kept
<1>2. CASE Invoke
    BY <1>1, <1>2, InvokeFacts DEF Sound
<1>3. ASSUME NEW cs \in Commands \cup {{}}, Resume(cs)
      PROVE  Sound(ck')
    BY <1>1, <1>3, ResumeFacts
<1>4. CASE InLoop /\ ck' = ck
    BY <1>4 DEF SoundInv
<1>5. ASSUME NEW o, AfterTick(o)
      PROVE  Sound(ck')
    <2>1. tasks = DiscardTasks(ck) /\ Fresh(ck)
        BY <1>5 DEF SoundInv, AfterTick, InLoop, Sound
    <2> QED
        BY <1>1, <1>5, <2>1, AfterTickFacts DEF Sound
<1>6. ASSUME NEW o, NEW done, AfterTickRaises(o, done)
      PROVE  ~InLoop'
    <2>1. PICK k : Leave("error", k)
        BY <1>6, Zenon DEF AfterTickRaises
    <2> QED
        BY <2>1 DEF Leave, InLoop
<1>7. CASE ck' = EmptyCheckpoint
    BY <1>7, EmptySound
<1>8. CASE pc' = pc /\ ck' = ck /\ (StoreCheckpoint \/ UNCHANGED <<queue, saved>>)
    BY <1>8 DEF SoundInv, InLoop
<1> QED
    BY <1>2, <1>3, <1>4, <1>5, <1>6, <1>7, <1>8
    DEF Next, TickStops, Drain, TickInterrupts, Tick, Fail, StoreCheckpoint, StoreNulls,
        Exit, Crash, Gone, Leave, Rest, vars, InLoop

LEMMA NextSound ==
    ASSUME NoHalfSteps, SoundInv, [Next]_vars
    PROVE  SoundInv'
<1>1. TypedInv /\ TypedInv' /\ TypeOK
    BY NextTyped DEF SoundInv, TypedInv
<1>2. \A k \in Kept' : Sound(k)
    <2>1. CASE Sound(ck')
        BY <1>1, <2>1, KeptNext DEF SoundInv
    <2>2. CASE StoreCheckpoint \/ UNCHANGED <<queue, saved>>
        BY <1>1, <2>2, KeptSame DEF SoundInv
    <2>3. ASSUME NEW o, NEW done, AfterTickRaises(o, done)
          PROVE  Kept' \subseteq Kept
        BY <1>1, <2>3, NeverRaises, KeptSame
    <2> QED
        BY <2>1, <2>2, <2>3, SoundCheckpoint DEF SoundInv
<1>3. pc' = "run" => tasks' = DiscardTasks(ck') /\ tasks' # {}
    <2>1. CASE Tick
        <3>1. Noted(ck) /\ tasks' = NextTasks(ck) /\ ck' = ck /\ tasks' # {}
            BY <2>1 DEF Tick, SoundInv, InLoop, Sound
        <3> QED
            BY <3>1, NoneLeftOut
    <2>2. CASE pc' = pc /\ ck' = ck /\ tasks' = tasks
        BY <2>2 DEF SoundInv
    <2>3. CASE pc' # "run"
        BY <2>3
    <2> QED
        BY <2>1, <2>2, <2>3
        DEF Next, Invoke, Resume, Enter, TickStops, Drain, TickInterrupts, AfterTick,
            AfterTickRaises, Fail, Leave, StoreCheckpoint, StoreNulls, Exit, Crash, Gone,
            Rest, vars
<1> QED
    BY <1>1, <1>2, <1>3, SoundCheckpoint DEF SoundInv

-----------------------------------------------------------------------------
(* Interrupts and resuming.                                                *)

\* What a run that resumes has not yet changed, an interrupt has seen.
ResumeInv ==
    /\ TypedInv
    /\ resuming /\ InLoop => \A c \in Chans : ck.versions[c] <= ck.seenInt[c]

LEMMA NextResume == ResumeInv /\ [Next]_vars => ResumeInv'
<1> SUFFICES ASSUME ResumeInv, [Next]_vars PROVE ResumeInv'
    OBVIOUS
<1>1. TypedInv /\ TypedInv'
    BY NextTyped DEF ResumeInv
<1> SUFFICES ASSUME resuming', InLoop' PROVE \A c \in Chans : ck'.versions[c] <= ck'.seenInt[c]
    BY <1>1 DEF ResumeInv
<1>2. ASSUME NEW cs \in Commands \cup {{}}, Resume(cs)
      PROVE  \A c \in Chans : ck'.versions[c] <= ck'.seenInt[c]
    <2>1. ck'.seenInt = ck'.versions /\ Typed(ck')
        BY <1>1, <1>2, ResumeFacts DEF TypedInv
    <2>2. \A c \in Chans : ck'.versions[c] \in Nat
        BY <2>1, TypedParts
    <2> QED
        BY <2>1, <2>2
<1>3. CASE ck' = ck /\ resuming' = resuming /\ InLoop
    BY <1>3 DEF ResumeInv
<1>4. CASE ~resuming' \/ ~InLoop'
    BY <1>4
<1> QED
    BY <1>2, <1>3, <1>4
    DEF Next, Invoke, TickStops, Drain, TickInterrupts, Tick, AfterTick, AfterTickRaises, Fail,
        StoreCheckpoint, StoreNulls, Exit, Crash, Gone, Leave, Rest, vars, InLoop

\* "proceed past previous checkpoint" (_first): a run that resumes is not
\* interrupted before a node until it has run a superstep, whatever the graph,
\* the Commands it was resumed with and how the runs before it ended.
THEOREM ResumeMovesOn == Spec => ResumeProceeds
<1>1. Init => ResumeInv
    BY InitTyped DEF ResumeInv, Init
<1>2. ResumeInv /\ [Next]_vars =>
          [status # "interrupt_before" /\ status' = "interrupt_before" => ~resuming]_vars
    <2> SUFFICES ASSUME ResumeInv, [Next]_vars, status # "interrupt_before",
                        status' = "interrupt_before", resuming
                 PROVE  FALSE
        OBVIOUS
    <2>1. TickInterrupts
        BY DEF Next, Invoke, Resume, Enter, TickStops, Drain, Tick, AfterTick, AfterTickRaises,
               Fail, StoreCheckpoint, StoreNulls, Exit, Crash, Gone, Leave, Rest, vars
    <2>2. PICK c \in Chans : ck.versions[c] > ck.seenInt[c]
        BY <2>1 DEF TickInterrupts, ShouldInterrupt
    <2>3. ck.versions[c] <= ck.seenInt[c]
        BY <2>1 DEF ResumeInv, TickInterrupts, InLoop
    <2>4. ck.versions[c] \in Nat /\ ck.seenInt[c] \in Nat
        BY TypedParts DEF ResumeInv, TypedInv
    <2> QED
        BY <2>2, <2>3, <2>4
<1> QED
    BY <1>1, <1>2, NextResume, PTL DEF Spec, ResumeProceeds

-----------------------------------------------------------------------------
(* Deferred nodes.                                                         *)

\* A deferred channel triggers a node (compile attaches each to its node), and
\* neither an input nor a Command writes to one: the end that would start its
\* node is announced only by a superstep with tasks.
OnlyTasksDefer ==
    /\ Deferred \subseteq TriggerChans
    /\ Input \cap Deferred = {}
    /\ NullChans \cap Deferred = {}

WaitsInv ==
    /\ SoundInv
    /\ \A k \in Kept : Waits(k)
    /\ InLoop => Waits(ck)
    /\ NothingLeft

LEMMA InvokeWaits ==
    ASSUME OnlyTasksDefer, SoundInv, Waits(saved), Invoke
    PROVE  Waits(ck')
<1> DEFINE k == ApplyNulls(saved, savedNulls)
           ts == DiscardTasks(k)
           w == WritesTo(Input)
           k1 == ApplyWrites(k, ts, w)
<1>1. Sound(saved) /\ savedNulls \in SUBSET (Chans \ Barriers) /\ savedNulls \cap Deferred = {}
    BY NullChansType DEF SoundInv, TypedInv, Kept, OnlyTasksDefer
<1>2. Typed(k) /\ Fresh(k) /\ Waits(k)
    BY <1>1, NullsParts, NullsKeep DEF Sound
<1>3. ck' = Put(k1)
    BY DEF Invoke
<1>4. \A c \in Chans : w[c] \in SUBSET Values(c)
    BY WritesType
<1> HIDE DEF k
<1>5. Typed(k1)
    BY <1>2, <1>4, ApplyWritesParts
<1>6. Alike(k1, ck')
    BY <1>3, <1>5, PutFacts
<1>7. Waits(k1)
    <2>1. CASE ts # {}
        BY <1>2, <1>4, <2>1, WaitsAfter DEF OnlyTasksDefer
    <2>2. CASE ts = {}
        <3> SUFFICES ASSUME NEW c \in Deferred PROVE ~IsFull(c, k1.chan[c])
            BY DEF Waits
        <3>1. c \in Chans /\ w[c] = {}
            BY DEF Deferred, OnlyTasksDefer, WritesTo
        <3>2. k1.chan[c] = Ended(k, ts, w)[c]
            BY <1>2, <1>4, ApplyWritesParts
        <3>3. Ended(k, ts, w)[c] = k.chan[c]
            BY <1>2, <2>2, <3>1, NoTasks
        <3> QED
            BY <1>2, <2>2, <3>2, <3>3 DEF Waits
    <2> QED
        BY <2>1, <2>2
<1> QED
    BY <1>6, <1>7, AlikeFacts

LEMMA ResumeWaits ==
    ASSUME OnlyTasksDefer, SoundInv, Waits(saved), NEW cs \in Commands \cup {{}}, Resume(cs)
    PROVE  Waits(ck')
<1>1. TypedInv /\ Typed(saved)
    BY DEF SoundInv, TypedInv, Kept
<1>2. nulls' \in SUBSET (Chans \ Barriers) /\ nulls' \cap Deferred = {}
    BY <1>1, ResumeFacts DEF OnlyTasksDefer
<1>3. Waits(ApplyNulls(saved, nulls'))
    BY <1>1, <1>2, NullsKeep
<1> QED
    BY <1>1, <1>3, ResumeFacts, AlikeFacts

\* The loop's checkpoint, as in SoundCheckpoint.
LEMMA WaitsCheckpoint ==
    ASSUME OnlyTasksDefer, WaitsInv, [Next]_vars
    PROVE  /\ InLoop' => Waits(ck')
           /\ \/ Waits(ck')
              \/ StoreCheckpoint \/ UNCHANGED <<queue, saved>>
              \/ \E o, done : AfterTickRaises(o, done)
<1>1. SoundInv /\ TypedInv /\ Waits(saved)
    BY DEF WaitsInv, SoundInv, Kept
<1>2. CASE Invoke
    BY <1>1, <1>2, InvokeWaits
<1>3. ASSUME NEW cs \in Commands \cup {{}}, Resume(cs)
      PROVE  Waits(ck')
    BY <1>1, <1>3, ResumeWaits
<1>4. CASE InLoop /\ ck' = ck
    BY <1>4 DEF WaitsInv
<1>5. ASSUME NEW o, AfterTick(o)
      PROVE  Waits(ck')
    <2>1. tasks = DiscardTasks(ck) /\ tasks # {} /\ Fresh(ck)
        BY <1>1, <1>5 DEF SoundInv, AfterTick, InLoop, Sound
    <2> QED
        BY <1>1, <1>5, <2>1, AfterTickFacts DEF OnlyTasksDefer
<1>6. ASSUME NEW o, NEW done, AfterTickRaises(o, done)
      PROVE  ~InLoop'
    <2>1. PICK k : Leave("error", k)
        BY <1>6, Zenon DEF AfterTickRaises
    <2> QED
        BY <2>1 DEF Leave, InLoop
<1>7. CASE ck' = EmptyCheckpoint
    BY <1>7, EmptySound
<1>8. CASE pc' = pc /\ ck' = ck /\ (StoreCheckpoint \/ UNCHANGED <<queue, saved>>)
    BY <1>8 DEF WaitsInv, InLoop
<1> QED
    BY <1>2, <1>3, <1>4, <1>5, <1>6, <1>7, <1>8
    DEF Next, TickStops, Drain, TickInterrupts, Tick, Fail, StoreCheckpoint, StoreNulls,
        Exit, Crash, Gone, Leave, Rest, vars, InLoop

LEMMA NextWaits ==
    ASSUME NoHalfSteps, OnlyTasksDefer, WaitsInv, [Next]_vars
    PROVE  WaitsInv'
<1>1. SoundInv /\ SoundInv' /\ TypeOK
    BY NextSound DEF WaitsInv, SoundInv, TypedInv
<1>2. \A k \in Kept' : Waits(k)
    <2>1. CASE Waits(ck')
        BY <1>1, <2>1, KeptNext DEF WaitsInv
    <2>2. CASE StoreCheckpoint \/ UNCHANGED <<queue, saved>>
        BY <1>1, <2>2, KeptSame DEF WaitsInv
    <2>3. ASSUME NEW o, NEW done, AfterTickRaises(o, done)
          PROVE  Kept' \subseteq Kept
        BY <1>1, <2>3, NeverRaises, KeptSame
    <2> QED
        BY <2>1, <2>2, <2>3, WaitsCheckpoint DEF WaitsInv
<1>3. NothingLeft'
    <2> SUFFICES ASSUME pc' = "exit", status' = "done"
                 PROVE  DiscardTasks(ck') = {} /\ \A c \in Deferred : ~IsFull(c, ck'.chan[c])
        BY DEF NothingLeft
    <2>1. CASE TickStops
        <3>1. NextTasks(ck) = {} /\ ck' = ck
            BY <2>1 DEF TickStops, Leave
        <3>2. Noted(ck) /\ Waits(ck)
            BY <2>1 DEF TickStops, WaitsInv, SoundInv, Sound, InLoop
        <3> QED
            BY <3>1, <3>2, NoneLeftOut DEF Waits
    <2>2. CASE UNCHANGED <<pc, status, ck>>
        BY <2>2 DEF WaitsInv, NothingLeft
    <2> QED
        BY <2>1, <2>2
        DEF Next, Invoke, Resume, Enter, Drain, TickInterrupts, Tick, AfterTick,
            AfterTickRaises, Fail, StoreCheckpoint, StoreNulls, Exit, Crash, Gone, Leave,
            Rest, vars
<1> QED
    BY <1>1, <1>2, <1>3, WaitsCheckpoint DEF WaitsInv

\* "if no more tasks, we're done" (tick): a run that ends as done leaves no Send,
\* no triggered node and no deferred node that something was sent to, although
\* tick looks only at the nodes of the channels it was told were updated.  When
\* no superstep's writes are put halfway, and only tasks write to deferred nodes.
THEOREM DoneLeavesNothing ==
    ASSUME NoHalfSteps, OnlyTasksDefer
    PROVE  Spec => []NothingLeft
<1>1. Init => WaitsInv
    <2> SUFFICES ASSUME Init PROVE WaitsInv
        OBVIOUS
    <2>1. Kept = {EmptyCheckpoint} /\ pc = "idle"
        BY ItemsFacts DEF Init, Kept, Items
    <2> QED
        BY <2>1, EmptySound, InitSound DEF WaitsInv, NothingLeft, InLoop
<1>2. WaitsInv /\ [Next]_vars => WaitsInv'
    BY NextWaits
<1>3. WaitsInv => NothingLeft
    BY DEF WaitsInv
<1> QED
    BY <1>1, <1>2, <1>3, PTL DEF Spec

-----------------------------------------------------------------------------
(* The checkpoint that the next run will load.                             *)

\* The last checkpoint submitted, or the stored one when none waits.
Latest == IF queue = <<>> THEN saved ELSE queue[Len(queue)]

\* The last checkpoint, with the writes of Commands that will be stored for it.
Coming == IF queue = <<>> THEN ApplyNulls(saved, savedNulls \cup flight)
          ELSE ApplyNulls(Latest, IF Durability = "exit" THEN flight ELSE {})

\* The loop's checkpoint is the one that the next run would load; with "exit"
\* it is put when the loop is left, if it is of a later step.
BehindInv ==
    /\ SoundInv
    /\ pc = "idle" => queue = <<>> /\ flight = {}
    /\ InLoop /\ Durability = "async" => Alike(Coming, ck)
    /\ InLoop /\ Durability = "exit" =>
           /\ queue = <<>> /\ flight = {} /\ saved.step <= ck.step
           /\ ck.step = saved.step =>
                  Alike(ApplyNulls(saved, nulls), ck) /\ savedNulls \subseteq nulls

LEMMA NoNulls == \A k : ApplyNulls(k, {}) = k
BY DEF ApplyNulls

LEMMA TailFacts ==
    ASSUME NEW q \in Seq(Checkpoint), q # <<>>, NEW t, t = Tail(q)
    PROVE  /\ t = <<>> => Head(q) = q[Len(q)]
           /\ t # <<>> => t[Len(t)] = q[Len(q)]
<1>1. /\ Len(q) \in Nat /\ Len(q) > 0 /\ Head(q) = q[1]
      /\ Len(Tail(q)) = Len(q) - 1 /\ Tail(q) \in Seq(Checkpoint)
      /\ \A i \in 1 .. Len(Tail(q)) : Tail(q)[i] = q[i + 1]
    BY HeadTailProperties
<1>2. /\ Len(t) = Len(q) - 1 /\ t \in Seq(Checkpoint)
      /\ \A i \in 1 .. Len(t) : t[i] = q[i + 1]
    BY <1>1, Zenon
<1>3. t = <<>> <=> Len(t) = 0
    BY <1>2, EmptySeq
<1> QED
    BY <1>1, <1>2, <1>3

LEMMA StoredSame ==
    ASSUME TypeOK, StoreCheckpoint
    PROVE  Latest' = Latest /\ Coming' = Coming
<1>1. queue \in Seq(Checkpoint) /\ queue # <<>> /\ saved' = Head(queue) /\ queue' = Tail(queue)
      /\ savedNulls' = {} /\ flight' = IF Durability = "exit" THEN flight ELSE {}
    BY DEF TypeOK, StoreCheckpoint
<1>2. /\ queue' = <<>> => saved' = queue[Len(queue)]
      /\ queue' # <<>> => queue'[Len(queue')] = queue[Len(queue)]
    BY <1>1, TailFacts
<1>3. Latest = queue[Len(queue)] /\ Latest' = Latest
    BY <1>1, <1>2 DEF Latest
<1>4. CASE queue' = <<>>
    BY <1>1, <1>2, <1>3, <1>4, NoNulls DEF Coming
<1>5. CASE queue' # <<>>
    BY <1>1, <1>3, <1>5 DEF Coming
<1> QED
    BY <1>3, <1>4, <1>5

LEMMA NullsStoredSame ==
    ASSUME StoreNulls
    PROVE  Latest' = Latest /\ Coming' = Coming
<1>1. Latest' = Latest /\ UNCHANGED <<queue, saved>>
    BY DEF StoreNulls, Latest
<1>2. savedNulls' \cup flight' = savedNulls \cup flight
    BY DEF StoreNulls
<1>3. queue # <<>> => Durability # "exit"
    BY DEF StoreNulls
<1> QED
    BY <1>1, <1>2, <1>3 DEF Coming

\* A checkpoint that is submitted is the last.
LEMMA SubmittedLast ==
    ASSUME TypeOK, NEW k, k \in Checkpoint, queue' = Append(queue, k)
    PROVE  /\ Latest' = k
           /\ Coming' = ApplyNulls(k, IF Durability = "exit" THEN flight' ELSE {})
<1>1. /\ Len(queue') = Len(queue) + 1 /\ Len(queue) \in Nat
      /\ queue'[Len(queue) + 1] = k
    BY AppendProperties DEF TypeOK
<1>2. queue' # <<>>
    BY <1>1
<1> QED
    BY <1>1, <1>2 DEF Latest, Coming

\* With "async", what the next run would load owes no more than the loop.
LEMMA LatestLess ==
    ASSUME BehindInv, NullChans \cap Deferred = {}, InLoop, Durability = "async"
    PROVE  DiscardTasks(Latest) \subseteq DiscardTasks(ck)
<1>1. DiscardTasks(ck) = DiscardTasks(Coming)
    BY AlikeFacts DEF BehindInv
<1>2. CASE queue = <<>>
    <2>1. /\ Typed(saved) /\ savedNulls \cup flight \in SUBSET (Chans \ Barriers)
          /\ (savedNulls \cup flight) \cap Deferred = {}
        BY NullChansType DEF BehindInv, SoundInv, TypedInv, Kept
    <2> QED
        BY <1>1, <1>2, <2>1, NullsKeep DEF Coming, Latest
<1>3. CASE queue # <<>>
    BY <1>1, <1>3, NoNulls DEF Coming
<1> QED
    BY <1>2, <1>3

\* Leaving the loop with its checkpoint loses none of its tasks.
LEMMA LeaveKeeps ==
    ASSUME BehindInv, NullChans \cap Deferred = {}, InLoop, NEW why, Leave(why, ck)
    PROVE  /\ DiscardTasks(ck) \subseteq DiscardTasks(Coming')
           /\ DiscardTasks(Latest') \subseteq DiscardTasks(ck)
<1>1. /\ TypedInv /\ TypeOK /\ Typed(ck) /\ \A k \in Kept : Typed(k)
      /\ nulls \cup flight \cup savedNulls \subseteq NullChans
    BY DEF BehindInv, SoundInv, TypedInv
<1>2. ck' = ck /\ queue' = PutAtExit(queue, ck) /\ saved' = saved /\ savedNulls' = savedNulls
      /\ flight' = IF Durability = "exit" THEN nulls ELSE flight
    BY DEF Leave
<1>3. ASSUME NEW k \in Kept \cup {ck}, NEW cs, cs \subseteq NullChans
      PROVE  DiscardTasks(k) \subseteq DiscardTasks(ApplyNulls(k, cs))
    <2>1. Typed(k) /\ cs \in SUBSET (Chans \ Barriers) /\ cs \cap Deferred = {}
        BY <1>1, <1>3, NullChansType
    <2> QED
        BY <2>1, NullsKeep
<1>4. CASE Durability = "async"
    <2>1. UNCHANGED <<queue, flight, saved, savedNulls>>
        BY <1>2, <1>4 DEF PutAtExit
    <2>2. Coming' = Coming /\ Latest' = Latest
        BY <2>1 DEF Coming, Latest
    <2>3. DiscardTasks(ck) = DiscardTasks(Coming)
        BY <1>4, AlikeFacts DEF BehindInv
    <2> QED
        BY <1>4, <2>2, <2>3, LatestLess
<1>5. CASE Durability = "exit" /\ ck.step # saved.step
    <2>1. queue' = Append(queue, ck) /\ flight' = nulls
        BY <1>2, <1>5 DEF PutAtExit
    <2>2. Latest' = ck /\ Coming' = ApplyNulls(ck, nulls)
        BY <1>1, <1>5, <2>1, SubmittedLast DEF Typed
    <2> QED
        BY <1>1, <1>3, <2>2
<1>6. CASE Durability = "exit" /\ ck.step = saved.step
    <2>1. queue' = <<>> /\ flight' = nulls
        BY <1>2, <1>6 DEF PutAtExit, BehindInv
    <2>2. savedNulls' \cup flight' = nulls /\ Alike(ApplyNulls(saved, nulls), ck)
        BY <1>2, <1>6, <2>1 DEF BehindInv
    <2>3. Latest' = saved /\ Coming' = ApplyNulls(saved, nulls)
        BY <1>2, <2>1, <2>2 DEF Latest, Coming
    <2>4. DiscardTasks(ck) = DiscardTasks(ApplyNulls(saved, nulls))
        BY <2>2, AlikeFacts
    <2> QED
        BY <1>1, <1>3, <2>3, <2>4 DEF Kept
<1> QED
    BY <1>4, <1>5, <1>6, LoopAssumption

LEMMA InitBehind == Init => BehindInv
<1>1. Init => pc = "idle" /\ queue = <<>> /\ flight = {} /\ ~InLoop
    BY DEF Init, InLoop
<1> QED
    BY <1>1, InitSound DEF BehindInv

LEMMA NextBehind ==
    ASSUME NoHalfSteps, BehindInv, [Next]_vars
    PROVE  BehindInv'
<1>1. /\ SoundInv /\ SoundInv' /\ TypedInv /\ TypeOK /\ Typed(ck') /\ ck' \in Checkpoint
      /\ Durability \in {"async", "exit"}
    BY NextSound, LoopAssumption DEF BehindInv, SoundInv, TypedInv, Typed
<1>2. pc' = "idle" => queue' = <<>> /\ flight' = {}
    BY DEF BehindInv, Next, Invoke, Resume, Enter, TickStops, Drain, TickInterrupts, Tick,
           AfterTick, AfterTickRaises, Fail, Leave, StoreCheckpoint, StoreNulls, Exit, Crash,
           Gone, Rest, vars
<1>3. CASE Invoke
    <2>1. /\ queue = <<>> /\ flight' = {} /\ saved' = saved /\ InLoop'
          /\ queue' = Submit(queue, ck') /\ ck'.step = saved.step + 1
        BY <1>1, <1>3, InvokeFacts DEF Invoke, Enter, BehindInv, InLoop
    <2>2. CASE Durability = "async"
        <3>1. queue' = Append(queue, ck')
            BY <2>1, <2>2 DEF Submit
        <3>2. Coming' = ck'
            BY <1>1, <2>2, <3>1, SubmittedLast, NoNulls
        <3> QED
            BY <1>1, <1>2, <2>2, <3>2 DEF BehindInv, Alike
    <2>3. CASE Durability = "exit"
        <3>1. queue' = <<>> /\ saved.step \in Int
            BY <1>1, <2>1, <2>3 DEF Submit, TypeOK, Checkpoint
        <3> QED
            BY <1>1, <1>2, <2>1, <2>3, <3>1 DEF BehindInv
    <2> QED
        BY <1>1, <2>2, <2>3
<1>4. ASSUME NEW cs \in Commands \cup {{}}, Resume(cs)
      PROVE  BehindInv'
    <2>1. /\ queue' = <<>> /\ saved' = saved /\ savedNulls' = savedNulls
          /\ nulls' = savedNulls \cup cs /\ ck'.step = saved.step
          /\ flight' = IF Durability = "exit" THEN {} ELSE cs
          /\ Alike(ApplyNulls(saved, nulls'), ck')
        BY <1>1, <1>4, ResumeFacts DEF Resume, Enter, BehindInv
    <2>2. CASE Durability = "async"
        <3>1. Coming' = ApplyNulls(saved, nulls')
            BY <2>1, <2>2 DEF Coming
        <3> QED
            BY <1>1, <1>2, <2>1, <2>2, <3>1 DEF BehindInv
    <2>3. CASE Durability = "exit"
        <3>1. saved.step \in Int
            BY <1>1 DEF TypeOK, Checkpoint
        <3> QED
            BY <1>1, <1>2, <2>1, <2>3, <3>1 DEF BehindInv
    <2> QED
        BY <1>1, <2>2, <2>3
<1>5. ASSUME NEW o, AfterTick(o)
      PROVE  BehindInv'
    <2>1. ck'.step = ck.step + 1 /\ InLoop /\ ck.step \in Int /\ saved.step \in Int
        <3>1. tasks = DiscardTasks(ck) /\ InLoop
            BY <1>1, <1>5 DEF AfterTick, SoundInv, InLoop
        <3> QED
            BY <1>1, <1>5, <3>1, AfterTickFacts DEF TypeOK, Checkpoint
    <2>2. CASE Durability = "async"
        <3>1. queue' = Append(queue, ck')
            BY <1>5, <2>2 DEF AfterTick, Submit, PutAtExit
        <3>2. Coming' = ck'
            BY <1>1, <2>2, <3>1, SubmittedLast, NoNulls
        <3> QED
            BY <1>1, <1>2, <2>2, <3>2 DEF BehindInv, Alike
    <2>3. CASE Durability = "exit" /\ InLoop'
        <3>1. queue' = queue /\ UNCHANGED <<flight, saved>>
            BY <1>5, <2>3 DEF AfterTick, Submit, InLoop
        <3> QED
            BY <1>1, <1>2, <2>1, <2>3, <3>1 DEF BehindInv
    <2>4. CASE ~InLoop'
        BY <1>1, <1>2, <2>4 DEF BehindInv
    <2> QED
        BY <1>1, <2>2, <2>3, <2>4
<1>6. CASE StoreCheckpoint
    <2>1. Coming' = Coming /\ queue # <<>> /\ UNCHANGED <<pc, ck>>
        BY <1>1, <1>6, StoredSame DEF StoreCheckpoint
    <2> QED
        BY <1>1, <1>2, <2>1 DEF BehindInv, InLoop
<1>7. CASE StoreNulls
    <2>1. Coming' = Coming /\ flight # {} /\ UNCHANGED <<pc, ck>>
        BY <1>7, NullsStoredSame DEF StoreNulls
    <2> QED
        BY <1>1, <1>2, <2>1 DEF BehindInv, InLoop
<1>8. CASE Tick
    <2>1. /\ InLoop /\ UNCHANGED <<ck, nulls, flight, queue, saved, savedNulls>>
        BY <1>8 DEF Tick, InLoop
    <2>2. Coming' = Coming
        BY <2>1 DEF Coming, Latest
    <2> QED
        BY <1>1, <1>2, <2>1, <2>2 DEF BehindInv
<1>9. CASE ~InLoop'
    BY <1>1, <1>2, <1>9 DEF BehindInv
<1>10. CASE UNCHANGED vars
    BY <1>1, <1>2, <1>10 DEF vars, BehindInv, InLoop, Coming, Latest
<1> QED
    BY <1>3, <1>4, <1>5, <1>6, <1>7, <1>8, <1>9, <1>10
    DEF Next, TickStops, Drain, TickInterrupts, AfterTickRaises, Fail, Exit, Crash, Gone,
        Leave, Rest, InLoop

-----------------------------------------------------------------------------
(* A superstep that failed.                                                *)

OwedInv ==
    /\ BehindInv
    /\ pc = "exit" /\ status = "error" => tasks \subseteq DiscardTasks(Coming)

LEMMA NextOwed ==
    ASSUME NoHalfSteps, NullChans \cap Deferred = {}, OwedInv, [Next]_vars
    PROVE  OwedInv'
<1>1. BehindInv /\ BehindInv' /\ SoundInv /\ TypeOK
    BY NextBehind DEF OwedInv, BehindInv, SoundInv, TypedInv
<1> SUFFICES ASSUME pc' = "exit", status' = "error"
             PROVE  tasks' \subseteq DiscardTasks(Coming')
    BY <1>1 DEF OwedInv
<1>2. CASE Fail
    <2>1. InLoop /\ tasks = DiscardTasks(ck) /\ tasks' = tasks /\ Leave("error", ck)
        BY <1>1, <1>2 DEF Fail, SoundInv, InLoop, Leave
    <2> QED
        BY <1>1, <2>1, LeaveKeeps
<1>3. ASSUME NEW o, NEW done, AfterTickRaises(o, done)
      PROVE  tasks' \subseteq DiscardTasks(Coming')
    <2>1. Durability = "async"
        BY <1>3, NeverRaises
    <2>2. PICK k : Leave("error", k)
        BY <1>3, Zenon DEF AfterTickRaises
    <2>3. UNCHANGED <<queue, flight, saved, savedNulls, tasks>>
        BY <2>1, <2>2 DEF Leave, PutAtExit
    <2>4. Coming' = Coming
        BY <2>3 DEF Coming, Latest
    <2>5. tasks = DiscardTasks(ck) /\ Alike(Coming, ck)
        BY <1>1, <1>3, <2>1 DEF AfterTickRaises, SoundInv, BehindInv, InLoop
    <2> QED
        BY <2>3, <2>4, <2>5, AlikeFacts
<1>4. CASE StoreCheckpoint
    BY <1>1, <1>4, StoredSame DEF OwedInv, StoreCheckpoint
<1>5. CASE StoreNulls
    BY <1>5, NullsStoredSame DEF OwedInv, StoreNulls
<1>6. CASE UNCHANGED vars
    BY <1>6 DEF OwedInv, vars, Coming, Latest
<1> QED
    BY <1>2, <1>3, <1>4, <1>5, <1>6
    DEF Next, Invoke, Resume, Enter, TickStops, Drain, TickInterrupts, Tick, AfterTick, Exit,
        Crash, Gone, Leave, Rest

\* "whenever we resume graph execution from that superstep" (README.md of
\* checkpoint): when all that a run which failed has put is stored, every task of
\* the superstep that failed is a task of what is stored, also when a
\* Command's writes are stored after it or a LastValue made apply_writes raise.
\* When no superstep's writes are put halfway, and no Command goes to a deferred
\* node.
THEOREM FailedStepStaysOwed ==
    ASSUME NoHalfSteps, NullChans \cap Deferred = {}
    PROVE  Spec => []FailedStepOwed
<1>1. Init => OwedInv
    BY InitBehind DEF OwedInv, Init
<1>2. OwedInv /\ [Next]_vars => OwedInv'
    BY NextOwed
<1>3. OwedInv => FailedStepOwed
    <2> SUFFICES ASSUME OwedInv, pc = "exit", status = "error", queue = <<>>, flight = {}
                 PROVE  tasks \subseteq DiscardTasks(ApplyNulls(saved, savedNulls))
        BY DEF FailedStepOwed
    <2>1. savedNulls \cup flight = savedNulls
        OBVIOUS
    <2> QED
        BY <2>1 DEF OwedInv, Coming
<1> QED
    BY <1>1, <1>2, <1>3, PTL DEF Spec

-----------------------------------------------------------------------------
(* Nodes that wait for an interrupt.                                       *)

\* No Command goes to a deferred node or to a node of interrupt_before, whether
\* by its channel or as a Send.
CommandsPass ==
    /\ NullChans \cap Deferred = {}
    /\ \A n \in InterruptBefore : Triggers[n] \cap NullChans = {}
    /\ TASKS \in NullChans => \A p \in Packets : Target[p] \notin InterruptBefore

IBOwed(k) == \E t \in DiscardTasks(k) : NodeOf(t) \in InterruptBefore

\* A Command adds only tasks that it goes to.
LEMMA NullsAdd ==
    ASSUME NEW k, Typed(k), NEW cs \in SUBSET (Chans \ Barriers),
           NEW k2, k2 = ApplyNulls(k, cs), NEW t \in DiscardTasks(k2)
    PROVE  \/ t \in DiscardTasks(k)
           \/ t \in Nodes /\ Triggers[t] \cap cs # {}
           \/ t \in Packets /\ TASKS \in cs
<1> DEFINE w == WritesTo(cs)
           k1 == ApplyWrites(k, {}, w)
<1>1. CASE cs = {}
    BY <1>1 DEF ApplyNulls
<1>2. CASE cs # {}
    <2>1. \A c \in Chans : w[c] \in SUBSET Values(c)
        BY WritesType
    <2>2. Typed(k1)
        BY <2>1, ApplyWritesParts
    <2>3. k2 = [k1 EXCEPT !.updated = IF k.updated = {} THEN {} ELSE k.updated \cup k1.updated]
        BY <1>2, Zenon DEF ApplyNulls
    <2>4. k1 \in Checkpoint
        BY <2>2 DEF Typed
    <2>5. /\ \A c \in Chans : k1.chan[c] = Ended(k, {}, w)[c]
          /\ \A n \in Nodes, c \in Chans : k1.seen[n][c] = k.seen[n][c]
          /\ \A c \in Chans : k1.versions[c] = IF c \in Changed(k, {}, w)
                                               THEN MaxVersion(k) + 1 ELSE k.versions[c]
        BY <2>1, ApplyWritesParts
    <2>6. \A c \in Chans \ cs : Ended(k, {}, w)[c] = k.chan[c] /\ c \notin Changed(k, {}, w)
        BY NoTasks DEF WritesTo
    <2> HIDE DEF k1
    <2>7. k2.chan = k1.chan /\ k2.versions = k1.versions /\ k2.seen = k1.seen
        BY <2>3, <2>4 DEF Checkpoint
    <2> HIDE DEF w
    <2>8. CASE t \in k2.chan[TASKS].got
        <3>1. TASKS \in Chans
            BY GraphAssumption
        <3>2. k1.chan[TASKS] \in State(TASKS)
            BY <2>2, <3>1, TypedParts
        <3>3. t \in Packets
            BY <2>7, <2>8, <3>1, <3>2, Kinds DEF State, Values
        <3> QED
            BY <2>5, <2>6, <2>7, <2>8, <3>1, <3>3 DEF DiscardTasks
    <2>9. CASE t \in Nodes /\ IsTriggered(k2, t)
        <3>1. PICK c \in Triggers[t] : Triggered(k2, c, t)
            BY <2>9 DEF IsTriggered
        <3>2. c \in Chans
            BY <2>9, <3>1, GraphAssumption
        <3>3. CASE c \in cs
            BY <2>9, <3>1, <3>3
        <3>4. CASE c \notin cs
            <4>1. Triggered(k, c, t)
                BY <2>5, <2>6, <2>7, <2>9, <3>1, <3>2, <3>4 DEF Triggered
            <4> QED
                BY <2>9, <3>1, <4>1 DEF DiscardTasks, IsTriggered
        <3> QED
            BY <3>3, <3>4
    <2> QED
        BY <2>8, <2>9 DEF DiscardTasks
<1> QED
    BY <1>1, <1>2

LEMMA NullsPass ==
    ASSUME CommandsPass, NEW k, Typed(k), NEW cs, cs \subseteq NullChans,
           IBOwed(ApplyNulls(k, cs))
    PROVE  IBOwed(k)
<1> DEFINE k2 == ApplyNulls(k, cs)
<1>1. cs \in SUBSET (Chans \ Barriers)
    BY NullChansType
<1>2. PICK t \in DiscardTasks(k2) : NodeOf(t) \in InterruptBefore
    BY DEF IBOwed
<1>3. CASE t \in DiscardTasks(k)
    BY <1>2, <1>3 DEF IBOwed
<1>4. CASE t \in Nodes /\ Triggers[t] \cap cs # {}
    <2>1. NodeOf(t) = t
        BY <1>4, GraphAssumption DEF NodeOf
    <2> QED
        BY <1>2, <1>4, <2>1 DEF CommandsPass
<1>5. CASE t \in Packets /\ TASKS \in cs
    BY <1>2, <1>5 DEF CommandsPass, NodeOf
<1> QED
    BY <1>1, <1>3, <1>4, <1>5, NullsAdd

ApprovedInv ==
    /\ BehindInv
    /\ ~InLoop /\ IBOwed(Latest) => asked
    /\ pc = "tick" /\ IBOwed(ck) =>
           asked \/ (~resuming /\ \E c \in Chans : ck.versions[c] > ck.seenInt[c])
    /\ pc = "run" /\ IBOwed(ck) => asked

LEMMA InitApproved == Init => ApprovedInv
<1> SUFFICES ASSUME Init PROVE ApprovedInv
    OBVIOUS
<1>1. Latest = EmptyCheckpoint /\ pc = "idle"
    BY DEF Init, Latest
<1> QED
    BY <1>1, InitBehind, EmptySound DEF ApprovedInv, IBOwed

\* A run that ends normally or fails.
LEMMA NextApproved ==
    ASSUME NoHalfSteps, CommandsPass, Events \subseteq {"fail"},
           ApprovedInv, [Next]_vars, status' # "out_of_steps"
    PROVE  ApprovedInv'
<1>1. /\ BehindInv /\ BehindInv' /\ SoundInv /\ TypedInv /\ TypeOK
      /\ NullChans \cap Deferred = {}
    BY NextBehind DEF ApprovedInv, BehindInv, SoundInv, TypedInv, CommandsPass
<1>2. CASE Invoke
    <2>1. pc' = "tick" /\ resuming' = FALSE
        BY <1>2 DEF Invoke, Enter
    <2>2. IBOwed(ck') => \E c \in Chans : ck'.versions[c] > ck'.seenInt[c]
        BY <1>1, <1>2, InvokeFacts DEF IBOwed
    <2> QED
        BY <1>1, <2>1, <2>2 DEF ApprovedInv, InLoop
<1>3. ASSUME NEW cs \in Commands \cup {{}}, Resume(cs)
      PROVE  ApprovedInv'
    <2>1. pc = "idle" /\ pc' = "tick" /\ asked' = asked /\ queue = <<>>
        BY <1>1, <1>3 DEF Resume, Enter, BehindInv
    <2>2. IBOwed(ck') => IBOwed(ApplyNulls(saved, nulls'))
        BY <1>1, <1>3, ResumeFacts, AlikeFacts DEF IBOwed
    <2>3. IBOwed(ApplyNulls(saved, nulls')) => IBOwed(saved)
        <3>1. nulls' \subseteq NullChans /\ Typed(saved)
            BY <1>1, <1>3, ResumeFacts DEF TypedInv, Kept
        <3> QED
            BY <3>1, NullsPass
    <2>4. IBOwed(saved) => asked
        BY <2>1 DEF ApprovedInv, InLoop, Latest
    <2> QED
        BY <1>1, <2>1, <2>2, <2>3, <2>4 DEF ApprovedInv, InLoop
<1>4. CASE Tick
    <2>1. pc = "tick" /\ pc' = "run" /\ UNCHANGED <<ck, asked>>
          /\ ~ShouldInterrupt(ck, InterruptBefore, NextTasks(ck))
        BY <1>4 DEF Tick
    <2>2. NextTasks(ck) = DiscardTasks(ck)
        BY <1>1, <2>1, NoneLeftOut DEF SoundInv, Sound, InLoop
    <2>3. IBOwed(ck) => asked
        BY <2>1, <2>2 DEF ApprovedInv, IBOwed, ShouldInterrupt
    <2> QED
        BY <1>1, <2>1, <2>3 DEF ApprovedInv, InLoop, IBOwed
<1>5. ASSUME NEW o, AfterTick(o)
      PROVE  ApprovedInv'
    <2>1. CASE pc' = "exit" /\ asked'
        BY <1>1, <2>1 DEF ApprovedInv, InLoop
    <2>2. CASE pc' = "tick" /\ ~resuming'
        <3>1. tasks = DiscardTasks(ck)
            BY <1>1, <1>5 DEF SoundInv, AfterTick
        <3>2. IBOwed(ck') => \E c \in Chans : ck'.versions[c] > ck'.seenInt[c]
            BY <1>1, <1>5, <3>1, AfterTickFacts DEF IBOwed
        <3> QED
            BY <1>1, <2>2, <3>2 DEF ApprovedInv, InLoop
    <2> QED
        BY <1>5, <2>1, <2>2 DEF AfterTick
<1>6. ASSUME NEW why, Leave(why, ck), InLoop, IBOwed(ck) => asked'
      PROVE  ApprovedInv'
    <2>1. pc' = "exit" /\ DiscardTasks(Latest') \subseteq DiscardTasks(ck)
        BY <1>1, <1>6, LeaveKeeps DEF Leave
    <2>2. IBOwed(Latest') => IBOwed(ck)
        BY <2>1 DEF IBOwed
    <2> QED
        BY <1>1, <1>6, <2>1, <2>2 DEF ApprovedInv, InLoop
<1>7. CASE TickStops
    <2>1. InLoop /\ Leave("done", ck) /\ NextTasks(ck) = {} /\ asked' = asked
        BY <1>7 DEF TickStops, Leave, InLoop
    <2>2. ~IBOwed(ck)
        BY <1>1, <2>1, NoneLeftOut DEF SoundInv, Sound, IBOwed
    <2> QED
        BY <1>6, <2>1, <2>2
<1>8. CASE TickInterrupts
    BY <1>1, <1>8 DEF TickInterrupts, Leave, ApprovedInv, InLoop
<1>9. CASE Fail
    <2>1. InLoop /\ Leave("error", ck) /\ asked' = asked /\ pc = "run"
        BY <1>9 DEF Fail, InLoop
    <2>2. IBOwed(ck) => asked
        BY <2>1 DEF ApprovedInv
    <2> QED
        BY <1>6, <2>1, <2>2
<1>10. ASSUME NEW o, NEW done, AfterTickRaises(o, done)
       PROVE  ApprovedInv'
    <2>1. Durability = "async"
        BY <1>10, NeverRaises
    <2>2. PICK k : Leave("error", k)
        BY <1>10, Zenon DEF AfterTickRaises
    <2>3. UNCHANGED <<queue, saved, asked>> /\ pc = "run" /\ pc' = "exit"
        BY <1>10, <2>1, <2>2, Zenon DEF Leave, PutAtExit, AfterTickRaises
    <2>4. Latest' = Latest
        BY <2>3 DEF Latest
    <2>5. DiscardTasks(Latest) \subseteq DiscardTasks(ck)
        BY <1>1, <2>1, <2>3, LatestLess DEF InLoop
    <2>6. IBOwed(Latest) => asked
        BY <2>3, <2>5 DEF ApprovedInv, IBOwed
    <2> QED
        BY <1>1, <2>3, <2>4, <2>6 DEF ApprovedInv, InLoop
<1>11. CASE StoreCheckpoint
    <2>1. Latest' = Latest /\ UNCHANGED <<pc, ck, asked, resuming>>
        BY <1>1, <1>11, StoredSame DEF StoreCheckpoint
    <2> QED
        BY <1>1, <2>1 DEF ApprovedInv, InLoop, IBOwed
<1>12. CASE UNCHANGED <<pc, ck, asked, resuming, queue, saved>>
    <2>1. Latest' = Latest
        BY <1>12 DEF Latest
    <2> QED
        BY <1>1, <1>12, <2>1 DEF ApprovedInv, InLoop, IBOwed
<1>13. CASE Exit
    <2>1. pc = "exit" /\ pc' = "idle" /\ UNCHANGED <<queue, saved, asked>>
        BY <1>13 DEF Exit, Gone
    <2>2. Latest' = Latest
        BY <2>1 DEF Latest
    <2> QED
        BY <1>1, <2>1, <2>2 DEF ApprovedInv, InLoop, IBOwed
<1> QED
    BY <1>2, <1>3, <1>4, <1>5, <1>7, <1>8, <1>9, <1>10, <1>11, <1>12, <1>13
    DEF Next, Drain, StoreNulls, Crash, Rest, vars

\* "An optional list of node names to interrupt before" (StateGraph.compile):
\* on any graph, a task of a node of the list starts only when a run has been
\* interrupted since the superstep before it, also after runs that failed and
\* whatever versions their channels have.  As long as no run is drained, crashes
\* or ends at the recursion limit (a run resumed after these takes the superstep
\* for seen), and no Command goes to the node.
THEOREM StartsAreApproved ==
    ASSUME NoHalfSteps, CommandsPass, Events \subseteq {"fail"}
    PROVE  Spec /\ [](status # "out_of_steps") => []Approved
<1>1. Init => ApprovedInv
    BY InitApproved
<1>2. ApprovedInv /\ [Next]_vars /\ (status # "out_of_steps")' => ApprovedInv'
    BY NextApproved
<1>3. ApprovedInv => Approved
    BY DEF ApprovedInv, BehindInv, SoundInv, Approved, IBOwed
<1> QED
    BY <1>1, <1>2, <1>3, PTL DEF Spec

-----------------------------------------------------------------------------
(* PregelLoop implements BulkSynchronous: the versions of channels, and what *)
(* was seen of them, find the nodes of each superstep.                       *)

-----------------------------------------------------------------------------
(* A barrier is finished only when it is complete.                         *)

Fins(k) == \A c \in Barriers : k.chan[c].fin => k.chan[c].got = Names[c]

LEMMA FinState ==
    ASSUME NEW c \in Barriers, NEW s \in State(c), s.fin => s.got = Names[c],
           NEW vals \in SUBSET Values(c)
    PROVE  /\ Consume(c, s).fin => Consume(c, s).got = Names[c]
           /\ Update(c, s, vals).fin => Update(c, s, vals).got = Names[c]
           /\ Finish(c, s).fin => Finish(c, s).got = Names[c]
<1>1. c \in Chans
    BY DEF Barriers
<1>2. Update(c, s, vals) = [got |-> s.got \cup vals, fin |-> s.fin] /\ vals \subseteq Names[c]
    BY <1>1, UpdateCases, Kinds
<1>3. Update(c, s, vals).fin => Update(c, s, vals).got = Names[c]
    BY <1>2
<1>4. Finish(c, s).got = s.got /\ (Finish(c, s).fin => s.fin \/ s.got = Names[c])
    BY <1>1, FinishState DEF Finish, IsFull
<1>5. Consume(c, s) = s \/ Consume(c, s) = Empty
    BY DEF Consume
<1> QED
    BY <1>3, <1>4, <1>5 DEF Empty

LEMMA FinsAfter ==
    ASSUME NEW k, Typed(k), Fins(k), NEW ts, NEW w, \A c \in Chans : w[c] \in SUBSET Values(c)
    PROVE  Fins(ApplyWrites(k, ts, w))
<1> SUFFICES ASSUME NEW c \in Barriers
             PROVE  LET s == Ended(k, ts, w)[c] IN s.fin => s.got = Names[c]
    BY ApplyWritesParts DEF Fins
<1> DEFINE Good(s) == s \in State(c) /\ (s.fin => s.got = Names[c])
<1>1. c \in Chans /\ w[c] \in SUBSET Values(c) /\ {} \in SUBSET Values(c)
    BY DEF Barriers
<1>2. ASSUME NEW s, Good(s), NEW vals \in SUBSET Values(c)
      PROVE  Good(Consume(c, s)) /\ Good(Update(c, s, vals)) /\ Good(Finish(c, s))
    BY <1>1, <1>2, FinState, ConsumeState, UpdateState, FinishState
<1>3. Good(k.chan[c])
    BY <1>1, TypedParts DEF Fins
<1> HIDE DEF Good
<1>4. Good(Consumed(k, ts)[c])
    BY <1>1, <1>2, <1>3 DEF Consumed
<1>5. Good(Written(k, ts, w)[c])
    BY <1>1, <1>2, <1>4 DEF Written
<1>6. Good(Notified(k, ts, w)[c])
    BY <1>1, <1>2, <1>5 DEF Notified
<1>7. Good(Ended(k, ts, w)[c])
    BY <1>1, <1>2, <1>6 DEF Ended
<1> QED
    BY <1>7 DEF Good

LEMMA FinsNulls ==
    ASSUME NEW k, Typed(k), Fins(k), NEW cs \in SUBSET (Chans \ Barriers)
    PROVE  Fins(ApplyNulls(k, cs))
<1> DEFINE k1 == ApplyWrites(k, {}, WritesTo(cs))
<1>1. \A c \in Chans : WritesTo(cs)[c] \in SUBSET Values(c)
    BY WritesType
<1>2. Fins(k1) /\ k1 \in Checkpoint
    BY <1>1, FinsAfter, ApplyWritesParts DEF Typed
<1>3. \/ ApplyNulls(k, cs) = k
      \/ ApplyNulls(k, cs) = [k1 EXCEPT !.updated = IF k.updated = {} THEN {}
                                                    ELSE k.updated \cup k1.updated]
    BY Zenon DEF ApplyNulls
<1> HIDE DEF k1
<1>4. ApplyNulls(k, cs).chan \in {k.chan, k1.chan}
    BY <1>2, <1>3 DEF Checkpoint
<1> QED
    BY <1>2, <1>4 DEF Fins

FinsInv ==
    /\ TypedInv
    /\ Fins(ck)
    /\ \A k \in Kept : Fins(k)

\* The loop's checkpoint after any step.
LEMMA FinsCheckpoint ==
    ASSUME FinsInv, [Next]_vars
    PROVE  Fins(ck')
<1>1. /\ TypedInv /\ Typed(ck) /\ Typed(saved) /\ Fins(ck) /\ Fins(saved)
      /\ NullChans \in SUBSET (Chans \ Barriers) /\ savedNulls \subseteq NullChans
    BY NullChansType DEF FinsInv, TypedInv, Kept
<1>2. ASSUME NEW k, NEW k2, Fins(k), k2.chan = k.chan
      PROVE  Fins(k2)
    BY <1>2 DEF Fins
<1>3. CASE Invoke
    <2> DEFINE k == ApplyNulls(saved, savedNulls)
               k1 == ApplyWrites(k, DiscardTasks(k), WritesTo(Input))
    <2>1. Typed(k) /\ Fins(k)
        BY <1>1, NullsParts, FinsNulls
    <2>2. \A c \in Chans : WritesTo(Input)[c] \in SUBSET Values(c)
        BY WritesType
    <2> HIDE DEF k
    <2>3. Typed(k1) /\ Fins(k1)
        BY <2>1, <2>2, ApplyWritesParts, FinsAfter
    <2>4. ck' = Put(k1)
        BY <1>3 DEF Invoke, k
    <2> HIDE DEF k1
    <2> QED
        BY <1>2, <2>3, <2>4, PutFacts DEF Alike
<1>4. ASSUME NEW cs \in Commands \cup {{}}, Resume(cs)
      PROVE  Fins(ck')
    <2>1. nulls' \in SUBSET (Chans \ Barriers) /\ Alike(ApplyNulls(saved, nulls'), ck')
        BY <1>1, <1>4, ResumeFacts
    <2> QED
        BY <1>1, <1>2, <2>1, FinsNulls DEF Alike
<1>5. ASSUME NEW o, AfterTick(o)
      PROVE  Fins(ck')
    <2> DEFINE k1 == ApplyWrites(ck, tasks, Writes(o))
    <2>1. \A c \in Chans : Writes(o)[c] \in SUBSET Values(c)
        BY WritesType
    <2>2. Typed(k1) /\ Fins(k1)
        BY <1>1, <2>1, ApplyWritesParts, FinsAfter
    <2>3. ck' = Put(k1)
        BY <1>5 DEF AfterTick
    <2> HIDE DEF k1
    <2> QED
        BY <1>2, <2>2, <2>3, PutFacts DEF Alike
<1>6. ASSUME NEW o, NEW done, AfterTickRaises(o, done)
      PROVE  Fins(ck')
    <2> DEFINE chan1 == Consumed(ck, tasks)
               chan2 == [c \in Chans |-> IF c \in done THEN Update(c, chan1[c], Writes(o)[c])
                                         ELSE chan1[c]]
               changed == {c \in Chans : \/ chan1[c] # ck.chan[c]
                                         \/ c \in done /\ Updates(c, chan1[c], Writes(o)[c])}
    <2>1. ck' = [ck EXCEPT !.chan = chan2, !.versions = Bumped(ck, changed),
                           !.seen = Seen(ck, tasks)]
        BY <1>6, Zenon DEF AfterTickRaises, Leave
    <2>2. \A c \in Chans : Writes(o)[c] \in SUBSET Values(c)
        BY WritesType
    <2>3. ASSUME NEW c \in Barriers
          PROVE  chan2[c].fin => chan2[c].got = Names[c]
        <3>1. c \in Chans /\ ck.chan[c] \in State(c)
              /\ (ck.chan[c].fin => ck.chan[c].got = Names[c])
            BY <1>1, TypedParts DEF Fins, Barriers
        <3>2. chan1[c] \in State(c) /\ (chan1[c].fin => chan1[c].got = Names[c])
            BY <2>2, <3>1, FinState, ConsumeState DEF Consumed
        <3> HIDE DEF chan1
        <3> QED
            BY <2>2, <3>1, <3>2, FinState
    <2> HIDE DEF chan2, changed
    <2>4. ck'.chan = chan2
        BY <1>1, <2>1 DEF Typed, Checkpoint
    <2> QED
        BY <2>3, <2>4 DEF Fins
<1>7. Fins(EmptyCheckpoint)
    BY DEF Fins, EmptyCheckpoint, Empty, Barriers
<1> QED
    BY <1>1, <1>3, <1>4, <1>5, <1>6, <1>7
    DEF Next, TickStops, Drain, TickInterrupts, Tick, Fail, StoreCheckpoint, StoreNulls,
        Exit, Crash, Gone, Leave, Rest, vars

LEMMA FinsKept == /\ Init => FinsInv
                  /\ FinsInv /\ [Next]_vars => FinsInv'
<1>1. ASSUME Init PROVE FinsInv
    <2>1. Kept = {EmptyCheckpoint} /\ ck = EmptyCheckpoint
        BY <1>1, ItemsFacts DEF Init, Kept, Items
    <2>2. Fins(EmptyCheckpoint)
        BY DEF Fins, EmptyCheckpoint, Empty, Barriers
    <2> QED
        BY <1>1, <2>1, <2>2, InitTyped DEF FinsInv
<1>2. ASSUME FinsInv, [Next]_vars PROVE FinsInv'
    <2>1. Kept' \subseteq Kept \cup {ck'}
        BY <1>2, KeptNext DEF FinsInv, TypedInv
    <2> QED
        BY <1>2, <2>1, FinsCheckpoint, NextTyped DEF FinsInv
<1> QED
    BY <1>1, <1>2

-----------------------------------------------------------------------------
(* BulkSynchronous of a state that stands for a checkpoint.                *)

\* The graph is the same in both modules.
LEMMA SameShape ==
    /\ Bulk!Barriers = Barriers /\ Bulk!Deferred = Deferred
    /\ \A cs : Bulk!WritesTo(cs) = WritesTo(cs)
    /\ \A o : Bulk!Writes(o) = Writes(o)
    /\ \A ts : Bulk!Outcomes(ts) = Outcomes(ts)
BY Zenon DEF Bulk!Barriers, Barriers, Bulk!Deferred, Deferred, Bulk!WritesTo, WritesTo,
             Bulk!Writes, Writes, Bulk!Outcomes, Outcomes, Bulk!Values, Values,
             Bulk!NodeOf, NodeOf

\* Deferred channels that wait for the end.
Waiting(k) == {c \in Deferred : IsFull(c, k.chan[c]) /\ ~k.chan[c].fin}

\* The parts of Bulk!After(Abstract(k), w).
Used(k) == UNION {Triggers[n] : n \in {m \in Nodes : IsTriggered(k, m)}}
Came(k, w) ==
    [c \in Barriers |->
        (IF c \in Used(k) /\ k.chan[c].got = Names[c] /\ c \notin Waiting(k) THEN {}
         ELSE k.chan[c].got) \cup w[c]]
StillWaiting(k, w) ==
    Waiting(k) \cup {c \in Deferred : IF c \in Barriers THEN Came(k, w)[c] = Names[c]
                                      ELSE w[c] # {}}
Hit(k, w, c) ==
    /\ c \notin Deferred
    /\ IF c \in Barriers THEN Came(k, w)[c] = Names[c] ELSE w[c] # {}
HitNodes(k, w) == {n \in Nodes : \E c \in Triggers[n] : Hit(k, w, c)}

LEMMA AbstractForm ==
    ASSUME NEW k
    PROVE  /\ Abstract(k) = [run   |-> {n \in Nodes : IsTriggered(k, n)},
                             sends |-> k.chan[TASKS].got,
                             wait  |-> Waiting(k),
                             came  |-> [c \in Barriers |-> k.chan[c].got]]
           /\ Abstract(k).run = {n \in Nodes : IsTriggered(k, n)}
           /\ Abstract(k).sends = k.chan[TASKS].got
           /\ Abstract(k).wait = Waiting(k)
           /\ Abstract(k).came = [c \in Barriers |-> k.chan[c].got]
BY DEF Abstract, Waiting

LEMMA AfterForm ==
    ASSUME NEW k, NEW w
    PROVE  Bulk!After(Abstract(k), w) =
               IF HitNodes(k, w) = {} /\ w[TASKS] = {}
               THEN [run   |-> {n \in Nodes : Triggers[n] \cap StillWaiting(k, w) # {}},
                     sends |-> {}, wait |-> {}, came |-> Came(k, w)]
               ELSE [run   |-> HitNodes(k, w), sends |-> w[TASKS],
                     wait  |-> StillWaiting(k, w), came |-> Came(k, w)]
<1> DEFINE s    == Abstract(k)
           came == [c \in Barriers |->
                       (IF /\ c \in UNION {Triggers[n] : n \in s.run}
                           /\ s.came[c] = Names[c] /\ c \notin s.wait
                        THEN {} ELSE s.came[c]) \cup w[c]]
           wait == s.wait \cup {c \in Deferred : IF c \in Barriers THEN came[c] = Names[c]
                                                 ELSE w[c] # {}}
           hit  == {n \in Nodes : \E c \in Triggers[n] :
                       /\ c \notin Deferred
                       /\ IF c \in Barriers THEN came[c] = Names[c] ELSE w[c] # {}}
<1>1. Bulk!After(s, w) =
          IF hit = {} /\ w[TASKS] = {}
          THEN [run |-> {n \in Nodes : Triggers[n] \cap wait # {}},
                sends |-> {}, wait |-> {}, came |-> came]
          ELSE [run |-> hit, sends |-> w[TASKS], wait |-> wait, came |-> came]
    BY Zenon DEF Bulk!After, Bulk!Barriers, Barriers, Bulk!Deferred, Deferred
<1>2. /\ s.run = {n \in Nodes : IsTriggered(k, n)} /\ s.wait = Waiting(k)
      /\ s.came = [c \in Barriers |-> k.chan[c].got]
    BY AbstractForm
<1>3. \A c \in Barriers : s.came[c] = k.chan[c].got
    BY <1>2
<1> HIDE DEF s
<1>4. UNION {Triggers[n] : n \in s.run} = Used(k)
    BY <1>2, Zenon DEF Used
<1>5. \A c \in Barriers : came[c] = Came(k, w)[c]
    BY <1>2, <1>3, <1>4 DEF Came
<1>6. came = Came(k, w)
    BY <1>5 DEF Came
<1>7. wait = StillWaiting(k, w)
    BY <1>2, <1>6, Zenon DEF StillWaiting
<1>8. hit = HitNodes(k, w)
    BY <1>6, Zenon DEF HitNodes, Hit
<1> HIDE DEF came, wait, hit
<1> QED
    BY <1>1, <1>6, <1>7, <1>8, Zenon DEF s

-----------------------------------------------------------------------------
(* apply_writes is a superstep of BulkSynchronous.                         *)

\* A checkpoint, what its tasks write, and what holds of them.
StepOf(k, w) ==
    /\ Sound(k) /\ Fins(k)
    /\ \A c \in Chans : w[c] \in SUBSET Values(c)
    /\ Deferred \subseteq TriggerChans

LEMMA ReadIsUsed ==
    ASSUME NEW k, NEW w, StepOf(k, w), NEW c \in Chans
    PROVE  /\ Consumed(k, DiscardTasks(k))[c] =
                  IF c \in Used(k) THEN Consume(c, k.chan[c]) ELSE k.chan[c]
           /\ c \in Held /\ c \in TriggerChans /\ IsAvailable(c, k.chan[c]) => c \in Used(k)
<1> DEFINE ts == DiscardTasks(k)
<1>1. k.chan[TASKS].got \subseteq Packets
    <2>1. TASKS \in Chans /\ k.chan[TASKS] \in State(TASKS)
        BY TypedParts, GraphAssumption DEF StepOf, Sound
    <2> QED
        BY <2>1, Kinds DEF State, Values
<1>2. ts \cap Nodes = {m \in Nodes : IsTriggered(k, m)}
    BY <1>1, GraphAssumption DEF DiscardTasks
<1>3. UNION {Triggers[n] : n \in ts \cap Nodes} = Used(k)
    BY <1>2, Zenon DEF Used
<1>4. Consumed(k, ts)[c] = IF c \in UNION {Triggers[n] : n \in ts \cap Nodes}
                           THEN Consume(c, k.chan[c]) ELSE k.chan[c]
    BY DEF Consumed
<1>5. ASSUME c \in Held, c \in TriggerChans, IsAvailable(c, k.chan[c])
      PROVE  c \in Used(k)
    <2>1. PICK n \in Nodes : c \in Triggers[n]
        BY <1>5 DEF TriggerChans
    <2>2. IsTriggered(k, n)
        BY <1>5, <2>1 DEF StepOf, Sound, Fresh, IsTriggered
    <2> QED
        BY <2>1, <2>2 DEF Used
<1> HIDE DEF ts
<1> QED
    BY <1>3, <1>4, <1>5 DEF ts

\* What arrives at a join.
LEMMA BarrierStages ==
    ASSUME NEW k, NEW w, StepOf(k, w), NEW ts, ts = DiscardTasks(k), NEW c \in Barriers
    PROVE  /\ Consumed(k, ts)[c].got \cup w[c] = Came(k, w)[c]
           /\ Written(k, ts, w)[c].got = Came(k, w)[c]
           /\ Notified(k, ts, w)[c].got = Came(k, w)[c]
           /\ Ended(k, ts, w)[c].got = Came(k, w)[c]
<1> DEFINE s0 == k.chan[c]
           s1 == Consumed(k, ts)[c]
           s2 == Written(k, ts, w)[c]
           s3 == Notified(k, ts, w)[c]
<1>1. c \in Chans /\ c \in Held /\ w[c] \in SUBSET Values(c)
      /\ {} \in SUBSET Values(c) /\ s0 \in State(c)
    BY TypedParts DEF Barriers, Held, StepOf, Sound
<1>2. IsAvailable(c, s0) <=> s0.got = Names[c] /\ c \notin Waiting(k)
    BY <1>1 DEF IsAvailable, IsFull, Waiting
<1>3. s1 = IF c \in Used(k) THEN Consume(c, s0) ELSE s0
    BY <1>1, ReadIsUsed
<1>4. Consume(c, s0) = IF IsAvailable(c, s0) THEN Empty ELSE s0
    BY DEF Consume
<1>5. s1.got = IF c \in Used(k) /\ s0.got = Names[c] /\ c \notin Waiting(k) THEN {}
               ELSE s0.got
    BY <1>2, <1>3, <1>4 DEF Empty
<1>6. s1.got \cup w[c] = Came(k, w)[c]
    BY <1>5 DEF Came
<1>7. s1 \in State(c)
    BY <1>1, <1>3, ConsumeState
<1> HIDE DEF s0, s1
<1>8. s2 = IF w[c] # {} THEN Update(c, s1, w[c]) ELSE s1
    BY <1>1 DEF Written, s1
<1>9. Update(c, s1, w[c]) = [got |-> s1.got \cup w[c], fin |-> s1.fin]
    BY <1>1, <1>7, UpdateCases
<1>10. s2.got = Came(k, w)[c] /\ s2 \in State(c)
    BY <1>1, <1>6, <1>7, <1>8, <1>9, UpdateState
<1> HIDE DEF s2
<1>11. s3 = s2 \/ s3 = Update(c, s2, {})
    BY <1>1 DEF Notified, s2
<1>12. Update(c, s2, {}) = [got |-> s2.got \cup {}, fin |-> s2.fin]
    BY <1>1, <1>10, UpdateCases
<1>13. s3.got = Came(k, w)[c] /\ s3 \in State(c)
    BY <1>1, <1>10, <1>11, <1>12, UpdateState
<1> HIDE DEF s3
<1>14. Ended(k, ts, w)[c] \in {s3, Finish(c, s3)}
    BY <1>1 DEF Ended, s3
<1>15. Ended(k, ts, w)[c].got = Came(k, w)[c]
    BY <1>1, <1>13, <1>14, FinishState
<1> QED
    BY <1>6, <1>10, <1>13, <1>15 DEF s1, s2, s3

\* A deferred channel: it is filled before the end, finished at the end.
LEMMA DeferredStages ==
    ASSUME NEW k, NEW w, StepOf(k, w), NEW ts, ts = DiscardTasks(k), NEW c \in Deferred
    PROVE  /\ c \in Chans /\ c \notin Rewritten(k, ts, w)
           /\ IsFull(c, Notified(k, ts, w)[c]) <=> c \in StillWaiting(k, w)
           /\ IsFull(c, Ended(k, ts, w)[c]) <=> c \in StillWaiting(k, w)
           /\ c \in StillWaiting(k, w) => ~Notified(k, ts, w)[c].fin
           /\ Ended(k, ts, w)[c] # Notified(k, ts, w)[c] <=>
                  Ending(k, ts, w) /\ c \in StillWaiting(k, w)
           /\ Ending(k, ts, w) /\ c \in StillWaiting(k, w) =>
                  Ended(k, ts, w)[c].fin /\ IsAvailable(c, Ended(k, ts, w)[c])
<1> DEFINE s0 == k.chan[c]
           s1 == Consumed(k, ts)[c]
           s2 == Written(k, ts, w)[c]
           s3 == Notified(k, ts, w)[c]
           s4 == Ended(k, ts, w)[c]
<1>1. c \in Chans /\ c \in Held /\ c \in TriggerChans /\ w[c] \in SUBSET Values(c)
      /\ s0 \in State(c) /\ (c \in Barriers => (s0.fin => s0.got = Names[c]))
    BY TypedParts DEF Deferred, Held, StepOf, Sound, Fins
<1>2. s1 = IF c \in Used(k) THEN Consume(c, s0) ELSE s0
    BY <1>1, ReadIsUsed
<1>3. IsAvailable(c, s0) => c \in Used(k)
    BY <1>1, ReadIsUsed
<1>4. s1 = (IF IsAvailable(c, s0) THEN Empty ELSE s0) /\ ~IsAvailable(c, s1) /\ s1 \in State(c)
    BY <1>1, <1>2, <1>3, EmptyState DEF Consume
<1>5. c \in Waiting(k) <=> IsFull(c, s0) /\ ~s0.fin
    BY DEF Waiting
<1>6. \A s : IsAvailable(c, s) <=> IsFull(c, s) /\ s.fin
    BY DEF IsAvailable
<1>7. s0.fin \in BOOLEAN /\ s1.fin \in BOOLEAN
    BY <1>1, <1>4 DEF State
<1>8. IsFull(c, s1) <=> c \in Waiting(k)
    BY <1>1, <1>4, <1>5, <1>6, EmptyState
<1>9. c \in Barriers /\ s1.fin => s1.got = Names[c]
    BY <1>1, <1>4 DEF Empty
<1> HIDE DEF s0, s1
<1>10. s2 = IF w[c] # {} THEN Update(c, s1, w[c]) ELSE s1
    BY <1>1 DEF Written, s1
<1>11. ASSUME c \in Barriers
       PROVE  /\ IsFull(c, s2) <=> c \in StillWaiting(k, w)
              /\ IsFull(c, s2) => s2.fin = FALSE
    <2> HIDE DEF s2
    <2>1. s1.fin = FALSE
        BY <1>4, <1>6, <1>7, <1>9, <1>11 DEF IsFull
    <2>2. s2.fin = FALSE
        <3>1. Update(c, s1, w[c]) = [got |-> s1.got \cup w[c], fin |-> s1.fin]
            BY <1>1, <1>4, <1>11, UpdateCases
        <3> QED
            BY <1>10, <2>1, <3>1
    <2>3. IsFull(c, s2) <=> Came(k, w)[c] = Names[c]
        BY <1>11, BarrierStages DEF IsFull, s2
    <2>4. c \in Waiting(k) => Came(k, w)[c] = Names[c]
        <3>1. w[c] \subseteq Names[c]
            BY <1>1, <1>11, Kinds
        <3>2. c \in Waiting(k) => s1.got = Names[c]
            BY <1>8, <1>11 DEF IsFull
        <3>3. s1.got \cup w[c] = Came(k, w)[c]
            BY <1>11, BarrierStages DEF s1
        <3> QED
            BY <3>1, <3>2, <3>3
    <2>5. c \in StillWaiting(k, w) <=> Came(k, w)[c] = Names[c]
        BY <1>11, <2>4 DEF StillWaiting
    <2>6. IsFull(c, s2) <=> c \in StillWaiting(k, w)
        BY <2>3, <2>5
    <2> QED
        BY <2>2, <2>6
<1>12. ASSUME c \notin Barriers
       PROVE  /\ IsFull(c, s2) <=> c \in StillWaiting(k, w)
              /\ IsFull(c, s2) => s2.fin = FALSE
    <2> HIDE DEF s2
    <2>1. Kind[c] = "last after finish"
        BY <1>1, <1>12, Kinds
    <2>2. \A s : IsFull(c, s) <=> s.got # {}
        BY <1>12 DEF IsFull
    <2>3. w[c] # {} => s2 = [got |-> w[c], fin |-> FALSE]
        BY <1>1, <1>4, <1>10, <2>1, UpdateCases
    <2>4. c \in StillWaiting(k, w) <=> c \in Waiting(k) \/ w[c] # {}
        BY <1>12 DEF StillWaiting
    <2>5. w[c] = {} => s2 = s1
        BY <1>10
    <2>6. IsFull(c, s2) <=> c \in StillWaiting(k, w)
        BY <1>8, <2>2, <2>3, <2>4, <2>5
    <2>7. IsFull(c, s2) => s2.fin = FALSE
        BY <1>4, <1>6, <1>7, <2>3, <2>5
    <2> QED
        BY <2>6, <2>7
<1>13. (IsFull(c, s2) <=> c \in StillWaiting(k, w)) /\ (IsFull(c, s2) => s2.fin = FALSE)
    BY <1>11, <1>12
<1>14. ~IsAvailable(c, s2)
    BY <1>6, <1>13
<1>15. c \notin Rewritten(k, ts, w) /\ s3 = s2
    BY <1>1, <1>14 DEF Rewritten, Notified
<1>16. s3 \in State(c)
    BY <1>1, <1>4, <1>10, <1>15, UpdateState
<1>17. s4 = IF Ending(k, ts, w) THEN Finish(c, s3) ELSE s3
    BY <1>1 DEF Ended
<1>18. Finish(c, s3) = IF IsFull(c, s3) THEN [s3 EXCEPT !.fin = TRUE] ELSE s3
    BY DEF Finish
<1> HIDE DEF s2, s3, s4
<1>19. IsFull(c, s3) => /\ [s3 EXCEPT !.fin = TRUE].fin = TRUE
                        /\ [s3 EXCEPT !.fin = TRUE].got = s3.got
    BY <1>16 DEF State
<1>20. /\ IsFull(c, s3) <=> c \in StillWaiting(k, w)
       /\ IsFull(c, s3) => s3.fin = FALSE
    BY <1>13, <1>15
<1>21. /\ ~Ending(k, ts, w) \/ ~IsFull(c, s3) => s4 = s3
       /\ Ending(k, ts, w) /\ IsFull(c, s3) => s4.fin = TRUE /\ s4.got = s3.got
    BY <1>17, <1>18, <1>19
<1>22. Ending(k, ts, w) /\ IsFull(c, s3) => IsFull(c, s4) /\ IsAvailable(c, s4) /\ s4 # s3
    BY <1>6, <1>20, <1>21 DEF IsFull
<1> QED
    BY <1>1, <1>15, <1>20, <1>21, <1>22 DEF s3, s4

\* Any other channel that triggers nodes.
LEMMA OtherStages ==
    ASSUME NEW k, NEW w, StepOf(k, w), NEW ts, ts = DiscardTasks(k), NEW c \in Chans \ Deferred
    PROVE  /\ Ended(k, ts, w)[c] = Notified(k, ts, w)[c]
           /\ c \in TriggerChans => (c \in Rewritten(k, ts, w) <=> Hit(k, w, c))
<1> DEFINE s0 == k.chan[c]
           s1 == Consumed(k, ts)[c]
           s2 == Written(k, ts, w)[c]
<1>1. w[c] \in SUBSET Values(c) /\ s0 \in State(c)
    BY TypedParts DEF StepOf, Sound
<1>2. Ended(k, ts, w)[c] = Notified(k, ts, w)[c]
    BY DEF Ended, Finish
<1>3. s1 = IF c \in Used(k) THEN Consume(c, s0) ELSE s0
    BY ReadIsUsed
<1>4. s1 \in State(c)
    BY <1>1, <1>3, ConsumeState
<1>5. \A s : IsAvailable(c, s) <=> IsFull(c, s)
    BY DEF IsAvailable
<1>6. c \in Rewritten(k, ts, w) <=> w[c] # {} /\ Updates(c, s1, w[c]) /\ IsFull(c, s2)
    BY <1>5 DEF Rewritten
<1>7. w[c] # {} => s2 = Update(c, s1, w[c])
    BY DEF Written
<1>8. ASSUME c \in Barriers, c \in TriggerChans
      PROVE  c \in Rewritten(k, ts, w) <=> Hit(k, w, c)
    <2>1. s1.got # Names[c]
        <3>1. CASE IsAvailable(c, s0)
            <4>1. s1 = Empty
                BY <1>3, <1>8, <3>1, ReadIsUsed DEF Consume, Held
            <4>2. Names[c] # {} /\ Empty.got = {}
                BY <1>8, Kinds DEF Empty
            <4> HIDE DEF s1
            <4> QED
                BY <4>1, <4>2
        <3>2. CASE ~IsAvailable(c, s0)
            BY <1>3, <1>5, <1>8, <3>2 DEF Consume, IsFull
        <3> QED
            BY <3>1, <3>2
    <2>2. IsFull(c, s2) <=> Came(k, w)[c] = Names[c]
        BY <1>8, BarrierStages DEF IsFull
    <2>3. s1.got \cup w[c] = Came(k, w)[c]
        BY <1>8, BarrierStages
    <2>4. Updates(c, s1, w[c]) <=> ~(w[c] \subseteq s1.got)
        BY <1>1, <1>4, <1>8, UpdatesCases
    <2>5. Hit(k, w, c) <=> Came(k, w)[c] = Names[c]
        BY <1>8 DEF Hit
    <2> HIDE DEF s1, s2
    <2> QED
        BY <1>6, <2>1, <2>2, <2>3, <2>4, <2>5
<1>9. ASSUME c \notin Barriers
      PROVE  c \in Rewritten(k, ts, w) <=> Hit(k, w, c)
    <2>1. Kind[c] \in {"ephemeral", "topic", "last"}
        BY <1>9, Kinds
    <2>2. w[c] # {} => Updates(c, s1, w[c])
        BY <1>1, <1>4, <1>9, <2>1, UpdatesCases
    <2> HIDE DEF s1, s2
    <2>3. w[c] # {} => Update(c, s1, w[c]).got = w[c]
        <3>1. w[c] # {} => Update(c, s1, w[c]) = [got |-> w[c], fin |-> s1.fin]
            BY <1>1, <1>4, <2>1, UpdateCases
        <3> QED
            BY <3>1
    <2>4. IsFull(c, s2) <=> s2.got # {}
        BY <1>9 DEF IsFull
    <2>5. Hit(k, w, c) <=> w[c] # {}
        BY <1>9 DEF Hit
    <2> QED
        BY <1>6, <1>7, <2>2, <2>3, <2>4, <2>5
<1> QED
    BY <1>2, <1>8, <1>9

LEMMA SendsAfter ==
    ASSUME NEW k, NEW w, StepOf(k, w), NEW ts, ts = DiscardTasks(k)
    PROVE  Ended(k, ts, w)[TASKS].got = w[TASKS]
<1> DEFINE s0 == k.chan[TASKS]
           s1 == Consumed(k, ts)[TASKS]
           s2 == Written(k, ts, w)[TASKS]
           s3 == Notified(k, ts, w)[TASKS]
<1>1. /\ TASKS \in Chans \ Deferred /\ TASKS \notin Barriers /\ Kind[TASKS] = "topic"
      /\ w[TASKS] \in SUBSET Values(TASKS) /\ {} \in SUBSET Values(TASKS) /\ s0 \in State(TASKS)
    <2>1. TASKS \in Chans
        BY GraphAssumption
    <2>2. TASKS \notin Deferred /\ TASKS \notin Barriers /\ Kind[TASKS] = "topic"
        BY <2>1, Kinds
    <2>3. w[TASKS] \in SUBSET Values(TASKS)
        BY <2>1 DEF StepOf
    <2>4. Typed(k)
        BY DEF StepOf, Sound
    <2>5. s0 \in State(TASKS)
        BY <2>1, <2>4, TypedParts
    <2> HIDE DEF s0
    <2> QED
        BY <2>1, <2>2, <2>3, <2>5
<1>2. TASKS \notin Used(k)
    <2>1. \A n \in Nodes : TASKS \notin Triggers[n]
        BY GraphAssumption
    <2> QED
        BY <2>1 DEF Used
<1>3. s1 = s0
    BY <1>1, <1>2, ReadIsUsed
<1>4. \A s : IsAvailable(TASKS, s) <=> s.got # {}
    BY <1>1 DEF IsAvailable, IsFull
<1>5. /\ s2 = IF w[TASKS] # {} THEN Update(TASKS, s0, w[TASKS]) ELSE s0
      /\ TASKS \in Rewritten(k, ts, w) <=>
             w[TASKS] # {} /\ Updates(TASKS, s0, w[TASKS]) /\ s2.got # {}
    BY <1>1, <1>3, <1>4 DEF Written, Rewritten
<1>6. s3 = IF ts # {} /\ s2.got # {} /\ TASKS \notin Rewritten(k, ts, w)
           THEN Update(TASKS, s2, {}) ELSE s2
    BY <1>1, <1>4 DEF Notified
<1>7. Ended(k, ts, w)[TASKS] = s3
    BY <1>1, OtherStages
<1>8. ts = {} => s0.got = {}
    BY DEF DiscardTasks
<1> HIDE DEF s0, s1, s2, s3
<1>9. \A vals \in SUBSET Values(TASKS) :
          Update(TASKS, s0, vals) = [got |-> vals, fin |-> s0.fin]
    BY <1>1, UpdateCases
<1>10. \A vals \in SUBSET Values(TASKS) : Update(TASKS, s0, vals).got = vals
    BY <1>9
<1>11. CASE w[TASKS] # {}
    <2>1. s2.got = w[TASKS] /\ Updates(TASKS, s0, w[TASKS])
        BY <1>1, <1>5, <1>10, <1>11, UpdatesCases
    <2> QED
        BY <1>5, <1>6, <1>7, <1>11, <2>1
<1>12. CASE w[TASKS] = {}
    <2>1. s2 = s0 /\ TASKS \notin Rewritten(k, ts, w)
        BY <1>5, <1>12
    <2> QED
        BY <1>1, <1>6, <1>7, <1>8, <1>10, <1>12, <2>1
<1> QED
    BY <1>11, <1>12

\* What apply_writes makes of a checkpoint, given the writes of all the tasks it
\* owes, is what BulkSynchronous makes of the state it stands for.
LEMMA AfterApply ==
    ASSUME NEW k, NEW w, StepOf(k, w), Deferred = {} \/ Packets = {},
           NEW ts, ts = DiscardTasks(k),
           ts = {} => \A c \in Deferred : ~IsFull(c, k.chan[c]) /\ w[c] = {},
           NEW k2, k2 = ApplyWrites(k, ts, w)
    PROVE  Abstract(k2) = Bulk!After(Abstract(k), w)
<1> DEFINE SW == StillWaiting(k, w)
           RW == Rewritten(k, ts, w)
           end == Ending(k, ts, w)
<1>1. /\ Typed(k) /\ (\A c \in Chans : w[c] \in SUBSET Values(c))
      /\ k2.chan = Ended(k, ts, w)
    BY ApplyWritesParts DEF StepOf, Sound
<1>2. [c \in Barriers |-> k2.chan[c].got] = Came(k, w)
    <2>1. \A c \in Barriers : k2.chan[c].got = Came(k, w)[c]
        BY <1>1, BarrierStages
    <2> QED
        BY <2>1 DEF Came
<1>3. k2.chan[TASKS].got = w[TASKS]
    <2>1. Ended(k, ts, w)[TASKS].got = w[TASKS]
        BY SendsAfter
    <2> QED
        BY <1>1, <2>1
<1>4. \A n \in Nodes : Triggers[n] \subseteq Chans /\ Triggers[n] \subseteq TriggerChans
    <2>1. \A n \in Nodes : Triggers[n] \subseteq Chans
        BY GraphAssumption
    <2>2. \A n \in Nodes : Triggers[n] \subseteq TriggerChans
        BY DEF TriggerChans
    <2> QED
        BY <2>1, <2>2
<1>5. {n \in Nodes : IsTriggered(k2, n)} =
          {n \in Nodes : Triggers[n] \cap Announced(k, ts, w) # {}}
    <2>1. ASSUME NEW n \in Nodes, IsTriggered(k2, n)
          PROVE  Triggers[n] \cap Announced(k, ts, w) # {}
        <3>1. PICK c \in Triggers[n] : Triggered(k2, c, n)
            BY <2>1 DEF IsTriggered
        <3>2. \A m \in Nodes : IsTriggered(k, m) => m \in ts
            BY DEF DiscardTasks
        <3>3. c \in Announced(k, ts, w)
            BY <1>1, <3>1, <3>2, TriggersAnnounced
        <3> QED
            BY <3>1, <3>3
    <2>2. ASSUME NEW n \in Nodes, Triggers[n] \cap Announced(k, ts, w) # {}
          PROVE  IsTriggered(k2, n)
        BY <1>1, <2>2, AnnouncedTriggers DEF IsTriggered
    <2> QED
        BY <2>1, <2>2
<1>6. \A c \in Chans :
          /\ c \in Deferred => c \notin RW /\ ~Hit(k, w, c)
          /\ c \in TriggerChans => (c \in RW <=> Hit(k, w, c))
    <2>1. \A c \in Deferred : c \notin RW /\ ~Hit(k, w, c)
        BY DeferredStages DEF Hit
    <2> QED
        BY <2>1, OtherStages
<1>7. HitNodes(k, w) = {n \in Nodes : Triggers[n] \cap RW # {}}
    BY <1>4, <1>6 DEF HitNodes
<1>8. \A c \in Chans : c \in Announced(k, ts, w) <=> c \in RW \/ (end /\ c \in SW)
    <2>1. \A c \in Deferred : c \in Announced(k, ts, w) <=> c \in RW \/ (end /\ c \in SW)
        BY DeferredStages DEF Announced
    <2>2. SW \subseteq Deferred
        BY DEF StillWaiting, Waiting
    <2>3. \A c \in Chans \ Deferred : c \in Announced(k, ts, w) <=> c \in RW
        BY OtherStages DEF Announced
    <2> QED
        BY <2>1, <2>2, <2>3
<1>9. Waiting(k2) = IF end THEN {} ELSE SW
    <2>1. SW \subseteq Deferred
        BY DEF StillWaiting, Waiting
    <2>2. \A c \in Deferred : /\ IsFull(c, k2.chan[c]) <=> c \in SW
                              /\ end /\ c \in SW => k2.chan[c].fin
                              /\ ~end /\ c \in SW => ~k2.chan[c].fin
        BY <1>1, DeferredStages
    <2> HIDE DEF SW, end
    <2> QED
        BY <2>1, <2>2 DEF Waiting
<1>10. HitNodes(k, w) = {} <=> RW \cap TriggerChans = {}
    BY <1>7 DEF TriggerChans
<1>11. end <=> ts # {} /\ RW \cap TriggerChans = {}
    BY DEF Ending, LastStep
<1>12. w[TASKS] # {} => Deferred = {}
    <2>1. Values(TASKS) = Packets
        BY Kinds, GraphAssumption DEF Values
    <2> QED
        BY <1>1, <2>1, GraphAssumption
<1>13. SW \subseteq Deferred
    BY DEF StillWaiting, Waiting
<1>14. ts = {} => SW = {}
    <2> SUFFICES ASSUME ts = {}, NEW c \in SW PROVE FALSE
        OBVIOUS
    <2>1. c \in Deferred /\ w[c] = {} /\ ~IsFull(c, k.chan[c]) /\ c \notin Waiting(k)
        BY <1>13 DEF Waiting
    <2>2. c \in Barriers /\ Came(k, w)[c] = Names[c]
        BY <2>1 DEF StillWaiting
    <2>3. k.chan[c].got # Names[c]
        BY <2>1, <2>2 DEF IsFull
    <2>4. Came(k, w)[c] = k.chan[c].got \cup w[c]
        BY <2>2, <2>3 DEF Came
    <2> QED
        BY <2>1, <2>2, <2>3, <2>4
<1>15. Abstract(k2) = [run   |-> {n \in Nodes : Triggers[n] \cap Announced(k, ts, w) # {}},
                       sends |-> w[TASKS], wait |-> Waiting(k2), came |-> Came(k, w)]
    BY <1>2, <1>3, <1>5, AbstractForm
<1> HIDE DEF SW, RW, end
<1>16. CASE end
    <2>1. HitNodes(k, w) = {} /\ Waiting(k2) = {}
        BY <1>9, <1>10, <1>11, <1>16
    <2>2. {n \in Nodes : Triggers[n] \cap Announced(k, ts, w) # {}} =
              {n \in Nodes : Triggers[n] \cap SW # {}}
        BY <1>4, <1>7, <1>8, <1>16, <2>1
    <2>3. CASE w[TASKS] = {}
        BY <1>15, <2>1, <2>2, <2>3, AfterForm, Zenon DEF SW
    <2>4. CASE w[TASKS] # {}
        <3>1. SW = {} /\ {n \in Nodes : Triggers[n] \cap SW # {}} = {}
            BY <1>12, <1>13, <2>4
        <3> QED
            BY <1>15, <2>1, <2>2, <2>4, <3>1, AfterForm, Zenon DEF SW
    <2> QED
        BY <2>3, <2>4
<1>17. CASE ~end
    <2>1. {n \in Nodes : Triggers[n] \cap Announced(k, ts, w) # {}} = HitNodes(k, w)
        BY <1>4, <1>7, <1>8, <1>17
    <2>2. Waiting(k2) = SW
        BY <1>9, <1>17
    <2>3. CASE HitNodes(k, w) = {} /\ w[TASKS] = {}
        <3>1. SW = {} /\ {n \in Nodes : Triggers[n] \cap SW # {}} = {}
            BY <1>10, <1>11, <1>14, <1>17, <2>3
        <3> QED
            BY <1>15, <2>1, <2>2, <2>3, <3>1, AfterForm, Zenon DEF SW
    <2>4. CASE ~(HitNodes(k, w) = {} /\ w[TASKS] = {})
        BY <1>15, <2>1, <2>2, <2>4, AfterForm, Zenon DEF SW
    <2> QED
        BY <2>3, <2>4
<1> QED
    BY <1>16, <1>17

-----------------------------------------------------------------------------
(* Commands.                                                               *)


LEMMA SendsType ==
    ASSUME NEW k, Typed(k)
    PROVE  k.chan[TASKS].got \subseteq Packets
<1>1. TASKS \in Chans
    BY GraphAssumption
<1>2. Values(TASKS) = Packets
    BY <1>1, Kinds DEF Values
<1>3. k.chan[TASKS] \in State(TASKS)
    BY <1>1, TypedParts
<1> QED
    BY <1>2, <1>3 DEF State
\* What the writes of a Command make of channels.
LEMMA NullsStages ==
    ASSUME NEW k, Typed(k), NEW cs \in SUBSET (Chans \ Barriers), cs # {},
           NEW k2, k2 = ApplyNulls(k, cs), NEW c \in Chans
    PROVE  /\ c \notin cs \/ Values(c) = {} => k2.chan[c] = k.chan[c]
           /\ c \in cs /\ Values(c) # {} => k2.chan[c] = Update(c, k.chan[c], Values(c))
           /\ c \in cs /\ Values(c) # {} /\ IsAvailable(c, k2.chan[c]) =>
                  \A n \in Nodes : Triggered(k2, c, n)
<1> DEFINE w == WritesTo(cs)
           k1 == ApplyWrites(k, {}, w)
<1>1. \A d \in Chans : w[d] \in SUBSET Values(d)
    BY WritesType
<1>2. w[c] = IF c \in cs THEN Values(c) ELSE {}
    BY DEF WritesTo
<1>3. Typed(k1) /\ k1.chan[c] = Ended(k, {}, w)[c]
    BY <1>1, ApplyWritesParts
<1>4. /\ Ended(k, {}, w)[c] = IF w[c] # {} THEN Update(c, k.chan[c], w[c]) ELSE k.chan[c]
      /\ c \in Changed(k, {}, w) <=> w[c] # {} /\ Updates(c, k.chan[c], w[c])
    BY NoTasks
<1>5. k2 = [k1 EXCEPT !.updated = IF k.updated = {} THEN {} ELSE k.updated \cup k1.updated]
    BY Zenon DEF ApplyNulls
<1>6. k1 \in Checkpoint
    BY <1>3 DEF Typed
<1>7. c \in cs /\ w[c] # {} => Updates(c, k.chan[c], w[c])
    BY UpdatesCases
<1>8. c \in Changed(k, {}, w) /\ IsAvailable(c, k1.chan[c]) =>
          \A n \in Nodes : Triggered(k1, c, n)
    BY <1>1, ChangedIsNew
<1> HIDE DEF k1, w
<1>9. k2.chan = k1.chan /\ k2.versions = k1.versions /\ k2.seen = k1.seen
    BY <1>5, <1>6 DEF Checkpoint
<1>10. \A n \in Nodes : Triggered(k2, c, n) = Triggered(k1, c, n)
    BY <1>9 DEF Triggered
<1>11. k2.chan[c] = k1.chan[c]
    BY <1>9
<1>12. c \in cs /\ Values(c) # {} /\ IsAvailable(c, k2.chan[c]) =>
           \A n \in Nodes : Triggered(k2, c, n)
    BY <1>2, <1>4, <1>7, <1>8, <1>10, <1>11
<1> QED
    BY <1>2, <1>3, <1>4, <1>11, <1>12

LEMMA NullsTrigger ==
    ASSUME NEW k, Typed(k), NEW cs \in SUBSET (Chans \ Barriers), cs \cap Deferred = {},
           NEW k2, k2 = ApplyNulls(k, cs), NEW n \in Nodes
    PROVE  IsTriggered(k2, n) <=> IsTriggered(k, n) \/ Triggers[n] \cap cs # {}
<1>1. ASSUME IsTriggered(k2, n)
      PROVE  IsTriggered(k, n) \/ Triggers[n] \cap cs # {}
    <2>1. n \in DiscardTasks(k2) /\ n \notin Packets
        BY <1>1, GraphAssumption DEF DiscardTasks
    <2>2. n \in DiscardTasks(k) \/ Triggers[n] \cap cs # {}
        BY <2>1, NullsAdd
    <2>3. k.chan[TASKS].got \subseteq Packets
        BY SendsType
    <2> QED
        BY <2>1, <2>2, <2>3 DEF DiscardTasks
<1>2. ASSUME IsTriggered(k, n)
      PROVE  IsTriggered(k2, n)
    <2>1. n \in DiscardTasks(k) /\ n \notin Packets
        BY <1>2, GraphAssumption DEF DiscardTasks
    <2>2. n \in DiscardTasks(k2)
        BY <2>1, NullsKeep
    <2>3. Typed(k2)
        BY NullsParts
    <2>4. k2.chan[TASKS].got \subseteq Packets
        BY <2>3, SendsType
    <2> QED
        BY <2>1, <2>2, <2>4 DEF DiscardTasks
<1>3. ASSUME Triggers[n] \cap cs # {}
      PROVE  IsTriggered(k2, n)
    <2>1. PICK c \in Triggers[n] : c \in cs
        BY <1>3
    <2>2. c \in Chans /\ c # TASKS /\ c \notin Barriers /\ c \notin Deferred
        BY <2>1, GraphAssumption
    <2>3. Values(c) = {Value}
        BY <2>2 DEF Values
    <2>4. k2.chan[c] = Update(c, k.chan[c], {Value})
        <3>1. cs # {} /\ Values(c) # {}
            BY <2>1, <2>3
        <3>2. k2.chan[c] = Update(c, k.chan[c], Values(c))
            BY <2>1, <2>2, <3>1, NullsStages
        <3> QED
            BY <2>3, <3>2
    <2>5. Kind[c] \in {"ephemeral", "last"} /\ k.chan[c] \in State(c)
        BY <2>2, Kinds, TypedParts
    <2>6. Update(c, k.chan[c], {Value}) = [got |-> {Value}, fin |-> k.chan[c].fin]
        BY <2>2, <2>3, <2>5, UpdateCases
    <2>7. IsAvailable(c, k2.chan[c])
        BY <2>2, <2>4, <2>6 DEF IsAvailable, IsFull
    <2>8. Triggered(k2, c, n)
        BY <2>1, <2>2, <2>3, <2>7, NullsStages
    <2> QED
        BY <2>1, <2>8 DEF IsTriggered
<1> QED
    BY <1>1, <1>2, <1>3

\* A state with its parts changed as by a Command.
LEMMA CommandedParts ==
    ASSUME NEW run, NEW sends, NEW wait, NEW came, NEW more, NEW cs, NEW late,
           NEW s, s = [run |-> run, sends |-> sends, wait |-> wait, came |-> came],
           NEW s2, s2 = [s EXCEPT !.run   = @ \cup more,
                                  !.sends = IF TASKS \in cs THEN Packets ELSE @,
                                  !.wait  = @ \cup late]
    PROVE  s2 = [run |-> run \cup more, sends |-> IF TASKS \in cs THEN Packets ELSE sends,
                 wait |-> wait \cup late, came |-> came]
<1> DEFINE S2 == IF TASKS \in cs THEN Packets ELSE sends
<1>1. s \in [run : {run}, sends : {sends}, wait : {wait}, came : {came}]
    OBVIOUS
<1>2. s.run = run /\ s.sends = sends /\ s.wait = wait /\ s.came = came
    OBVIOUS
<1>3. s2 = [s EXCEPT !.run = run \cup more, !.sends = S2, !.wait = wait \cup late]
    BY <1>2, Zenon
<1> HIDE DEF S2
<1>4. s2 \in [run  : {run, run \cup more}, sends : {sends, S2},
              wait : {wait, wait \cup late}, came : {came}]
    BY <1>1, <1>3
<1>5. /\ s2.run = run \cup more /\ s2.sends = S2
      /\ s2.wait = wait \cup late /\ s2.came = came
    BY <1>1, <1>3
<1>6. s2 = [run |-> s2.run, sends |-> s2.sends, wait |-> s2.wait, came |-> s2.came]
    BY <1>4
<1> QED
    BY <1>5, <1>6 DEF S2

LEMMA CommandedForm ==
    ASSUME NEW k, Typed(k), NEW cs \in SUBSET (Chans \ Barriers), cs \cap Deferred = {},
           NEW k2, k2 = ApplyNulls(k, cs)
    PROVE  Abstract(k2) = Bulk!Commanded(Abstract(k), cs)
<1>1. {n \in Nodes : IsTriggered(k2, n)} =
          {n \in Nodes : IsTriggered(k, n)} \cup {n \in Nodes : Triggers[n] \cap (cs \ Deferred) # {}}
    <2>1. cs \ Deferred = cs
        OBVIOUS
    <2>2. \A n \in Nodes : IsTriggered(k2, n) <=> IsTriggered(k, n) \/ Triggers[n] \cap cs # {}
        BY NullsTrigger
    <2> QED
        BY <2>1, <2>2
<1>2. ASSUME NEW c \in Chans, c \notin cs
      PROVE  k2.chan[c] = k.chan[c]
    <2>1. CASE cs = {}
        BY <2>1, NoNulls
    <2>2. CASE cs # {}
        BY <1>2, <2>2, NullsStages
    <2> QED
        BY <2>1, <2>2
<1>3. k2.chan[TASKS].got = IF TASKS \in cs THEN Packets ELSE k.chan[TASKS].got
    <2>1. TASKS \in Chans /\ Kind[TASKS] = "topic"
        BY GraphAssumption
    <2>2. Values(TASKS) = Packets
        BY <2>1, Kinds DEF Values
    <2>3. k.chan[TASKS] \in State(TASKS)
        BY <2>1, TypedParts
    <2>4. CASE TASKS \in cs /\ Packets # {}
        <3>1. k2.chan[TASKS] = Update(TASKS, k.chan[TASKS], Packets)
            BY <2>1, <2>2, <2>4, NullsStages
        <3>2. Update(TASKS, k.chan[TASKS], Packets) =
                  [got |-> Packets, fin |-> k.chan[TASKS].fin]
            BY <2>1, <2>2, <2>3, UpdateCases
        <3> QED
            BY <2>4, <3>1, <3>2
    <2>5. CASE TASKS \in cs /\ Packets = {}
        <3>1. k2.chan[TASKS] = k.chan[TASKS]
            BY <2>1, <2>2, <2>5, NullsStages
        <3>2. k.chan[TASKS].got \subseteq Packets
            BY SendsType
        <3> QED
            BY <2>5, <3>1, <3>2
    <2>6. CASE TASKS \notin cs
        BY <1>2, <2>1, <2>6
    <2> QED
        BY <2>4, <2>5, <2>6
<1>4. \A c \in Barriers \cup Deferred : c \in Chans /\ k2.chan[c] = k.chan[c]
    BY <1>2 DEF Barriers, Deferred
<1>5. Waiting(k2) = Waiting(k) /\ cs \cap Deferred = {}
    BY <1>4 DEF Waiting
<1>6. [c \in Barriers |-> k2.chan[c].got] = [c \in Barriers |-> k.chan[c].got]
    BY <1>4
<1>7. Bulk!Commanded(Abstract(k), cs) =
          [run   |-> {n \in Nodes : IsTriggered(k, n)} \cup
                         {n \in Nodes : Triggers[n] \cap (cs \ Deferred) # {}},
           sends |-> IF TASKS \in cs THEN Packets ELSE k.chan[TASKS].got,
           wait  |-> Waiting(k) \cup (cs \cap Deferred),
           came  |-> [c \in Barriers |-> k.chan[c].got]]
    <2> DEFINE A == {n \in Nodes : IsTriggered(k, n)}
               B == {n \in Nodes : Triggers[n] \cap (cs \ Deferred) # {}}
               C == k.chan[TASKS].got
               D == [c \in Barriers |-> k.chan[c].got]
           late == cs \cap Deferred
           s == Abstract(k)
           s2 == Bulk!Commanded(s, cs)
    <2>1. s = [run |-> A, sends |-> C, wait |-> Waiting(k), came |-> D]
        BY AbstractForm
    <2>2. s2 = [s EXCEPT !.run   = @ \cup B,
                         !.sends = IF TASKS \in cs THEN Packets ELSE @,
                         !.wait  = @ \cup late]
        BY Zenon DEF Bulk!Commanded, Bulk!Deferred, Deferred
    <2> HIDE DEF A, B, C, D, late, s, s2
    <2>3. s2 = [run |-> A \cup B, sends |-> IF TASKS \in cs THEN Packets ELSE C,
                wait |-> Waiting(k) \cup late, came |-> D]
        BY <2>1, <2>2, CommandedParts
    <2> QED
        BY <2>3 DEF A, B, C, D, late, s, s2
<1>8. Waiting(k2) = Waiting(k) \cup (cs \cap Deferred)
    BY <1>5
<1>9. Abstract(k2) = [run   |-> {n \in Nodes : IsTriggered(k2, n)},
                      sends |-> k2.chan[TASKS].got,
                      wait  |-> Waiting(k2),
                      came  |-> [c \in Barriers |-> k2.chan[c].got]]
    BY Zenon DEF Abstract, Waiting
<1> DEFINE A1 == {n \in Nodes : IsTriggered(k2, n)}
           B1 == k2.chan[TASKS].got
           D1 == [c \in Barriers |-> k2.chan[c].got]
           A2 == {n \in Nodes : IsTriggered(k, n)} \cup
                     {n \in Nodes : Triggers[n] \cap (cs \ Deferred) # {}}
           B2 == IF TASKS \in cs THEN Packets ELSE k.chan[TASKS].got
           C2 == Waiting(k) \cup (cs \cap Deferred)
           D2 == [c \in Barriers |-> k.chan[c].got]
<1>10. Abstract(k2) = [run |-> A1, sends |-> B1, wait |-> Waiting(k2), came |-> D1]
    BY <1>9
<1>11. Bulk!Commanded(Abstract(k), cs) = [run |-> A2, sends |-> B2, wait |-> C2, came |-> D2]
    BY <1>7
<1>12. A1 = A2 /\ B1 = B2 /\ Waiting(k2) = C2 /\ D1 = D2
    BY <1>1, <1>3, <1>6, <1>8
<1> HIDE DEF A1, B1, D1, A2, B2, C2, D2
<1> QED
    BY <1>10, <1>11, <1>12

-----------------------------------------------------------------------------
(* The queue.                                                              *)

LEMMA AlikeAbstract ==
    ASSUME NEW k, NEW k2, Alike(k, k2)
    PROVE  Abstract(k2) = Abstract(k)
<1>1. k2.chan = k.chan /\ \A c, n : Triggered(k2, c, n) = Triggered(k, c, n)
    BY DEF Alike, Triggered
<1>2. \A n : IsTriggered(k2, n) = IsTriggered(k, n)
    BY <1>1 DEF IsTriggered
<1>3. {n \in Nodes : IsTriggered(k2, n)} = {n \in Nodes : IsTriggered(k, n)}
    BY <1>2
<1>4. Waiting(k2) = Waiting(k)
    BY <1>1 DEF Waiting
<1> DEFINE A(x) == {n \in Nodes : IsTriggered(x, n)}
           B(x) == x.chan[TASKS].got
           D(x) == [c \in Barriers |-> x.chan[c].got]
<1>5. \A x : Abstract(x) = [run |-> A(x), sends |-> B(x), wait |-> Waiting(x), came |-> D(x)]
    BY Zenon DEF Abstract, Waiting
<1>6. A(k2) = A(k) /\ B(k2) = B(k) /\ D(k2) = D(k)
    BY <1>1, <1>3
<1> HIDE DEF A, B, D
<1> QED
    BY <1>4, <1>5, <1>6

Shown(q) == [i \in DOMAIN q |-> Abstract(q[i])]
States == {Abstract(k) : k \in Checkpoint}

LEMMA ShownSeq ==
    ASSUME NEW q \in Seq(Checkpoint)
    PROVE  /\ Shown(q) \in Seq(States) /\ Len(Shown(q)) = Len(q)
           /\ \A i \in 1 .. Len(q) : Shown(q)[i] = Abstract(q[i])
<1>1. Len(q) \in Nat /\ DOMAIN q = 1 .. Len(q) /\ \A i \in 1 .. Len(q) : q[i] \in Checkpoint
    BY LenProperties, ElementOfSeq
<1>2. Shown(q) \in [1 .. Len(q) -> States]
    BY <1>1 DEF Shown, States
<1>3. Shown(q) \in Seq(States)
    BY <1>1, <1>2, SeqDef
<1>4. Len(Shown(q)) \in Nat /\ 1 .. Len(Shown(q)) = 1 .. Len(q)
    BY <1>2, <1>3, LenProperties
<1>5. Len(Shown(q)) = Len(q)
    BY <1>1, <1>4
<1> QED
    BY <1>1, <1>3, <1>5 DEF Shown

LEMMA ShownAppend ==
    ASSUME NEW q \in Seq(Checkpoint), NEW k \in Checkpoint
    PROVE  Shown(Append(q, k)) = Append(Shown(q), Abstract(k))
<1> DEFINE s == Shown(Append(q, k))
           t == Append(Shown(q), Abstract(k))
<1>1. /\ Append(q, k) \in Seq(Checkpoint) /\ Len(Append(q, k)) = Len(q) + 1
      /\ Len(q) \in Nat
      /\ \A i \in 1 .. Len(q) : Append(q, k)[i] = q[i]
      /\ Append(q, k)[Len(q) + 1] = k
    BY AppendProperties, LenProperties
<1>2. /\ s \in Seq(States) /\ Len(s) = Len(q) + 1
      /\ \A i \in 1 .. Len(q) + 1 : s[i] = Abstract(Append(q, k)[i])
    BY <1>1, ShownSeq
<1>3. /\ Shown(q) \in Seq(States) /\ Len(Shown(q)) = Len(q)
      /\ \A i \in 1 .. Len(q) : Shown(q)[i] = Abstract(q[i])
    BY ShownSeq
<1>4. Abstract(k) \in States
    BY DEF States
<1>5. /\ t \in Seq(States) /\ Len(t) = Len(q) + 1
      /\ \A i \in 1 .. Len(q) : t[i] = Abstract(q[i])
      /\ t[Len(q) + 1] = Abstract(k)
    BY <1>3, <1>4, AppendProperties
<1> HIDE DEF s, t
<1>6. \A i \in 1 .. Len(s) : s[i] = t[i]
    <2> SUFFICES ASSUME NEW i \in 1 .. Len(q) + 1 PROVE s[i] = t[i]
        BY <1>2
    <2>1. CASE i \in 1 .. Len(q)
        BY <1>1, <1>2, <1>5, <2>1
    <2>2. CASE i = Len(q) + 1
        BY <1>1, <1>2, <1>5, <2>2
    <2> QED
        BY <1>1, <2>1, <2>2
<1>7. Len(s) = Len(t)
    BY <1>2, <1>5
<1>8. s = t
    BY <1>2, <1>5, <1>6, <1>7, SeqEqual
<1> QED
    BY <1>8 DEF s, t

LEMMA ShownEmpty ==
    ASSUME NEW q \in Seq(Checkpoint)
    PROVE  q = <<>> <=> Shown(q) = <<>>
<1>1. Len(q) \in Nat /\ (q = <<>> <=> Len(q) = 0)
    BY EmptySeq, LenProperties
<1>2. Shown(q) \in Seq(States) /\ Len(Shown(q)) = Len(q)
    BY ShownSeq
<1> HIDE DEF Shown
<1>3. Shown(q) = <<>> <=> Len(Shown(q)) = 0
    BY <1>2, EmptySeq
<1> QED
    BY <1>1, <1>2, <1>3

LEMMA ShownTail ==
    ASSUME NEW q \in Seq(Checkpoint), q # <<>>, NEW t, t = Tail(q)
    PROVE  Head(Shown(q)) = Abstract(Head(q)) /\ Shown(t) = Tail(Shown(q))
<1> DEFINE s == Shown(q)
           u == Shown(t)
           v == Tail(s)
<1>1. /\ t \in Seq(Checkpoint) /\ Len(t) = Len(q) - 1
      /\ \A i \in 1 .. Len(t) : t[i] = q[i + 1]
    BY HeadTailProperties
<1>2. Len(q) \in Nat /\ Len(q) # 0 /\ Head(q) = q[1]
    BY EmptySeq, LenProperties
<1>3. /\ s \in Seq(States) /\ Len(s) = Len(q) /\ s # <<>>
      /\ \A i \in 1 .. Len(q) : s[i] = Abstract(q[i])
    BY ShownSeq, ShownEmpty
<1>4. /\ u \in Seq(States) /\ Len(u) = Len(t)
      /\ \A i \in 1 .. Len(t) : u[i] = Abstract(t[i])
    BY <1>1, ShownSeq
<1> HIDE DEF s, u
<1>5. /\ v \in Seq(States) /\ Len(v) = Len(s) - 1
      /\ \A i \in 1 .. Len(v) : v[i] = s[i + 1]
    BY <1>3, HeadTailProperties
<1>6. Head(s) = s[1]
    BY <1>3
<1> HIDE DEF v
<1>7. Len(u) = Len(v) /\ \A i \in 1 .. Len(u) : u[i] = v[i]
    <2>1. Len(u) = Len(q) - 1 /\ Len(v) = Len(q) - 1
        BY <1>1, <1>3, <1>4, <1>5
    <2>2. ASSUME NEW i \in 1 .. Len(q) - 1
          PROVE  u[i] = v[i]
        <3>1. i + 1 \in 1 .. Len(q)
            BY <1>2
        <3>2. v[i] = s[i + 1] /\ s[i + 1] = Abstract(q[i + 1])
            BY <1>3, <1>5, <2>1, <3>1
        <3>3. u[i] = Abstract(t[i]) /\ t[i] = q[i + 1]
            BY <1>1, <1>4
        <3> QED
            BY <3>2, <3>3
    <2> QED
        BY <2>1, <2>2
<1>8. u = v
    BY <1>4, <1>5, <1>7, SeqEqual
<1>9. s[1] = Abstract(q[1])
    BY <1>2, <1>3
<1> QED
    BY <1>2, <1>6, <1>8, <1>9 DEF s, u, v

-----------------------------------------------------------------------------
(* The mapping.                                                            *)

\* Deferred nodes wait for Sends too in BulkSynchronous, which apply_writes does
\* not count; and with "exit" the pending writes of a Command are put twice.
PlainGraph ==
    /\ NoHalfSteps /\ OnlyTasksDefer
    /\ Deferred = {} \/ Packets = {}
    /\ Durability = "async" \/ Commands = {}

\* The step at which the run began is that of the checkpoint it loaded.
RefineInv ==
    /\ WaitsInv /\ BehindInv /\ FinsInv
    /\ InLoop => ck.step >= stop - Limit - 2
    /\ InLoop /\ Durability = "exit" => saved.step = stop - Limit - 2

LEMMA InitRefine == Init => RefineInv
<1> SUFFICES ASSUME Init PROVE RefineInv
    OBVIOUS
<1>1. Kept = {EmptyCheckpoint} /\ pc = "idle"
    BY ItemsFacts DEF Init, Kept, Items
<1>2. WaitsInv
    BY <1>1, EmptySound, InitSound DEF WaitsInv, NothingLeft, InLoop
<1> QED
    BY <1>1, <1>2, InitBehind, FinsKept DEF RefineInv, InLoop

LEMMA NextRefine ==
    ASSUME PlainGraph, RefineInv, [Next]_vars
    PROVE  RefineInv'
<1>1. WaitsInv' /\ BehindInv' /\ FinsInv'
    BY NextWaits, NextBehind, FinsKept DEF PlainGraph, RefineInv
<1>2. /\ TypedInv /\ ck.step \in Int /\ saved.step \in Int /\ stop \in Int /\ Limit \in Nat
      /\ ck'.step \in Int
    <2>1. TypedInv /\ TypedInv'
        BY <1>1 DEF RefineInv, FinsInv
    <2> QED
        BY <2>1, LoopAssumption DEF TypedInv, TypeOK, Checkpoint
<1> DEFINE Begun == /\ InLoop => ck.step >= stop - Limit - 2
                    /\ InLoop /\ Durability = "exit" => saved.step = stop - Limit - 2
<1>3. CASE Invoke
    <2>1. ck'.step = saved.step + 1 /\ stop' = (saved.step + 1) + Limit + 1 /\ saved' = saved
        BY <1>2, <1>3, InvokeFacts DEF Invoke, Enter
    <2>2. Begun'
        BY <1>2, <2>1
    <2> QED
        BY <1>1, <2>2 DEF RefineInv
<1>4. ASSUME NEW cs \in Commands \cup {{}}, Resume(cs)
      PROVE  RefineInv'
    <2>1. ck'.step = saved.step /\ stop' = (saved.step + 1) + Limit + 1 /\ saved' = saved
        BY <1>2, <1>4, ResumeFacts DEF Resume, Enter
    <2>2. Begun'
        BY <1>2, <2>1
    <2> QED
        BY <1>1, <2>2 DEF RefineInv
<1>5. ASSUME NEW o, AfterTick(o)
      PROVE  RefineInv'
    <2>1. tasks = DiscardTasks(ck) /\ InLoop
        BY <1>5 DEF AfterTick, RefineInv, BehindInv, SoundInv, InLoop
    <2>2. ck'.step = ck.step + 1 /\ stop' = stop /\ saved' = saved
        BY <1>2, <1>5, <2>1, AfterTickFacts DEF AfterTick
    <2>3. Begun'
        BY <1>2, <2>1, <2>2 DEF RefineInv
    <2> QED
        BY <1>1, <2>3 DEF RefineInv
<1>6. CASE StoreCheckpoint
    <2>1. queue # <<>> /\ UNCHANGED <<pc, ck, stop>>
        BY <1>6 DEF StoreCheckpoint
    <2>2. InLoop => Durability # "exit"
        BY <2>1 DEF RefineInv, BehindInv
    <2> QED
        BY <1>1, <2>1, <2>2 DEF RefineInv, InLoop
<1>7. CASE StoreNulls \/ Tick \/ UNCHANGED vars
    BY <1>1, <1>7 DEF StoreNulls, Tick, vars, RefineInv, InLoop
<1>8. CASE ~InLoop'
    BY <1>1, <1>8 DEF RefineInv
<1> QED
    BY <1>3, <1>4, <1>5, <1>6, <1>7, <1>8
    DEF Next, TickStops, Drain, TickInterrupts, AfterTickRaises, Fail, Exit, Crash, Gone,
        Leave, Rest, InLoop

\* What the variables of BulkSynchronous are.
PhaseOf(p) == CASE p = "idle" -> "idle" [] p = "tick" -> "ready"
                [] p = "run" -> "busy" [] p = "exit" -> "leaving"
Cur   == Abstract(IF InLoop THEN ck ELSE EmptyCheckpoint)
Busy  == IF pc = "run" THEN tasks ELSE {}
Todo  == savedNulls \cup (IF Durability = "exit" /\ InLoop THEN nulls ELSE flight)
Dirty == InLoop /\ ck.step # stop - Limit - 2

LEMMA Phases == /\ PhaseOf("idle") = "idle" /\ PhaseOf("tick") = "ready"
                /\ PhaseOf("run") = "busy" /\ PhaseOf("exit") = "leaving"
BY DEF PhaseOf

LEMMA RefineTypes ==
    ASSUME RefineInv
    PROVE  /\ TypedInv /\ SoundInv /\ BehindInv /\ WaitsInv /\ FinsInv
           /\ ck \in Checkpoint /\ saved \in Checkpoint /\ queue \in Seq(Checkpoint)
           /\ ck.step \in Int /\ saved.step \in Int /\ stop \in Int /\ Limit \in Nat
           /\ Durability \in {"async", "exit"}
           /\ Sound(saved) /\ Typed(saved) /\ Fins(saved) /\ Waits(saved)
           /\ InLoop => Sound(ck) /\ Typed(ck) /\ Fins(ck) /\ Waits(ck)
           /\ savedNulls \in SUBSET (Chans \ Barriers) /\ savedNulls \subseteq NullChans
BY LoopAssumption, NullChansType
DEF RefineInv, WaitsInv, BehindInv, FinsInv, SoundInv, TypedInv, TypeOK, Checkpoint, Sound,
    Kept

LEMMA EmptyIsNothing == Abstract(EmptyCheckpoint) = Bulk!Nothing
<1>1. {n \in Nodes : IsTriggered(EmptyCheckpoint, n)} = {}
    BY EmptySound DEF DiscardTasks
<1>2. EmptyCheckpoint.chan[TASKS].got = {}
    BY GraphAssumption DEF EmptyCheckpoint, Empty
<1>3. Waiting(EmptyCheckpoint) = {}
    BY EmptyState DEF EmptyCheckpoint, Waiting, Deferred
<1>4. [c \in Barriers |-> EmptyCheckpoint.chan[c].got] = [c \in Barriers |-> {}]
    BY DEF EmptyCheckpoint, Empty, Barriers
<1>5. Bulk!Nothing = [run |-> {}, sends |-> {}, wait |-> {}, came |-> [c \in Barriers |-> {}]]
    BY Zenon DEF Bulk!Nothing, Bulk!Barriers, Barriers
<1> DEFINE A(x) == {n \in Nodes : IsTriggered(x, n)}
           B(x) == x.chan[TASKS].got
           D(x) == [c \in Barriers |-> x.chan[c].got]
           E == [c \in Barriers |-> {}]
           k == EmptyCheckpoint
<1>6. \A x : Abstract(x) = [run |-> A(x), sends |-> B(x), wait |-> Waiting(x), came |-> D(x)]
    BY Zenon DEF Abstract, Waiting
<1>7. A(k) = {} /\ B(k) = {} /\ Waiting(k) = {} /\ D(k) = E
    BY <1>1, <1>2, <1>3, <1>4
<1>8. Bulk!Nothing = [run |-> {}, sends |-> {}, wait |-> {}, came |-> E]
    BY <1>5
<1> HIDE DEF A, B, D, E, k
<1>9. Abstract(k) = Bulk!Nothing
    BY <1>6, <1>7, <1>8
<1> QED
    BY <1>9 DEF k

LEMMA InitMaps == Init => Bulk!Init
<1> SUFFICES ASSUME Init PROVE Bulk!Init
    OBVIOUS
<1>1. /\ PhaseOf(pc) = "idle" /\ Cur = Bulk!Nothing /\ Busy = {} /\ Shown(queue) = <<>>
      /\ Abstract(saved) = Bulk!Nothing /\ Todo = {} /\ Dirty = FALSE
    <2>1. ~InLoop /\ Cur = Abstract(EmptyCheckpoint)
        BY DEF Init, InLoop, Cur
    <2>2. Shown(queue) = <<>>
        BY ShownEmpty, EmptySeq DEF Init
    <2> QED
        BY <2>1, <2>2, Phases, EmptyIsNothing DEF Init, Busy, Todo, Dirty
<1> QED
    BY <1>1, Zenon DEF Bulk!Init, PhaseOf, Cur, Busy, Shown, Todo, Dirty

-----------------------------------------------------------------------------
(* Each step of the loop is a step of BulkSynchronous or leaves its state.  *)

LEMMA InvokeMaps ==
    ASSUME PlainGraph, RefineInv, RefineInv', Invoke
    PROVE  Bulk!Invoke
<1> DEFINE k  == ApplyNulls(saved, savedNulls)
           ts == DiscardTasks(k)
           w  == WritesTo(Input)
           k1 == ApplyWrites(k, ts, w)
<1>1. /\ pc = "idle" /\ pc' = "tick" /\ ~InLoop /\ InLoop' /\ flight = {} /\ flight' = {}
      /\ ck' = Put(k1) /\ queue' = Submit(queue, ck') /\ nulls' = savedNulls
      /\ saved' = saved /\ savedNulls' = savedNulls
      /\ stop' = (saved.step + 1) + Limit + 1
    BY DEF Invoke, Enter, InLoop, RefineInv, BehindInv
<1>2. Todo = savedNulls /\ Todo' = savedNulls
    BY <1>1 DEF Todo
<1>3. savedNulls \cap Deferred = {}
    BY RefineTypes DEF PlainGraph, OnlyTasksDefer
<1>4. Abstract(k) = Bulk!Commanded(Abstract(saved), Todo)
    BY <1>2, <1>3, RefineTypes, CommandedForm
<1>5. Sound(k) /\ Fins(k) /\ Waits(k)
    BY <1>3, RefineTypes, NullsParts, NullsKeep, FinsNulls DEF Sound
<1>6. \A c \in Chans : w[c] \in SUBSET Values(c)
    BY WritesType
<1> HIDE DEF k
<1>7. StepOf(k, w)
    BY <1>5, <1>6 DEF StepOf, PlainGraph, OnlyTasksDefer
<1>8. ts = {} => \A c \in Deferred : ~IsFull(c, k.chan[c]) /\ w[c] = {}
    BY <1>5 DEF Waits, PlainGraph, OnlyTasksDefer, WritesTo, Deferred
<1>9. Abstract(k1) = Bulk!After(Abstract(k), w)
    BY <1>7, <1>8, AfterApply DEF PlainGraph
<1>10. Typed(k1)
    BY <1>5, <1>6, ApplyWritesParts DEF Sound
<1> HIDE DEF k1, w
<1>11. Abstract(ck') = Abstract(k1)
    BY <1>1, <1>10, PutFacts, AlikeAbstract
<1>12. Cur' = Abstract(ck')
    BY <1>1 DEF Cur
<1>13. Bulk!WritesTo(Input) = w
    BY SameShape DEF w
<1>14. Cur' = Bulk!After(Bulk!Commanded(Abstract(saved), Todo), Bulk!WritesTo(Input))
    BY <1>4, <1>9, <1>11, <1>12, <1>13
<1>15. Shown(queue)' = Bulk!Put(Shown(queue), Cur')
    <2>1. queue' = IF Durability = "exit" THEN queue ELSE Append(queue, ck')
        BY <1>1 DEF Submit
    <2>2. ck' \in Checkpoint
        BY DEF RefineInv, WaitsInv, SoundInv, TypedInv, TypeOK
    <2>3. Shown(Append(queue, ck')) = Append(Shown(queue), Cur')
        BY <1>12, <2>2, RefineTypes, ShownAppend
    <2>4. Shown(queue)' = Shown(queue')
        BY DEF Shown
    <2>5. Shown(queue') = IF Durability = "exit" THEN Shown(queue)
                          ELSE Append(Shown(queue), Cur')
        BY <2>1, <2>3
    <2> QED
        BY <2>4, <2>5, Zenon DEF Bulk!Put
<1>16. PhaseOf(pc) = "idle" /\ PhaseOf(pc)' = "ready"
    BY <1>1, Phases
<1>17. Dirty' = TRUE
    <2>1. ck'.step = saved.step + 1
        BY RefineTypes, InvokeFacts
    <2> QED
        BY <1>1, <2>1, RefineTypes DEF Dirty
<1>18. Busy' = Busy /\ Abstract(saved)' = Abstract(saved) /\ Todo' = Todo
    <2>1. Abstract(saved)' = Abstract(saved)
        BY <1>1 DEF Abstract, IsTriggered, Triggered
    <2> QED
        BY <1>1, <1>2, <2>1 DEF Busy
<1> QED
    BY <1>14, <1>15, <1>16, <1>17, <1>18, Zenon
    DEF Bulk!Invoke, PhaseOf, Cur, Busy, Shown, Todo, Dirty

LEMMA ResumeMaps ==
    ASSUME PlainGraph, RefineInv, RefineInv', NEW cs \in Commands \cup {{}}, Resume(cs)
    PROVE  Bulk!Resume
<1> DEFINE k == ApplyNulls(saved, nulls')
<1>1. /\ pc = "idle" /\ pc' = "tick" /\ ~InLoop /\ InLoop' /\ flight = {}
      /\ flight' = IF Durability = "exit" THEN {} ELSE cs
      /\ queue' = queue /\ nulls' = savedNulls \cup cs
      /\ saved' = saved /\ savedNulls' = savedNulls
      /\ stop' = (saved.step + 1) + Limit + 1
    BY DEF Resume, Enter, InLoop, RefineInv, BehindInv
<1>2. Todo' = nulls' /\ Todo' = Todo \cup cs
    BY <1>1 DEF Todo
<1>3. /\ Alike(k, ck') /\ nulls' \in SUBSET (Chans \ Barriers) /\ nulls' \cap Deferred = {}
      /\ ck'.step = saved.step
    BY RefineTypes, ResumeFacts DEF PlainGraph, OnlyTasksDefer
<1>4. Abstract(k) = Bulk!Commanded(Abstract(saved), nulls')
    BY <1>3, RefineTypes, CommandedForm
<1> HIDE DEF k
<1>5. Cur' = Abstract(ck')
    BY <1>1 DEF Cur
<1>6. Cur' = Bulk!Commanded(Abstract(saved), Todo')
    BY <1>2, <1>3, <1>4, <1>5, AlikeAbstract
<1>7. PhaseOf(pc) = "idle" /\ PhaseOf(pc)' = "ready"
    BY <1>1, Phases
<1>8. Dirty' = FALSE
    BY <1>1, <1>3, RefineTypes DEF Dirty
<1>9. /\ Busy' = Busy /\ Abstract(saved)' = Abstract(saved)
      /\ Shown(queue)' = Shown(queue)
    <2>1. Abstract(saved)' = Abstract(saved)
        BY <1>1 DEF Abstract, IsTriggered, Triggered
    <2>2. Shown(queue)' = Shown(queue)
        BY <1>1 DEF Shown
    <2> QED
        BY <1>1, <2>1, <2>2 DEF Busy
<1>10. \E x \in Commands \cup {{}} : Todo' = Todo \cup x
    BY <1>2
<1> QED
    BY <1>6, <1>7, <1>8, <1>9, <1>10, Zenon
    DEF Bulk!Resume, PhaseOf, Cur, Busy, Shown, Todo, Dirty

LEMMA TickMaps ==
    ASSUME PlainGraph, RefineInv, RefineInv', Tick
    PROVE  Bulk!Begin
<1>1. /\ pc = "tick" /\ pc' = "run" /\ InLoop /\ InLoop' /\ tasks' = NextTasks(ck)
      /\ NextTasks(ck) # {}
      /\ UNCHANGED <<ck, stop, nulls, flight, queue, saved, savedNulls>>
    BY DEF Tick, InLoop
<1>2. NextTasks(ck) = DiscardTasks(ck)
    BY <1>1, RefineTypes, NoneLeftOut DEF Sound
<1>3. Cur = Abstract(ck)
    BY <1>1 DEF Cur
<1>4. Bulk!TasksOf(Cur) = DiscardTasks(ck)
    <2>1. Bulk!TasksOf(Cur) = Cur.run \cup Cur.sends
        BY Zenon DEF Bulk!TasksOf
    <2>2. /\ Cur.run = {n \in Nodes : IsTriggered(ck, n)}
          /\ Cur.sends = ck.chan[TASKS].got
        BY <1>3, AbstractForm
    <2> QED
        BY <2>1, <2>2 DEF DiscardTasks
<1>5. Bulk!TasksOf(Cur) # {} /\ Busy' = Bulk!TasksOf(Cur)
    BY <1>1, <1>2, <1>4 DEF Busy
<1>6. PhaseOf(pc) = "ready" /\ PhaseOf(pc)' = "busy"
    BY <1>1, Phases
<1>7. Cur' = Cur
    BY <1>1 DEF Cur, Abstract, IsTriggered, Triggered
<1>8. /\ Todo' = Todo /\ Dirty' = Dirty /\ Shown(queue)' = Shown(queue)
      /\ Abstract(saved)' = Abstract(saved)
    BY <1>1 DEF Todo, Dirty, Shown, Abstract, IsTriggered, Triggered
<1> QED
    BY <1>5, <1>6, <1>7, <1>8, Zenon
    DEF Bulk!Begin, PhaseOf, Cur, Busy, Shown, Todo, Dirty

\* What a superstep makes of the state.
LEMMA AfterTickShows ==
    ASSUME PlainGraph, RefineInv, RefineInv', NEW o \in Outcomes(tasks), AfterTick(o)
    PROVE  /\ o \in Bulk!Outcomes(Busy)
           /\ Abstract(ck') = Bulk!After(Cur, Bulk!Writes(o))
           /\ Shown(Append(queue, ck')) = Append(Shown(queue), Abstract(ck'))
           /\ ck'.step = ck.step + 1
<1> DEFINE w  == Writes(o)
           k1 == ApplyWrites(ck, tasks, w)
<1>1. pc = "run" /\ InLoop /\ ck' = Put(k1)
    BY DEF AfterTick, InLoop
<1>2. tasks = DiscardTasks(ck) /\ tasks # {}
    BY <1>1, RefineTypes DEF SoundInv
<1>3. \A c \in Chans : w[c] \in SUBSET Values(c)
    BY WritesType
<1>4. StepOf(ck, w)
    BY <1>1, <1>3, RefineTypes DEF StepOf, PlainGraph, OnlyTasksDefer
<1>5. Abstract(k1) = Bulk!After(Abstract(ck), w)
    BY <1>2, <1>4, AfterApply DEF PlainGraph
<1>6. Typed(k1) /\ k1.step = ck.step
    BY <1>1, <1>3, RefineTypes, ApplyWritesParts
<1> HIDE DEF k1, w
<1>7. Abstract(ck') = Abstract(k1) /\ ck'.step = ck.step + 1
    BY <1>1, <1>6, PutFacts, AlikeAbstract
<1>8. Cur = Abstract(ck)
    BY <1>1 DEF Cur
<1>9. Bulk!Writes(o) = w
    BY SameShape DEF w
<1>10. o \in Bulk!Outcomes(Busy)
    BY <1>1, SameShape DEF Busy
<1>11. ck' \in Checkpoint
    BY DEF RefineInv, WaitsInv, SoundInv, TypedInv, TypeOK
<1>12. Shown(Append(queue, ck')) = Append(Shown(queue), Abstract(ck'))
    BY <1>11, RefineTypes, ShownAppend
<1> QED
    BY <1>5, <1>7, <1>8, <1>9, <1>10, <1>12

LEMMA SuperstepMaps ==
    ASSUME PlainGraph, RefineInv, RefineInv', NEW o \in Outcomes(tasks), AfterTick(o),
           pc' = "tick"
    PROVE  Bulk!Superstep
<1>1. /\ pc = "run" /\ InLoop /\ InLoop' /\ nulls' = {} /\ queue' = Submit(queue, ck')
      /\ UNCHANGED <<stop, flight, saved, savedNulls>>
    BY DEF AfterTick, InLoop
<1>2. /\ o \in Bulk!Outcomes(Busy)
      /\ Cur' = Bulk!After(Cur, Bulk!Writes(o))
      /\ Shown(Append(queue, ck')) = Append(Shown(queue), Cur')
      /\ ck'.step = ck.step + 1
    <2>1. Cur' = Abstract(ck')
        BY <1>1 DEF Cur
    <2> QED
        BY <2>1, AfterTickShows
<1>3. \E x \in Bulk!Outcomes(Busy) : Cur' = Bulk!After(Cur, Bulk!Writes(x))
    BY <1>2
<1>4. Shown(queue)' = Bulk!Put(Shown(queue), Cur')
    <2>1. Shown(queue)' = Shown(queue')
        BY DEF Shown
    <2>2. queue' = IF Durability = "exit" THEN queue ELSE Append(queue, ck')
        BY <1>1 DEF Submit
    <2>3. Shown(queue') = IF Durability = "exit" THEN Shown(queue)
                          ELSE Append(Shown(queue), Cur')
        BY <1>2, <2>2
    <2> QED
        BY <2>1, <2>3, Zenon DEF Bulk!Put
<1>5. PhaseOf(pc) = "busy" /\ PhaseOf(pc)' = "ready"
    BY <1>1, Phases
<1>6. Busy' = {} /\ Todo' \in SUBSET Todo
    BY <1>1 DEF Busy, Todo
<1>7. Dirty' = TRUE
    BY <1>1, <1>2, RefineTypes DEF Dirty, RefineInv
<1>8. Abstract(saved)' = Abstract(saved)
    BY <1>1 DEF Abstract, IsTriggered, Triggered
<1> QED
    BY <1>3, <1>4, <1>5, <1>6, <1>7, <1>8, Zenon
    DEF Bulk!Superstep, PhaseOf, Cur, Busy, Shown, Todo, Dirty

\* The last superstep of a run that is interrupted after it.
LEMMA LastSuperstepMaps ==
    ASSUME PlainGraph, RefineInv, RefineInv', NEW o \in Outcomes(tasks), AfterTick(o),
           pc' # "tick"
    PROVE  Bulk!Leave
<1> DEFINE s == Bulk!After(Cur, Bulk!Writes(o))
<1>1. /\ pc = "run" /\ InLoop /\ pc' = "exit" /\ ~InLoop'
      /\ queue' = PutAtExit(Submit(queue, ck'), ck')
      /\ UNCHANGED <<stop, flight, saved, savedNulls>>
    BY DEF AfterTick, InLoop
<1>2. /\ o \in Bulk!Outcomes(Busy) /\ Abstract(ck') = s
      /\ Shown(Append(queue, ck')) = Append(Shown(queue), s)
      /\ ck'.step = ck.step + 1
    BY AfterTickShows
<1> HIDE DEF s
<1>3. queue' = Append(queue, ck')
    <2>1. CASE Durability = "async"
        BY <1>1, <2>1 DEF Submit, PutAtExit
    <2>2. CASE Durability = "exit"
        <3>1. ck'.step # saved.step
            BY <1>1, <1>2, <2>2, RefineTypes DEF BehindInv
        <3> QED
            BY <1>1, <2>2, <3>1 DEF Submit, PutAtExit
    <2> QED
        BY <2>1, <2>2, RefineTypes
<1>4. Shown(queue)' = Append(Shown(queue), s)
    <2>1. Shown(queue)' = Shown(queue')
        BY DEF Shown
    <2> QED
        BY <1>2, <1>3, <2>1
<1>5. PhaseOf(pc) = "busy" /\ PhaseOf(pc)' = "leaving"
    BY <1>1, Phases
<1>6. Cur' = Bulk!Nothing /\ Busy' = {} /\ Dirty' = FALSE /\ Todo' \in SUBSET Todo
    <2>1. Todo' \in SUBSET Todo
        <3>1. InLoop /\ Durability = "exit" => flight = {}
            BY RefineTypes DEF BehindInv
        <3> QED
            BY <1>1, <3>1 DEF Todo
    <2>2. Cur' = Abstract(EmptyCheckpoint)
        BY <1>1 DEF Cur
    <2> QED
        BY <1>1, <2>1, <2>2, EmptyIsNothing DEF Busy, Dirty
<1>7. Abstract(saved)' = Abstract(saved)
    BY <1>1 DEF Abstract, IsTriggered, Triggered
<1>8. \E x \in Bulk!Outcomes(Busy) : LET t == Bulk!After(Cur, Bulk!Writes(x))
                                     IN  Shown(queue)' = Append(Shown(queue), t)
    BY <1>2, <1>4 DEF s
<1>9. PhaseOf(pc) \in {"ready", "busy"}
    BY <1>5
<1> QED
    BY <1>5, <1>6, <1>7, <1>8, <1>9, Zenon
    DEF Bulk!Leave, PhaseOf, Cur, Busy, Shown, Todo, Dirty

\* A run that leaves the loop, with the checkpoint that it has.
LEMMA LeaveMaps ==
    ASSUME PlainGraph, RefineInv, InLoop, NEW why, NEW k, Leave(why, k),
           k = ck \/ Durability = "async"
    PROVE  Bulk!Leave
<1>1. /\ pc' = "exit" /\ ~InLoop' /\ queue' = PutAtExit(queue, k)
      /\ flight' = IF Durability = "exit" THEN nulls ELSE flight
      /\ UNCHANGED <<tasks, stop, nulls, saved, savedNulls>>
    BY DEF Leave, InLoop
<1>2. Cur = Abstract(ck)
    BY DEF Cur
<1>3. Shown(queue)' = IF Durability = "exit" /\ Dirty THEN <<Cur>> ELSE Shown(queue)
    <2>1. Shown(queue)' = Shown(queue')
        BY DEF Shown
    <2>2. CASE Durability = "exit" /\ Dirty
        <3>1. queue = <<>> /\ ck.step # saved.step /\ k = ck
            BY <2>2, RefineTypes DEF BehindInv, Dirty, RefineInv
        <3>2. queue' = Append(queue, ck)
            BY <1>1, <2>2, <3>1 DEF PutAtExit
        <3>3. Shown(queue') = Append(Shown(queue), Cur)
            BY <1>2, <3>2, RefineTypes, ShownAppend
        <3>4. Shown(queue) = <<>>
            BY <3>1, RefineTypes, ShownEmpty
        <3>5. Shown(queue') = <<Cur>>
            BY <3>3, <3>4
        <3> QED
            BY <2>1, <2>2, <3>5
    <2>3. CASE ~(Durability = "exit" /\ Dirty)
        <3>1. Durability = "exit" => k.step = saved.step
            BY <2>3, RefineTypes DEF Dirty, RefineInv
        <3>2. queue' = queue
            BY <1>1, <3>1 DEF PutAtExit
        <3> QED
            BY <2>1, <2>3, <3>2
    <2> QED
        BY <2>2, <2>3
<1>4. PhaseOf(pc) \in {"ready", "busy"} /\ PhaseOf(pc)' = "leaving"
    BY <1>1, Phases DEF InLoop
<1>5. Cur' = Bulk!Nothing /\ Busy' = {} /\ Dirty' = FALSE /\ Todo' \in SUBSET Todo
    <2>1. Todo' \in SUBSET Todo
        BY <1>1 DEF Todo
    <2>2. Cur' = Abstract(EmptyCheckpoint)
        BY <1>1 DEF Cur
    <2> QED
        BY <1>1, <2>1, <2>2, EmptyIsNothing DEF Busy, Dirty
<1>6. Abstract(saved)' = Abstract(saved)
    BY <1>1 DEF Abstract, IsTriggered, Triggered
<1> QED
    BY <1>3, <1>4, <1>5, <1>6, Zenon
    DEF Bulk!Leave, PhaseOf, Cur, Busy, Shown, Todo, Dirty

LEMMA StoreMaps ==
    ASSUME PlainGraph, RefineInv, StoreCheckpoint
    PROVE  Bulk!Store
<1>1. /\ queue # <<>> /\ saved' = Head(queue) /\ queue' = Tail(queue) /\ savedNulls' = {}
      /\ flight' = IF Durability = "exit" THEN flight ELSE {}
      /\ UNCHANGED <<pc, ck, tasks, stop, nulls>>
    BY DEF StoreCheckpoint
<1>2. queue \in Seq(Checkpoint)
    BY RefineTypes
<1>3. Shown(queue) # <<>> /\ Shown(queue)' = Tail(Shown(queue))
      /\ Head(Shown(queue)) = Abstract(Head(queue))
    <2>1. Shown(queue)' = Shown(queue')
        BY DEF Shown
    <2> QED
        BY <1>1, <1>2, <2>1, ShownEmpty, ShownTail
<1>4. Abstract(saved)' = Head(Shown(queue))
    <2>1. Abstract(saved)' = Abstract(saved')
        BY DEF Abstract, IsTriggered, Triggered
    <2> QED
        BY <1>1, <1>3, <2>1
<1>5. Todo' = {}
    <2>1. Durability = "exit" => ~InLoop
        BY <1>1, RefineTypes DEF BehindInv
    <2>2. InLoop' = InLoop
        BY <1>1 DEF InLoop
    <2>3. Durability = "exit" => flight = {}
        BY RefineTypes DEF PlainGraph, TypedInv, NullChans
    <2> QED
        BY <1>1, <2>1, <2>2, <2>3, RefineTypes DEF Todo
<1>6. PhaseOf(pc)' = PhaseOf(pc) /\ Cur' = Cur /\ Busy' = Busy /\ Dirty' = Dirty
    BY <1>1 DEF PhaseOf, Cur, Busy, Dirty, InLoop, Abstract, IsTriggered, Triggered
<1> QED
    BY <1>3, <1>4, <1>5, <1>6, Zenon
    DEF Bulk!Store, PhaseOf, Cur, Busy, Shown, Todo, Dirty

\* The writes of a Command are stored: they were to be applied before.
LEMMA StoreNullsMaps ==
    ASSUME PlainGraph, RefineInv, StoreNulls
    PROVE  UNCHANGED Bulk!vars
<1>1. /\ savedNulls' = savedNulls \cup flight /\ flight' = {} /\ flight # {}
      /\ UNCHANGED <<pc, ck, tasks, stop, nulls, queue, saved>>
    BY DEF StoreNulls
<1>2. Todo' = Todo
    <2>1. InLoop' = InLoop /\ (InLoop => Durability # "exit")
        BY <1>1, RefineTypes DEF InLoop, BehindInv
    <2> QED
        BY <1>1, <2>1 DEF Todo
<1>3. /\ PhaseOf(pc)' = PhaseOf(pc) /\ Cur' = Cur /\ Busy' = Busy /\ Dirty' = Dirty
      /\ Shown(queue)' = Shown(queue) /\ Abstract(saved)' = Abstract(saved)
    BY <1>1 DEF PhaseOf, Cur, Busy, Dirty, InLoop, Shown, Abstract, IsTriggered, Triggered
<1> QED
    BY <1>2, <1>3, Zenon DEF Bulk!vars, PhaseOf, Cur, Busy, Shown, Todo, Dirty

LEMMA ExitMaps ==
    ASSUME PlainGraph, RefineInv, Exit
    PROVE  Bulk!Left
<1>1. /\ pc = "exit" /\ pc' = "idle" /\ ~InLoop /\ ~InLoop' /\ queue = <<>> /\ flight = {}
      /\ UNCHANGED <<flight, queue, saved, savedNulls>>
    BY DEF Exit, Gone, InLoop
<1>2. Shown(queue) = <<>>
    BY <1>1, RefineTypes, ShownEmpty
<1>3. PhaseOf(pc) = "leaving" /\ PhaseOf(pc)' = "idle"
    BY <1>1, Phases
<1>4. /\ Cur' = Cur /\ Busy' = Busy /\ Dirty' = Dirty /\ Todo' = Todo
      /\ Shown(queue)' = Shown(queue) /\ Abstract(saved)' = Abstract(saved)
    BY <1>1 DEF Cur, Busy, Dirty, Todo, Shown, Abstract, IsTriggered, Triggered
<1> QED
    BY <1>2, <1>3, <1>4, Zenon DEF Bulk!Left, PhaseOf, Cur, Busy, Shown, Todo, Dirty

LEMMA CrashMaps ==
    ASSUME PlainGraph, RefineInv, Crash
    PROVE  Bulk!Crash
<1>1. /\ pc # "idle" /\ pc' = "idle" /\ ~InLoop' /\ queue' = <<>> /\ flight' = {}
      /\ UNCHANGED <<saved, savedNulls>>
    BY DEF Crash, Gone, InLoop
<1>2. PhaseOf(pc) # "idle" /\ PhaseOf(pc)' = "idle"
    <2>1. pc \in {"idle", "tick", "run", "exit"}
        BY RefineTypes DEF TypedInv, TypeOK
    <2> QED
        BY <1>1, <2>1, Phases
<1>3. Cur' = Bulk!Nothing /\ Busy' = {} /\ Dirty' = FALSE /\ Todo' \in SUBSET Todo
    <2>1. Cur' = Abstract(EmptyCheckpoint)
        BY <1>1 DEF Cur
    <2> QED
        BY <1>1, <2>1, EmptyIsNothing DEF Busy, Dirty, Todo
<1>4. Shown(queue)' = <<>> /\ Abstract(saved)' = Abstract(saved)
    <2>1. Shown(queue)' = Shown(queue') /\ <<>> \in Seq(Checkpoint)
        BY EmptySeq DEF Shown
    <2>2. Shown(queue') = <<>>
        BY <1>1, <2>1, ShownEmpty
    <2>3. Abstract(saved)' = Abstract(saved)
        BY <1>1 DEF Abstract, IsTriggered, Triggered
    <2> QED
        BY <2>1, <2>2, <2>3
<1> QED
    BY <1>2, <1>3, <1>4, Zenon DEF Bulk!Crash, PhaseOf, Cur, Busy, Shown, Todo, Dirty

LEMMA SameMaps ==
    ASSUME UNCHANGED vars
    PROVE  UNCHANGED Bulk!vars
<1>1. UNCHANGED <<pc, ck, tasks, stop, nulls, flight, queue, saved, savedNulls>>
    BY DEF vars
<1>2. /\ PhaseOf(pc)' = PhaseOf(pc) /\ Cur' = Cur /\ Busy' = Busy /\ Dirty' = Dirty
      /\ Shown(queue)' = Shown(queue) /\ Abstract(saved)' = Abstract(saved) /\ Todo' = Todo
    BY <1>1 DEF PhaseOf, Cur, Busy, Dirty, Todo, InLoop, Shown, Abstract, IsTriggered,
                Triggered
<1> QED
    BY <1>2, Zenon DEF Bulk!vars, PhaseOf, Cur, Busy, Shown, Todo, Dirty

LEMMA NextMaps ==
    ASSUME PlainGraph, RefineInv, [Next]_vars
    PROVE  [Bulk!Next]_Bulk!vars
<1>1. RefineInv'
    BY NextRefine
<1>2. CASE Invoke
    BY <1>1, <1>2, InvokeMaps DEF Bulk!Next
<1>3. ASSUME NEW cs \in Commands \cup {{}}, Resume(cs)
      PROVE  Bulk!Next
    BY <1>1, <1>3, ResumeMaps DEF Bulk!Next
<1>4. CASE Tick
    BY <1>1, <1>4, TickMaps DEF Bulk!Next
<1>5. ASSUME NEW o \in Outcomes(tasks), AfterTick(o)
      PROVE  Bulk!Next
    BY <1>1, <1>5, SuperstepMaps, LastSuperstepMaps DEF Bulk!Next
<1>6. ASSUME NEW o, NEW done, AfterTickRaises(o, done)
      PROVE  Bulk!Next
    <2>1. PICK k : Leave("error", k)
        BY <1>6, Zenon DEF AfterTickRaises
    <2>2. InLoop /\ Durability = "async"
        BY <1>6, NeverRaises DEF AfterTickRaises, InLoop, PlainGraph
    <2> QED
        BY <2>1, <2>2, LeaveMaps DEF Bulk!Next
<1>7. CASE TickStops \/ Drain \/ TickInterrupts \/ Fail
    <2>1. InLoop /\ \E why : Leave(why, ck)
        BY <1>7 DEF TickStops, Drain, TickInterrupts, Fail, InLoop
    <2> QED
        BY <2>1, LeaveMaps DEF Bulk!Next
<1>8. CASE StoreCheckpoint
    BY <1>8, StoreMaps DEF Bulk!Next
<1>9. CASE StoreNulls
    BY <1>9, StoreNullsMaps
<1>10. CASE Exit
    BY <1>10, ExitMaps DEF Bulk!Next
<1>11. CASE Crash
    BY <1>11, CrashMaps DEF Bulk!Next
<1>12. CASE Rest \/ UNCHANGED vars
    BY <1>12, SameMaps DEF Rest
<1> QED
    BY <1>2, <1>3, <1>4, <1>5, <1>6, <1>7, <1>8, <1>9, <1>10, <1>11, <1>12 DEF Next

\* "Channel updates from step N are only visible in step N+1" (main.py): whatever
\* the versions say, each superstep of the loop runs exactly the nodes and Sends
\* that the supersteps before it call for, over all the runs of a thread, crashes,
\* interrupts and Commands between them included.  When no superstep's writes are
\* put halfway, only tasks write to deferred nodes, no graph has both deferred
\* nodes and Sends, and Commands come with "async".
THEOREM LoopImplementsSupersteps ==
    ASSUME PlainGraph
    PROVE  Spec => ImplementsSupersteps
<1>1. Init => RefineInv /\ Bulk!Init
    BY InitRefine, InitMaps
<1>2. RefineInv /\ [Next]_vars => RefineInv'
    BY NextRefine
<1>3. RefineInv /\ [Next]_vars => [Bulk!Next]_Bulk!vars
    BY NextMaps
<1> QED
    BY <1>1, <1>2, <1>3, PTL DEF Spec, ImplementsSupersteps, Bulk!Spec
=============================================================================
