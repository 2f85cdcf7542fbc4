---------------------------- MODULE Subscriptions ----------------------------
(***************************************************************************)
(* subscription.py of the SDK: which events a subscription asks for, the   *)
(* union of several subscriptions, and whether one covers another.         *)
(*                                                                         *)
(* A segment of a namespace is a name, and the id of a task unless it is   *)
(* NoTask ("name:id").  A channel is a record too: a named custom channel  *)
(* ("custom:name") is one with a name.                                     *)
(***************************************************************************)
EXTENDS Integers, Sequences, FiniteSets

NoTask == "none"

\* scoped, bounded: whether namespaces and depth are given.
Filter(chs, scoped, nss, bounded, depth) ==
    [channels |-> chs, scoped |-> scoped, namespaces |-> nss, bounded |-> bounded, depth |-> depth]

Unscoped(chs) == Filter(chs, FALSE, {}, FALSE, 0)

Filters(Chs, Nss) ==
    [channels : SUBSET Chs, scoped : BOOLEAN, namespaces : SUBSET Nss,
     bounded : BOOLEAN, depth : Nat]

\* normalize_segment, and the comparison in is_prefix_match
SegmentMatches(candidate, seg) ==
    candidate = seg \/ (seg.id = NoTask /\ candidate.name = seg.name)

IsPrefixMatch(ns, prefix) ==
    /\ Len(prefix) <= Len(ns)
    /\ \A i \in 1..Len(prefix) : SegmentMatches(ns[i], prefix[i])

NamespaceMatches(ns, f) ==
    \/ ~f.scoped \/ f.namespaces = {}
    \/ \E p \in f.namespaces : IsPrefixMatch(ns, p) /\ (f.bounded => Len(ns) - Len(p) <= f.depth)

Channel(m)  == [method |-> m, name |-> NoTask]
Custom(x)   == [method |-> "custom", name |-> x]

\* infer_channel is the event's channel here; an unknown method has none.
ChannelMatches(ch, f) ==
    ch \in f.channels \/ (ch.method = "custom" /\ Channel("custom") \in f.channels)

MatchesSubscription(e, f) == ChannelMatches(e.channel, f) /\ NamespaceMatches(e.namespace, f)

\* compute_union_filter of a set of filters
ComputeUnionFilter(fs) ==
    LET nss == UNION {f.namespaces : f \in {g \in fs : g.scoped}}
        bounded == \A f \in fs : f.bounded
    IN  Filter(UNION {f.channels : f \in fs},
               (\A f \in fs : f.scoped) /\ nss # {},
               IF \A f \in fs : f.scoped THEN nss ELSE {},
               bounded,
               IF bounded /\ fs # {}
               THEN CHOOSE d \in {f.depth : f \in fs} : \A f \in fs : f.depth <= d
               ELSE 0)

\* One namespace of the target lies within one of the coverer.
Within(tp, cp, c, t) ==
    /\ IsPrefixMatch(tp, cp)
    /\ c.bounded => t.bounded /\ Len(tp) - Len(cp) + t.depth <= c.depth

FilterCovers(c, t) ==
    /\ t.channels \subseteq c.channels
    /\ IF c.scoped
       THEN t.scoped /\ \A tp \in t.namespaces : \E cp \in c.namespaces : Within(tp, cp, c, t)
       ELSE c.bounded => t.bounded /\ t.depth <= c.depth
=============================================================================
