---------------------------- MODULE MCPregelLoop ----------------------------
(***************************************************************************)
(* Two small graphs for PregelLoop.  One sends packets, and its runs fail, *)
(* crash or are drained; the other has a join, a deferred node, interrupts *)
(* and durability "exit".                                                  *)
(***************************************************************************)
EXTENDS PregelLoop, TLC

CONSTANTS r, a, b, j, d,            \* nodes: start, two workers, join, deferred
          p1, p2,                   \* Sends
          cs, ca, cb, cj, cd, cv, tk, w

None == {}
Start == {cs}
GotoB == {{cb}}
OnlyB == {b}
OnlyA == {a}
Nowhere == [p \in {} |-> r]

\* r sends p1 and p2 to a, or p1 and goes to b; a and b join in j.  a may also
\* write a LastValue that triggers b.
SendNodes == {r, a, b, j}
SendChans == {cs, cb, cj, cv, tk}
SendPackets == {p1, p2}
SendTarget == (p1 :> a) @@ (p2 :> a)
SendKind  == (cs :> "ephemeral") @@ (cb :> "ephemeral") @@ (cj :> "barrier")
             @@ (cv :> "last") @@ (tk :> "topic")
SendNames == cj :> {a, b}
SendTriggers == (r :> {cs}) @@ (a :> {}) @@ (b :> {cb, cv}) @@ (j :> {cj})
SendOutputs ==
    (r :> {{<<tk, p1>>, <<tk, p2>>}, {<<tk, p1>>, <<cb, w>>}})
    @@ (a :> {{<<cj, a>>}, {<<cj, a>>, <<cv, w>>}})
    @@ (b :> {{<<cj, b>>}, {<<cj, b>>, <<tk, p1>>}})
    @@ (j :> {{}})

\* r routes to a, b or both; a and b join in j and may also call d, which is
\* deferred; j may go back to a.
JoinNodes == {r, a, b, j, d}
JoinChans == {cs, ca, cb, cj, cd, tk}
JoinKind  == (cs :> "ephemeral") @@ (ca :> "ephemeral") @@ (cb :> "ephemeral")
             @@ (cj :> "barrier") @@ (cd :> "last after finish") @@ (tk :> "topic")
JoinNames == cj :> {a, b}
JoinTriggers == (r :> {cs}) @@ (a :> {ca}) @@ (b :> {cb}) @@ (j :> {cj}) @@ (d :> {cd})
JoinOutputs ==
    (r :> {{<<ca, w>>}, {<<ca, w>>, <<cb, w>>}, {<<cb, w>>, <<cd, w>>}})
    @@ (a :> {{<<cj, a>>}, {<<cj, a>>, <<cb, w>>}})
    @@ (b :> {{<<cj, b>>}, {<<cj, b>>, <<cd, w>>}})
    @@ (j :> {{}, {<<ca, w>>}})
    @@ (d :> {{}})
=============================================================================
