----------------------------- MODULE GraphShape -----------------------------
(***************************************************************************)
(* A compiled graph as the Pregel loop sees it: nodes, the channels that   *)
(* trigger them, and what a node may write.                                *)
(*                                                                         *)
(* Only the scheduling is kept of a channel.  An edge to a node writes its *)
(* channel branch:to:<node>, EphemeralValue or, for a deferred node,       *)
(* LastValueAfterFinish; an edge from several nodes writes a barrier with  *)
(* the name of the source; a Send goes to the topic TASKS; a node of a     *)
(* hand-made Pregel may be triggered by a LastValue.  A value other than a *)
(* name or a Send is the token Value.                                      *)
(***************************************************************************)
EXTENDS Integers, Sequences, FiniteSets

CONSTANTS
    Nodes,       \* self.nodes
    Packets,     \* Sends that nodes make
    Target,      \* node of a Send
    Chans,       \* channels that schedule, TASKS among them
    TASKS,       \* the topic of Sends
    Kind,        \* class of a channel
    Names,       \* names a barrier waits for
    Triggers,    \* channels that trigger a node
    Outputs,     \* what a node may write: sets of <<channel, value>>
    Input,       \* channels the input is written to
    Commands,    \* channels an input Command writes to (goto): a set of sets
    Value        \* any value

Barriers == {c \in Chans : Kind[c] \in {"barrier", "barrier after finish"}}
Deferred == {c \in Chans : Kind[c] \in {"last after finish", "barrier after finish"}}

ASSUME GraphAssumption ==
    /\ Nodes \cap Packets = {} /\ Target \in [Packets -> Nodes]
    /\ TASKS \in Chans /\ IsFiniteSet(Chans)
    /\ Kind \in [Chans -> {"ephemeral", "last", "last after finish", "topic",
                           "barrier", "barrier after finish"}]
    /\ \A c \in Chans : Kind[c] = "topic" <=> c = TASKS
    /\ Names \in [Barriers -> SUBSET Nodes] /\ \A c \in Barriers : Names[c] # {}
    /\ Triggers \in [Nodes -> SUBSET (Chans \ {TASKS})]
    /\ Input \subseteq Chans /\ Commands \subseteq SUBSET (Chans \ Barriers)

\* What may be written to a channel.
Values(c) == CASE c = TASKS      -> Packets
               [] c \in Barriers -> Names[c]
               [] OTHER          -> {Value}

Tasks    == Nodes \cup Packets
NodeOf(t) == IF t \in Packets THEN Target[t] ELSE t

\* Outcomes of a superstep's tasks: what each of them writes.
Outcomes(ts) ==
    {o \in [ts -> UNION {Outputs[n] : n \in Nodes}] : \A t \in ts : o[t] \in Outputs[NodeOf(t)]}

\* Values that the tasks write to each channel.
Writes(o) == [c \in Chans |-> {v \in Values(c) : \E t \in DOMAIN o : <<c, v>> \in o[t]}]

\* Writes of an input or of a Command.
WritesTo(cs) == [c \in Chans |-> IF c \in cs THEN Values(c) ELSE {}]
=============================================================================
