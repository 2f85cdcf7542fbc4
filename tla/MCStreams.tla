------------------------------ MODULE MCStreams ------------------------------
(***************************************************************************)
(* What passes between a run and those who look at it, for TLC: questions  *)
(* and the answers to them (Interrupts), and streams that several consumers*)
(* read at once (Streams).  They do not share state; a behaviour is one of *)
(* questions, of a run's streams or of a client's, chosen by part, in which*)
(* the variables of the others keep their initial values.                  *)
(***************************************************************************)
EXTENDS Interrupts, Streams, TLC

CONSTANTS t1, t2

TwoTasks == {t1, t2}
Twice1   == t1 :> 2 @@ t2 :> 1

SubNames == {"s1", "s2"}

\* The channels of the events; nothing is emitted on "tools".
Values == [method |-> "values", name |-> "none"]
Tools  == [method |-> "tools", name |-> "none"]
Ends   == [method |-> "lifecycle", name |-> "none"]

\* The stream that the first subscription opens does not cover the second, the
\* one of the second covers both.
Filters ==
    [s \in SubNames |->
        [channels |-> IF s = "s1" THEN {Values} ELSE {Values, Tools, Ends},
         scoped |-> FALSE, namespaces |-> {}, bounded |-> FALSE, depth |-> 0]]

OneKind == {Values}

\* A client on a longer run, with queues that hold its events, and one fault: a
\* stream that is dropped or refused.  It is not closed.
Longer == INSTANCE ThreadStream
    WITH MaxEvents <- 3, MaxQueue <- 3, MaxFaults <- 1, got <- given, closed <- shut

VARIABLE part

allVars == <<part, vars, runVars, sdkVars>>

StreamsInit ==
    /\ part \in {"asks", "run", "sdk", "longer"}
    /\ Init /\ Run!Init /\ Sdk!Init
    /\ part # "run" => scheduled = "none" /\ pc["output"] = "absent"

\* What the steps of a part leave alone.
AskOnly == part = "asks" /\ UNCHANGED <<part, runVars, sdkVars>>
RunOnly == part = "run" /\ UNCHANGED <<part, vars, sdkVars>>
SdkOnly == part = "sdk" /\ UNCHANGED <<part, vars, runVars>>
LongerOnly == part = "longer" /\ UNCHANGED <<part, vars, runVars>>

StreamsNext ==
    \/ AskOnly /\ Next
    \/ RunOnly /\ Run!Next
    \/ SdkOnly /\ Sdk!Next
    \/ LongerOnly /\ Longer!Next /\ ~jumped' /\ ~shut'

\* The fairness of RunStream and ThreadStream, in their parts: one condition for
\* all of them, since a behaviour stays in its part.
StreamsFairness ==
    WF_allVars(\/ RunOnly /\ Run!Progress
               \/ SdkOnly /\ Sdk!Progress
               \/ LongerOnly /\ Longer!Progress)

StreamsSpec == StreamsInit /\ [][StreamsNext]_allVars /\ StreamsFairness

\* _apump_next: every consumer's iteration ends.
ReadersEnd == part = "run" => Run!ReadersEnd
=============================================================================
