---------------------------- MODULE MCReactAgent ----------------------------
(* An agent with one tool call and an odd recursion_limit, for TLC. *)
EXTENDS ReactAgent, TLC

OneAgent == {[version |-> "v2", pre |-> FALSE, post |-> FALSE, respond |-> FALSE]}
=============================================================================
