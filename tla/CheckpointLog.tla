---------------------------- MODULE CheckpointLog ----------------------------
(***************************************************************************)
(* What a thread's checkpointer promises to a reader: checkpoints of one   *)
(* run become durable one superstep at a time, in superstep order, and     *)
(* never disappear.  A reader (get_state, or a run resumed after a crash)  *)
(* therefore always finds a prefix of the run.                             *)
(*                                                                         *)
(* CheckpointPipeline is shown to implement this when no call to the       *)
(* checkpointer fails.                                                     *)
(***************************************************************************)
EXTENDS Naturals

CONSTANT LastStep      \* the last superstep a run may reach

VARIABLE durable       \* the set of supersteps whose checkpoint is durable

Init == durable = {}

\* The checkpoint of the first superstep that is not durable yet is stored.
Persist(n) ==
    /\ n \notin durable
    /\ durable = 0 .. (n - 1)
    /\ durable' = durable \cup {n}

Next == \E n \in 0 .. LastStep : Persist(n)

Spec == Init /\ [][Next]_durable
=============================================================================
