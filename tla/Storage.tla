------------------------------- MODULE Storage -------------------------------
(***************************************************************************)
(* What is stored: the checkpoints of a thread in its savers (Threads) and *)
(* the long-term store beside them (Stores), which share no state.         *)
(***************************************************************************)
EXTENDS Threads

CONSTANTS Keys, Backends, Ops, MaxCalls, MaxFaults     \* those of Stores

VARIABLES backend, calls, waiting, rows, batch, faults, lapsed

storeVars == <<backend, calls, waiting, rows, batch, faults, lapsed>>

Store == INSTANCE Stores

\* _dedupe_ops: a read is never older than a put answered before it.
FreshReads == Store!FreshReads
=============================================================================
