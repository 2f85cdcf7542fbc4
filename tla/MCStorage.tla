------------------------------ MODULE MCStorage ------------------------------
(***************************************************************************)
(* Storage for TLC: two keys, five operations of a store and two backends. *)
(* A behaviour is one of a thread or one of a store, chosen by part, and   *)
(* the variables of the other keep their initial values.                   *)
(***************************************************************************)
EXTENDS Storage

Op(kind, key, ttl, refresh) == [kind |-> kind, key |-> key, ttl |-> ttl, refresh |-> refresh]

FiveOps ==
    {Op("put", "a", TRUE, FALSE), Op("put", "b", FALSE, FALSE), Op("delete", "a", FALSE, FALSE),
     Op("get", "a", FALSE, TRUE), Op("search", "a", FALSE, TRUE)}

VARIABLE part

allVars == <<part, vars, storeVars>>

StorageInit ==
    /\ part \in {"thread", "store"}
    /\ Init /\ Store!Init
    /\ part # "store" => backend = "sqlite"
    /\ part # "thread" => migrated

StorageNext ==
    /\ UNCHANGED part
    /\ \/ part = "thread" /\ Next /\ UNCHANGED storeVars
       \/ part = "store" /\ Store!Next /\ UNCHANGED vars

StorageSpec == StorageInit /\ [][StorageNext]_allVars
=============================================================================
