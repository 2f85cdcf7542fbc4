--------------------------- MODULE BulkSynchronous ---------------------------
(***************************************************************************)
(* What the Pregel loop promises: bulk-synchronous supersteps without      *)
(* versions, on a thread that survives its process.                        *)
(*                                                                         *)
(* "computation proceeds in steps, while there are channel updates.        *)
(* Channel updates from step N are only visible in step N+1" (main.py).    *)
(* The nodes of the next superstep are those that the last one wrote to,   *)
(* those whose last predecessor has arrived, and the deferred nodes that   *)
(* were written to once nothing else is left to run.                       *)
(***************************************************************************)
EXTENDS GraphShape

CONSTANTS Durability    \* "async": every superstep is saved, "exit": the last

VARIABLES
    phase,   \* "idle", "ready": between supersteps, "busy", "leaving"
    cur,     \* state of the run
    tasks,   \* tasks of the superstep
    queue,   \* states submitted to the checkpointer and not stored
    disk,    \* last stored state
    todo,    \* channels of the Commands given that disk does not have
    dirty    \* has the run made a new state?

vars == <<phase, cur, tasks, queue, disk, todo, dirty>>

States == [run   : SUBSET Nodes,       \* nodes to run next
           sends : SUBSET Packets,     \* Sends to execute next
           wait  : SUBSET Deferred,    \* deferred nodes' channels, written to
           came  : [Barriers -> SUBSET Nodes]]

Nothing == [run |-> {}, sends |-> {}, wait |-> {}, came |-> [c \in Barriers |-> {}]]

Init ==
    /\ phase = "idle" /\ cur = Nothing /\ tasks = {}
    /\ queue = <<>> /\ disk = Nothing /\ todo = {} /\ dirty = FALSE

TasksOf(s) == s.run \cup s.sends

\* The state after a superstep in which the nodes of s ran and wrote w.
After(s, w) ==
    LET used == UNION {Triggers[n] : n \in s.run}
        came == [c \in Barriers |->
                    (IF c \in used /\ s.came[c] = Names[c] /\ c \notin s.wait THEN {}
                     ELSE s.came[c]) \cup w[c]]
        wait == s.wait \cup {c \in Deferred : IF c \in Barriers THEN came[c] = Names[c]
                                              ELSE w[c] # {}}
        Hit(c) == /\ c \notin Deferred
                  /\ IF c \in Barriers THEN came[c] = Names[c] ELSE w[c] # {}
        hit  == {n \in Nodes : \E c \in Triggers[n] : Hit(c)}
    IN  IF hit = {} /\ w[TASKS] = {}
        THEN [run |-> {n \in Nodes : Triggers[n] \cap wait # {}},
              sends |-> {}, wait |-> {}, came |-> came]
        ELSE [run |-> hit, sends |-> w[TASKS], wait |-> wait, came |-> came]

\* The state with the writes of a Command added.
Commanded(s, cs) ==
    [s EXCEPT !.run   = @ \cup {n \in Nodes : Triggers[n] \cap (cs \ Deferred) # {}},
              !.sends = IF TASKS \in cs THEN Packets ELSE @,
              !.wait  = @ \cup (cs \cap Deferred)]

Put(q, s) == IF Durability = "exit" THEN q ELSE Append(q, s)

Invoke ==
    /\ phase = "idle"
    /\ cur' = After(Commanded(disk, todo), WritesTo(Input))
    /\ queue' = Put(queue, cur')
    /\ phase' = "ready" /\ dirty' = TRUE
    /\ UNCHANGED <<tasks, disk, todo>>

Resume ==
    /\ phase = "idle"
    /\ \E cs \in Commands \cup {{}} : todo' = todo \cup cs
    /\ cur' = Commanded(disk, todo')
    /\ phase' = "ready" /\ dirty' = FALSE
    /\ UNCHANGED <<tasks, queue, disk>>

Begin ==
    /\ phase = "ready" /\ TasksOf(cur) # {}
    /\ tasks' = TasksOf(cur)
    /\ phase' = "busy"
    /\ UNCHANGED <<cur, queue, disk, todo, dirty>>

Superstep ==
    /\ phase = "busy"
    /\ \E o \in Outcomes(tasks) : cur' = After(cur, Writes(o))
    /\ queue' = Put(queue, cur')
    /\ tasks' = {}
    /\ phase' = "ready" /\ dirty' = TRUE
    /\ todo' \in SUBSET todo
    /\ UNCHANGED disk

\* The last superstep of the run, or one that is abandoned: the run leaves.
Leave ==
    /\ phase \in {"ready", "busy"}
    /\ \/ /\ phase = "busy"
          /\ \E o \in Outcomes(tasks) : LET s == After(cur, Writes(o)) IN
                queue' = Append(queue, s)
       \/ queue' = IF Durability = "exit" /\ dirty THEN <<cur>> ELSE queue
    /\ cur' = Nothing /\ tasks' = {} /\ dirty' = FALSE
    /\ phase' = "leaving"
    /\ todo' \in SUBSET todo
    /\ UNCHANGED disk

Store ==
    /\ queue # <<>>
    /\ disk' = Head(queue) /\ queue' = Tail(queue) /\ todo' = {}
    /\ UNCHANGED <<phase, cur, tasks, dirty>>

Left ==
    /\ phase = "leaving" /\ queue = <<>>
    /\ phase' = "idle"
    /\ UNCHANGED <<cur, tasks, queue, disk, todo, dirty>>

\* What is not stored is lost, a Command perhaps.
Crash ==
    /\ phase # "idle"
    /\ phase' = "idle" /\ cur' = Nothing /\ tasks' = {} /\ queue' = <<>> /\ dirty' = FALSE
    /\ todo' \in SUBSET todo
    /\ UNCHANGED disk

Next == Invoke \/ Resume \/ Begin \/ Superstep \/ Leave \/ Store \/ Left \/ Crash

Spec == Init /\ [][Next]_vars
=============================================================================
