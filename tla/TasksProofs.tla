---------------------------- MODULE TasksProofs ----------------------------
(***************************************************************************)
(* Proofs about what goes on inside a task: ReactAgent, for any agents and *)
(* any number of tool calls and runs, NodeAttempts, for any retry policies *)
(* and timeouts, and NestedCalls, for any program and retries.  They share *)
(* no state.                                                               *)
(***************************************************************************)
EXTENDS Tasks, FiniteSetTheorems, WellFoundedInduction, TLAPS

\* What create_react_agent accepts: a recursion_limit is a number, and there is
\* a post_model_hook only in version "v2".  The bound is a number too.
Accepted ==
    /\ Limits \subseteq Nat /\ LastTurn \in Nat
    /\ \A a \in Agents : a.post => a.version = "v2"

-----------------------------------------------------------------------------
(* The routers.                                                            *)

\* The forms that the tasks of a superstep have: one node, or calls.
Forms ==
    {Nothing} \cup {Go({n}) : n \in {"pre", "agent", "post", "tools", "respond"}}
        \cup {Send(cs) : cs \in SUBSET CallIds}

LEMMA FormFacts ==
    /\ \A n : Go(n).nodes = n /\ Go(n).sends = {}
    /\ \A cs : Send(cs).nodes = {} /\ Send(cs).sends = cs
    /\ Nothing.nodes = {} /\ Nothing.sends = {}
    /\ Entry \in {"pre", "agent"}
    /\ Go({Entry}) \in Forms
    /\ Answer \in {Nothing, Go({"respond"})}
BY DEF Go, Send, Nothing, Entry, Answer, Forms

LEMMA FormType ==
    ASSUME NEW x \in Forms
    PROVE  x \in [nodes : SUBSET {"pre", "agent", "post", "tools", "respond"},
                  sends : SUBSET CallIds]
BY DEF Forms, Go, Send, Nothing

\* Where a message with calls cs leads.
LEMMA ContinueFacts ==
    ASSUME NEW cs \in SUBSET CallIds
    PROVE  /\ ShouldContinue(cs) \in Forms
           /\ ShouldContinue(cs).sends \subseteq cs
           /\ ShouldContinue(cs).nodes = {"post"} => agent.post
           /\ ShouldContinue(cs).sends # {} => agent.version # "v1"
           /\ \/ ShouldContinue(cs).nodes = {"post"}
              \/ cs = {}
              \/ ShouldContinue(cs).nodes = {"tools"}
              \/ ShouldContinue(cs).nodes = {} /\ ShouldContinue(cs).sends = cs
BY DEF ShouldContinue, Answer, Forms, Go, Send, Nothing

\* Where the post_model_hook leads.
LEMMA RouterFacts ==
    ASSUME NEW cs, last \subseteq CallIds
    PROVE  /\ Router(cs) \in Forms
           /\ Router(cs).sends \subseteq last
           /\ Router(cs).sends = last \ cs
           /\ last \ cs # {} => Router(cs).nodes = {}
           /\ Router(cs).nodes # {"post"}
BY DEF Router, Answer, Entry, Forms, Go, Send, Nothing

\* A call to a tool that returns directly ends the turn for all the calls that
\* are executed with it, if no Command hides it.
LEMMA DirectRoutes ==
    ASSUME Due \subseteq last, DirectCalls # {}
    PROVE  /\ agent.version = "v1" /\ next.nodes = {"tools"} => RouteOfAll(result) = {}
           /\ agent.version # "v1" => UNION {RouteOfCall(c) : c \in Due} = {}
<1>1. PICK d \in Due \cap direct : \A x \in Ended({"command"}) :
          agent.version = "v1" /\ d > x
    BY DEF DirectCalls
<1>2. CASE agent.version = "v1" /\ next.nodes = {"tools"}
    <2>1. Ended({"command"}) = {c \in last : result[c] = "command"}
        BY <1>2 DEF Ended, Due
    <2>2. d \in {c \in last : \A x \in {e \in last : result[e] = "command"} : c > x}
        BY <1>1, <2>1
    <2> QED
        BY <1>1, <1>2, <2>2 DEF RouteOfAll, RouteToolResponses
<1>3. CASE agent.version # "v1"
    <2>1. \A c \in Due : result[c] # "command"
        BY <1>1, <1>3 DEF Ended
    <2>2. last \cap direct # {}
        BY <1>1
    <2>3. \A c \in Due : RouteOfCall(c) = {}
        BY <2>1, <2>2 DEF RouteOfCall, RouteToolResponses
    <2> QED
        BY <1>3, <2>3
<1> QED
    BY <1>2, <1>3

\* The tools lead to the entry point or end the turn.
LEMMA RouteFacts ==
    /\ RouteOfAll(result) \in {{}, {Entry}}
    /\ UNION {RouteOfCall(c) : c \in Due} \in {{}, {Entry}}
<1>1. \A c \in Due : RouteOfCall(c) \in {{}, {Entry}}
    BY DEF RouteOfCall, RouteToolResponses
<1>2. RouteOfAll(result) \in {{}, {Entry}}
    BY DEF RouteOfAll, RouteToolResponses
<1>3. CASE \E c \in Due : RouteOfCall(c) = {Entry}
    <2>1. UNION {RouteOfCall(c) : c \in Due} = {Entry}
        BY <1>1, <1>3
    <2> QED
        BY <1>2, <2>1
<1>4. CASE \A c \in Due : RouteOfCall(c) = {}
    <2>1. UNION {RouteOfCall(c) : c \in Due} = {}
        BY <1>4
    <2> QED
        BY <1>2, <2>1
<1> QED
    BY <1>1, <1>3, <1>4

-----------------------------------------------------------------------------
(* Types, and what the tasks of a superstep are.                           *)

\* The calls sent to the tools are calls of the last message, and there are
\* none in version "v1"; the hook runs only if there is one.
TaskInv ==
    /\ next \in Forms
    /\ next.nodes = {"post"} => agent.post
    /\ next.sends \subseteq last
    /\ next.sends # {} => agent.version # "v1"

TInv == TypeOK /\ TaskInv

LEMMA DueFacts ==
    ASSUME TInv
    PROVE  /\ Due \subseteq last
           /\ next.nodes \in {{}, {"pre"}, {"agent"}, {"post"}, {"tools"}, {"respond"}}
           /\ next.nodes # {"tools"} /\ next.nodes # {} => Due = {}
           /\ next = Nothing => Due = {}
BY DEF TInv, TypeOK, TaskInv, Forms, Go, Send, Nothing, Due

LEMMA TypeInit == Accepted /\ Init => TInv
<1> SUFFICES ASSUME Accepted, Init
             PROVE  TInv
    OBVIOUS
<1>1. next = Nothing /\ Nothing \in Forms
    BY DEF Init, Forms
<1>2. TaskInv
    BY <1>1, FormFacts DEF Init, TaskInv
<1>3. result \in [CallIds -> Finished \cup {"none", "raise", "ask"}]
    BY DEF Init, NoResults
<1>4. left \in Int /\ turns \in 0 .. LastTurn
    BY DEF Accepted, Init
<1> QED
    BY <1>1, <1>2, <1>3, <1>4, FormType DEF Init, TInv, TypeOK

\* Leaving a run changes nothing that TInv looks at.
LEMMA LeaveType ==
    ASSUME TInv, NEW why \in {"answer", "interrupt", "failure", "crash", "recursion"},
           NEW ok, Leave(why, ok),
           UNCHANGED <<agent, left, next, made, last, direct, answered, turns, abandoned,
                       sorry, returned>>
    PROVE  TInv'
BY DEF TInv, TypeOK, TaskInv, Leave, Finished, Due

LEMMA TypeNext ==
    ASSUME Accepted, TInv, [Next]_vars
    PROVE  TInv'
<1>1. CASE Input
    <2>1. next' \in Forms /\ next'.sends = {} /\ next'.nodes # {"post"}
        BY <1>1, FormFacts DEF Input
    <2>2. left' \in Int
        BY <1>1 DEF Input, Accepted
    <2>3. /\ turns' \in 0 .. LastTurn
          /\ abandoned' \subseteq made'
        BY <1>1 DEF Accepted, Input, Enter, TInv, TypeOK, Unanswered
    <2> QED
        BY <1>1, <2>1, <2>2, <2>3, FormType
        DEF Input, Enter, TInv, TypeOK, TaskInv, NoResults, Finished
<1>2. CASE Resume
    <2>1. left' \in Int
        BY <1>2 DEF Resume, Accepted
    <2>2. turns' \in 0 .. LastTurn
        BY <1>2 DEF Accepted, Resume, Enter, TInv, TypeOK
    <2> QED
        BY <1>2, <2>1, <2>2 DEF Resume, Enter, TInv, TypeOK, TaskInv
<1>3. CASE Tick
    <2>1. CASE Leave("recursion", {}) \/ Leave("answer", {})
        BY <1>3, <2>1, LeaveType DEF Tick
    <2>2. CASE pc' = "step" /\ UNCHANGED <<how, result>>
        BY <1>3, <2>2 DEF Tick, TInv, TypeOK, TaskInv
    <2> QED
        BY <1>3, <2>1, <2>2 DEF Tick
<1>4. CASE PreHook
    <2>1. next' \in Forms /\ next'.sends = {} /\ next'.nodes = {"agent"}
        BY <1>4, FormFacts DEF PreHook, Apply, Forms
    <2> QED
        BY <1>4, <2>1, FormType DEF PreHook, Apply, TInv, TypeOK, TaskInv
<1>5. CASE CallModel
    <2>1. PICK k \in 0 .. 2 :
             LET new == (Cardinality(made) + 1) .. (Cardinality(made) + k)
             IN  /\ new \subseteq CallIds
                 /\ \E ds \in SUBSET new :
                      IF MoreSteps(new, ds)
                      THEN /\ last' = {} /\ sorry' = (new # {})
                           /\ Apply(ShouldContinue({}))
                           /\ UNCHANGED <<made, direct>>
                      ELSE /\ made' = made \cup new /\ last' = new
                           /\ direct' = direct \cup ds
                           /\ Apply(ShouldContinue(new))
                           /\ UNCHANGED sorry
        BY <1>5 DEF CallModel
    <2> DEFINE new == (Cardinality(made) + 1) .. (Cardinality(made) + k)
    <2> HIDE DEF new
    <2>2. new \subseteq CallIds
        BY <2>1 DEF new
    <2>3. PICK ds \in SUBSET new :
              IF MoreSteps(new, ds)
              THEN /\ last' = {} /\ sorry' = (new # {})
                   /\ Apply(ShouldContinue({}))
                   /\ UNCHANGED <<made, direct>>
              ELSE /\ made' = made \cup new /\ last' = new
                   /\ direct' = direct \cup ds
                   /\ Apply(ShouldContinue(new))
                   /\ UNCHANGED sorry
        BY <2>1 DEF new
    <2>4. /\ made' \subseteq CallIds /\ made \subseteq made'
          /\ last' \subseteq made' /\ direct' \subseteq made'
          /\ sorry' \in BOOLEAN /\ left' = left - 1 /\ pc' = "tick"
        BY <2>2, <2>3 DEF Apply, TInv, TypeOK
    <2>5. next' = ShouldContinue(last') /\ last' \subseteq CallIds
        BY <2>2, <2>3 DEF Apply
    <2>6. next' \in Forms /\ next'.sends \subseteq last'
        BY <2>5, ContinueFacts
    <2>7. /\ next'.sends # {} => agent.version # "v1"
          /\ next'.nodes = {"post"} => agent.post
        BY <2>5, ContinueFacts
    <2> QED
        BY <1>5, <2>4, <2>6, <2>7, FormType DEF CallModel, TInv, TypeOK, TaskInv
<1>6. CASE RefuseHistory
    BY <1>6, LeaveType DEF RefuseHistory
<1>7. CASE PostHook
    <2>1. PICK cs \in SUBSET last : answered' = answered \cup cs /\ Apply(Router(cs))
        BY <1>7 DEF PostHook
    <2>2. /\ next' \in Forms /\ next'.sends \subseteq last
          /\ next'.nodes # {"post"}
        BY <2>1, RouterFacts DEF Apply, TInv, TypeOK
    <2>3. agent.version # "v1"
        BY <1>7, Accepted DEF Accepted, PostHook, TInv, TypeOK, TaskInv
    <2> QED
        BY <1>7, <2>1, <2>2, <2>3, FormType DEF PostHook, Apply, TInv, TypeOK, TaskInv
<1>8. CASE Respond
    <2>1. next' \in Forms /\ next'.sends = {} /\ next'.nodes = {}
        BY <1>8, FormFacts DEF Respond, Apply, Forms
    <2> QED
        BY <1>8, <2>1, FormType DEF Respond, Apply, TInv, TypeOK, TaskInv
<1>9. CASE NodeRaises
    BY <1>9, LeaveType DEF NodeRaises
<1>10. ASSUME NEW c \in CallIds, NEW r \in Finished \cup {"raise", "ask"}, RunOne(c, r)
       PROVE  TInv'
    BY <1>10 DEF RunOne, TInv, TypeOK, TaskInv
<1>11. CASE ToolsStop
    BY <1>11, LeaveType DEF ToolsStop
<1>12. CASE ToolsEnd
    <2>1. /\ next' = Go({}) \/ next' = Go({Entry})
        BY <1>12, RouteFacts DEF ToolsEnd, Apply
    <2>2. next' \in Forms /\ next'.sends = {} /\ next'.nodes # {"post"}
        BY <2>1, FormFacts DEF Forms, Nothing
    <2>3. answered' \subseteq made
        BY <1>12, DueFacts DEF ToolsEnd, TInv, TypeOK
    <2>4. pc' = "tick" /\ left' = left - 1 /\ returned' \in BOOLEAN
          /\ result' = NoResults
        BY <1>12 DEF ToolsEnd, Apply
    <2> QED
        BY <1>12, <2>2, <2>3, <2>4, FormType
        DEF ToolsEnd, TInv, TypeOK, TaskInv, NoResults, Finished
<1>13. CASE Crash
    BY <1>13, LeaveType DEF Crash
<1>14. CASE Rest \/ UNCHANGED vars
    BY <1>14 DEF Rest, vars, TInv, TypeOK, TaskInv
<1> QED
    BY <1>1, <1>2, <1>3, <1>4, <1>5, <1>6, <1>7, <1>8, <1>9, <1>10, <1>11, <1>12, <1>13,
       <1>14
    DEF Next

\* The types of the state, and the tasks of every superstep: nodes, or calls of
\* the last message.
THEOREM AgentTypeCorrect ==
    ASSUME Accepted
    PROVE  Spec => []TypeOK
<1>1. Init => TInv
    BY TypeInit
<1>2. TInv /\ [Next]_vars => TInv'
    BY TypeNext
<1>3. TInv => TypeOK
    BY DEF TInv
<1> QED
    BY <1>1, <1>2, <1>3, PTL DEF Spec

-----------------------------------------------------------------------------
(* The history that the model is given.                                    *)

\* Calls that have no answer, for no fault of the caller's.
Owed == Unanswered \ abandoned

\* The calls that the tasks of this superstep will answer, or send to be.
Covered == IF next.nodes = {"post"} THEN last ELSE Due

\* The run may be resumed: what is owed is still among the tasks.
Unfinished == how \in {"interrupt", "failure", "crash"}

\* Unanswered calls are among the tasks, there are steps left for them, and a run
\* that does not leave its tasks to be resumed has answered all.
HistoryInv ==
    /\ Owed \subseteq Covered
    /\ pc # "idle" /\ Owed # {} => left >= IF next.nodes = {"post"} THEN 1 ELSE 0
    /\ pc = "idle" /\ ~Unfinished => Owed = {}

LEMMA HistoryInit == Accepted /\ Init => HistoryInv
BY DEF Init, HistoryInv, Owed, Unanswered, Covered

\* A run that leaves its tasks to be resumed.
LEMMA LeaveHistory ==
    ASSUME TInv, HistoryInv, pc # "idle",
           NEW why \in {"interrupt", "failure", "crash"}, NEW ok, Leave(why, ok),
           UNCHANGED <<agent, left, next, made, last, direct, answered, turns, abandoned,
                       sorry, returned>>
    PROVE  HistoryInv'
BY DEF HistoryInv, Owed, Unanswered, Covered, Due, Unfinished, Leave

LEMMA HistoryNext ==
    ASSUME Accepted, TInv, TInv', HistoryInv, [Next]_vars
    PROVE  HistoryInv'
<1>1. CASE Input
    <2>1. Owed' = {}
        BY <1>1 DEF Input, Enter, Owed, Unanswered, HistoryInv, Unfinished
    <2>2. pc' = "tick"
        BY <1>1 DEF Input, Enter
    <2> QED
        BY <2>1, <2>2 DEF HistoryInv
<1>2. CASE Resume
    <2>1. Owed' = Owed /\ Covered' = Covered /\ pc' = "tick"
        BY <1>2 DEF Resume, Enter, Owed, Unanswered, Covered, Due
    <2>2. left' \in Nat /\ left' >= 1
        BY <1>2 DEF Accepted, Resume
    <2> QED
        BY <2>1, <2>2 DEF HistoryInv
<1>3. CASE Tick
    <2>1. Owed' = Owed /\ Covered' = Covered /\ left' = left /\ next' = next
        BY <1>3 DEF Tick, Owed, Unanswered, Covered, Due
    <2>2. left \in Int
        BY DEF TInv, TypeOK
    <2>3. CASE left < 0
        <3>1. Owed = {}
            BY <1>3, <2>2, <2>3 DEF Tick, HistoryInv
        <3> QED
            BY <2>1, <3>1 DEF HistoryInv
    <2>4. CASE ~(left < 0) /\ next = Nothing
        <3>1. Owed = {}
            BY <2>4, DueFacts, FormFacts DEF HistoryInv, Covered
        <3> QED
            BY <2>1, <3>1 DEF HistoryInv
    <2>5. CASE ~(left < 0) /\ next # Nothing
        <3>1. pc' = "step" /\ pc = "tick"
            BY <1>3, <2>5 DEF Tick
        <3> QED
            BY <2>1, <3>1 DEF HistoryInv
    <2> QED
        BY <2>3, <2>4, <2>5
<1>4. CASE PreHook
    <2>1. Owed = {}
        BY <1>4, DueFacts DEF PreHook, HistoryInv, Covered
    <2>2. Owed' = Owed /\ pc' = "tick"
        BY <1>4 DEF PreHook, Apply, Owed, Unanswered
    <2> QED
        BY <2>1, <2>2 DEF HistoryInv
<1>5. CASE CallModel
    <2>1. pc' = "tick" /\ left' = left - 1 /\ left \in Int
        BY <1>5 DEF CallModel, Apply, TInv, TypeOK
    <2> DEFINE Answers(new, ds) ==
                   IF MoreSteps(new, ds)
                   THEN /\ last' = {} /\ sorry' = (new # {})
                        /\ Apply(ShouldContinue({}))
                        /\ UNCHANGED <<made, direct>>
                   ELSE /\ made' = made \cup new /\ last' = new
                        /\ direct' = direct \cup ds
                        /\ Apply(ShouldContinue(new))
                        /\ UNCHANGED sorry
    <2>0. PICK new \in SUBSET CallIds : \E ds \in SUBSET new : Answers(new, ds)
        BY <1>5 DEF CallModel
    <2>2. PICK ds \in SUBSET new : Answers(new, ds)
        BY <2>0
    <2>3. Unanswered = {} /\ UNCHANGED <<answered, abandoned, agent>>
        BY <1>5 DEF CallModel
    <2>4. CASE MoreSteps(new, ds) \/ new = {}
        <3>1. made' = made
            BY <2>2, <2>4
        <3>2. Owed' = {}
            BY <2>3, <3>1 DEF Owed, Unanswered
        <3> QED
            BY <2>1, <3>2 DEF HistoryInv
    <2>5. CASE ~MoreSteps(new, ds) /\ new # {}
        <3>1. left >= 2
            BY <2>1, <2>5 DEF MoreSteps
        <3>2. last' = new /\ made' = made \cup new /\ next' = ShouldContinue(new)
            BY <2>2, <2>5 DEF Apply
        <3>3. Owed' \subseteq new
            BY <2>3, <3>2 DEF Owed, Unanswered
        <3>4. Covered' = new
            BY <2>5, <3>2, ContinueFacts DEF Covered, Due
        <3> QED
            BY <2>1, <3>1, <3>3, <3>4 DEF HistoryInv
    <2> QED
        BY <2>4, <2>5
<1>6. CASE RefuseHistory
    BY <1>6, LeaveHistory DEF RefuseHistory
<1>7. CASE PostHook
    <2>1. PICK cs \in SUBSET last : answered' = answered \cup cs /\ Apply(Router(cs))
        BY <1>7 DEF PostHook
    <2>2. /\ pc = "step" /\ next.nodes = {"post"} /\ pc' = "tick" /\ left' = left - 1
          /\ left \in Int /\ next' = Router(cs) /\ last' = last /\ last \subseteq CallIds
        BY <1>7, <2>1 DEF PostHook, Apply, TInv, TypeOK
    <2>3. Owed' \subseteq Owed \ cs
        BY <1>7, <2>1 DEF PostHook, Owed, Unanswered
    <2>4. Owed \subseteq last /\ (Owed # {} => left >= 1)
        BY <2>2 DEF HistoryInv, Covered
    <2>5. CASE last \ cs = {}
        <3>1. Owed' = {}
            BY <2>3, <2>4, <2>5
        <3> QED
            BY <2>2, <3>1 DEF HistoryInv
    <2>6. CASE last \ cs # {}
        <3>1. next'.nodes = {} /\ next'.sends = last \ cs
            BY <2>2, <2>6, RouterFacts
        <3>2. Covered' = last \ cs
            BY <3>1 DEF Covered, Due
        <3> QED
            BY <2>2, <2>3, <2>4, <3>1, <3>2 DEF HistoryInv
    <2> QED
        BY <2>5, <2>6
<1>8. CASE Respond
    <2>1. Owed = {}
        BY <1>8, DueFacts DEF Respond, HistoryInv, Covered
    <2>2. Owed' = Owed /\ pc' = "tick"
        BY <1>8 DEF Respond, Apply, Owed, Unanswered
    <2> QED
        BY <2>1, <2>2 DEF HistoryInv
<1>9. CASE NodeRaises
    BY <1>9, LeaveHistory DEF NodeRaises
<1>10. ASSUME NEW c \in CallIds, NEW r \in Finished \cup {"raise", "ask"}, RunOne(c, r)
       PROVE  HistoryInv'
    BY <1>10 DEF RunOne, HistoryInv, Owed, Unanswered, Covered, Due, Unfinished
<1>11. CASE ToolsStop
    BY <1>11, LeaveHistory DEF ToolsStop
<1>12. CASE ToolsEnd
    <2>1. Owed' \subseteq Owed \ Due /\ pc' = "tick"
        BY <1>12 DEF ToolsEnd, Apply, Owed, Unanswered
    <2>2. next.nodes # {"post"}
        BY <1>12, DueFacts DEF ToolsEnd
    <2>3. Owed' = {}
        BY <2>1, <2>2 DEF HistoryInv, Covered
    <2> QED
        BY <2>1, <2>3 DEF HistoryInv
<1>13. CASE Crash
    BY <1>13, LeaveHistory DEF Crash
<1>14. CASE Rest \/ UNCHANGED vars
    BY <1>14 DEF Rest, vars, HistoryInv, Owed, Unanswered, Covered, Due, Unfinished
<1> QED
    BY <1>1, <1>2, <1>3, <1>4, <1>5, <1>6, <1>7, <1>8, <1>9, <1>10, <1>11, <1>12, <1>13,
       <1>14
    DEF Next

\* Whatever hooks and formats the agent has, however many calls its messages make,
\* and however its runs end: the model is refused its history only over calls that
\* were unanswered when a new input was given.
THEOREM ModelSeesAnswers ==
    ASSUME Accepted
    PROVE  Spec => []AnsweredHistory
<1> DEFINE IInv == TInv /\ HistoryInv
<1>1. Init => IInv
    BY TypeInit, HistoryInit
<1>2. IInv /\ [Next]_vars => IInv'
    BY TypeNext, HistoryNext
<1>3. IInv => AnsweredHistory
    BY DueFacts DEF HistoryInv, AnsweredHistory, Owed, Covered
<1> QED
    BY <1>1, <1>2, <1>3, PTL DEF Spec

-----------------------------------------------------------------------------
(* Tools that return directly.                                             *)

\* The turn has ended: no task is left, and the run can only stop.
DirectInv == returned => next = Nothing /\ pc # "step"

LEMMA DirectNext ==
    ASSUME TInv, DirectInv, [Next]_vars
    PROVE  DirectInv'
<1>1. CASE Input
    BY <1>1 DEF Input, DirectInv
<1>2. CASE Resume
    BY <1>2 DEF Resume, DirectInv
<1>3. CASE Tick
    BY <1>3 DEF Tick, Leave, DirectInv
<1>4. CASE PreHook \/ CallModel \/ RefuseHistory \/ PostHook \/ Respond \/ NodeRaises
           \/ ToolsStop
    BY <1>4 DEF PreHook, CallModel, RefuseHistory, PostHook, Respond, NodeRaises, ToolsStop,
                DirectInv
<1>5. ASSUME NEW c \in CallIds, NEW r \in Finished \cup {"raise", "ask"}, RunOne(c, r)
       PROVE  DirectInv'
    BY <1>5 DEF RunOne, DirectInv
<1>6. CASE ToolsEnd
    <2> SUFFICES ASSUME returned'
                 PROVE  next' = Nothing /\ pc' # "step"
        BY DEF DirectInv
    <2>1. DirectCalls # {} /\ pc' = "tick"
        BY <1>6 DEF ToolsEnd, Apply
    <2>2. agent.version = "v1" => next.nodes = {"tools"}
        BY <1>6 DEF ToolsEnd, Due, TInv, TaskInv
    <2>3. next' = Go({})
        BY <1>6, <2>1, <2>2, DueFacts, DirectRoutes DEF ToolsEnd, Apply
    <2> QED
        BY <2>1, <2>3 DEF Nothing
<1>7. CASE Crash
    BY <1>7 DEF Crash, Leave, DirectInv
<1>8. CASE Rest \/ UNCHANGED vars
    BY <1>8 DEF Rest, vars, DirectInv
<1> QED
    BY <1>1, <1>2, <1>3, <1>4, <1>5, <1>6, <1>7, <1>8 DEF Next

\* A tool that returns directly ends the turn, whichever of the calls it was and
\* however many were executed with it, in both versions, if the messages of no
\* Command hide its ToolMessage.
THEOREM DirectToolEndsTurn ==
    ASSUME Accepted
    PROVE  Spec => []DirectEnds
<1> DEFINE IInv == TInv /\ DirectInv
<1>1. Init => IInv
    BY TypeInit DEF Init, DirectInv
<1>2. IInv /\ [Next]_vars => IInv'
    BY TypeNext, DirectNext
<1>3. IInv => DirectEnds
    BY FormFacts DEF DirectInv, DirectEnds
<1> QED
    BY <1>1, <1>2, <1>3, PTL DEF Spec

-----------------------------------------------------------------------------
(* Attempts at a task: NodeAttempts.                                       *)

\* Policies allow at least one attempt, limits are natural numbers, and the
\* exceptions a body may raise are none of the module's own marks.
Policy == [on : SUBSET Attempts!Retryable, max : Nat \ {0}]

CallsAssumption ==
    /\ Policies \in Seq(Policy)
    /\ Calls \subseteq [mode : {"sync", "async"}, run : Nat, idle : Nat,
                        refresh : {"auto", "heartbeat"}]
    /\ Errors \cap {Attempts!Timeout, "none", "running", "abandoned", "gone", "ok", "own command",
                    "bubble", "cancelled", "unsupported", "node cancelled"} = {}

-----------------------------------------------------------------------------
(* Numbers.                                                                *)

LEMMA NatMin ==
    ASSUME NEW S \in SUBSET Nat, S # {}
    PROVE  \E n \in S : \A m \in S : n <= m
<1> DEFINE R == {ss \in Nat \X Nat : ss[1] < ss[2]}
<1>1. IsWellFoundedOn(R, Nat)
    BY NatLessThanWellFounded DEF OpToRel
<1>2. \A a, b \in Nat : <<a, b>> \in R <=> a < b
    OBVIOUS
<1> HIDE DEF R
<1>3. PICK x \in S : \A y \in S : <<y, x>> \notin R
    BY <1>1, WFMin, Zenon
<1>4. \A m \in S : m \in Nat /\ x \in Nat /\ ~(m < x)
    BY <1>2, <1>3
<1>5. \A m \in S : x <= m
    BY <1>4
<1> QED
    BY <1>5

\* Finitely many numbers have a bound: the shortest prefix without one would
\* be longer than a prefix that has one.
LEMMA SeqBound ==
    ASSUME NEW n \in Nat, NEW s, \A i \in 1 .. n : s[i] \in Nat
    PROVE  \E b \in Nat : \A i \in 1 .. n : s[i] <= b
<1> DEFINE Bounded(k) == \E b \in Nat : \A i \in 1 .. k : s[i] <= b
           Bad == {k \in Nat : k <= n /\ ~Bounded(k)}
<1> SUFFICES ASSUME ~Bounded(n) PROVE FALSE
    OBVIOUS
<1>1. n \in Bad
    OBVIOUS
<1>2. PICK k \in Bad : \A m \in Bad : k <= m
    BY <1>1, NatMin
<1>3. k # 0
    <2>1. \A i \in 1 .. 0 : s[i] <= 0
        OBVIOUS
    <2>2. Bounded(0)
        BY <2>1
    <2> QED
        BY <1>2, <2>2
<1>4. k \in Nat /\ k - 1 \in Nat /\ k <= n /\ ~Bounded(k)
    BY <1>2, <1>3
<1>5. Bounded(k - 1)
    <2>1. k - 1 \notin Bad
        <3>1. \A m \in Bad : k <= m
            BY <1>2
        <3> HIDE DEF Bad
        <3> QED
            BY <3>1, <1>4
    <2>2. k - 1 <= n
        BY <1>4
    <2> QED
        BY <1>4, <2>1, <2>2
<1>6. PICK b \in Nat : \A i \in 1 .. (k - 1) : s[i] <= b
    BY <1>5
<1>7. s[k] \in Nat
    BY <1>3, <1>4
<1>8. PICK c \in Nat : b <= c /\ s[k] <= c
    <2>1. b <= b + s[k] /\ s[k] <= b + s[k] /\ b + s[k] \in Nat
        BY <1>7
    <2> QED
        BY <2>1
<1>9. \A i \in 1 .. k : s[i] <= c
    <2> SUFFICES ASSUME NEW i \in 1 .. k PROVE s[i] <= c
        OBVIOUS
    <2>1. CASE i = k
        BY <2>1, <1>8
    <2>2. CASE i # k
        <3>1. i \in 1 .. (k - 1) /\ s[i] \in Nat
            BY <2>2, <1>4
        <3> QED
            BY <3>1, <1>6, <1>8
    <2> QED
        BY <2>1, <2>2
<1>10. Bounded(k)
    BY <1>9
<1> QED
    BY <1>4, <1>10

LEMMA PolicySeq ==
    ASSUME CallsAssumption
    PROVE  /\ Len(Policies) \in Nat /\ DOMAIN Policies = 1 .. Len(Policies)
           /\ \A i \in 1 .. Len(Policies) : Policies[i] \in Policy
<1>1. Policies \in Seq(Policy)
    BY DEF CallsAssumption
<1> QED
    BY <1>1

\* MaxExec exists: no policy allows more attempts.
LEMMA MaxExecBound ==
    ASSUME CallsAssumption
    PROVE  /\ Attempts!MaxExec \in Nat /\ Attempts!MaxExec >= 1
           /\ \A i \in DOMAIN Policies : Policies[i].max \in Nat /\ Policies[i].max <= Attempts!MaxExec
<1> DEFINE M == {Policies[i].max : i \in DOMAIN Policies} \cup {1}
           n == Len(Policies)
           s == [i \in 1 .. n |-> Policies[i].max]
<1>1. n \in Nat /\ DOMAIN Policies = 1 .. n /\ \A i \in 1 .. n : Policies[i].max \in Nat
    <2>1. n \in Nat /\ DOMAIN Policies = 1 .. n /\ \A i \in 1 .. n : Policies[i] \in Policy
        BY PolicySeq
    <2> QED
        BY <2>1 DEF Policy
<1>2. \E b \in Nat : \A i \in 1 .. n : s[i] <= b
    <2>1. \A i \in 1 .. n : s[i] \in Nat
        BY <1>1
    <2> HIDE DEF s, n
    <2> QED
        BY <1>1, <2>1, SeqBound DEF n
<1>3. PICK b \in Nat : \A i \in 1 .. n : Policies[i].max <= b
    BY <1>2
<1> DEFINE U == {c \in Nat : \A k \in M : k <= c}
<1>4. M \subseteq Nat /\ 1 \in M
    BY <1>1
<1> HIDE DEF n, s
<1>5. b + 1 \in U
    <2>1. \A k \in M : k <= b + 1
        <3> SUFFICES ASSUME NEW k \in M PROVE k <= b + 1
            OBVIOUS
        <3>1. CASE k = 1
            BY <3>1
        <3>2. ASSUME NEW i \in 1 .. n, k = Policies[i].max PROVE k <= b + 1
            <4>1. k <= b /\ k \in Nat
                BY <1>1, <1>3, <3>2
            <4> QED
                BY <4>1
        <3> QED
            BY <1>1, <3>1, <3>2
    <2> QED
        BY <2>1
<1> HIDE DEF M
<1>6. PICK c \in U : \A d \in U : c <= d
    BY <1>5, NatMin
<1>7. c \in M
    <2> SUFFICES ASSUME c \notin M PROVE FALSE
        OBVIOUS
    <2>1. c \in Nat /\ \A k \in M : k \in Nat /\ k <= c /\ k # c
        BY <1>4
    <2>2. c >= 1 /\ c - 1 \in Nat
        BY <1>4, <2>1
    <2>3. \A k \in M : k <= c - 1
        BY <2>1
    <2>4. c - 1 \in U
        BY <2>2, <2>3
    <2> QED
        BY <1>6, <2>1, <2>4
<1>8. \E m \in M : \A k \in M : m >= k
    <2>1. \A k \in M : k \in Nat /\ k <= c /\ c \in Nat
        BY <1>4
    <2> QED
        BY <1>7, <2>1
<1>9. Attempts!MaxExec \in M /\ \A k \in M : Attempts!MaxExec >= k
    BY <1>8 DEF M, Attempts!MaxExec
<1>10. \A i \in DOMAIN Policies : Policies[i].max \in M
    BY DEF M
<1> QED
    BY <1>4, <1>9, <1>10

\* The policy that decides on an exception is one of the policies.
LEMMA MatchingPolicy ==
    ASSUME CallsAssumption, NEW e, Attempts!Matching(e) # 0
    PROVE  Attempts!Matching(e) \in DOMAIN Policies
<1> DEFINE M == {i \in DOMAIN Policies : e \in Policies[i].on}
<1>1. M # {} /\ M \in SUBSET Nat
    BY PolicySeq DEF Attempts!Matching
<1>2. \E i \in M : \A k \in M : i <= k
    <2> HIDE DEF M
    <2> QED
        BY <1>1, NatMin
<1>3. Attempts!Matching(e) = CHOOSE i \in M : \A k \in M : i <= k
    BY <1>1 DEF Attempts!Matching
<1>4. Attempts!Matching(e) \in M
    BY <1>2, <1>3
<1> QED
    BY <1>4
-----------------------------------------------------------------------------
(* Type correctness, and the count of the attempts.                        *)

\* Between two attempts every one so far has failed, within the policies; the
\* body of an attempt runs while run_with_retry waits for it, and goes on
\* after that only if it was abandoned by a timed attempt.
TriesInv ==
    /\ tryPc = "enter" => exec = 0 /\ attempts = 0
    /\ tryPc \in {"begin", "sleep"} => exec = attempts /\ attempts < Attempts!MaxExec
    /\ tryPc = "body" => exec = attempts + 1
    /\ exec <= Attempts!MaxExec
    /\ tryPc # "end" => outcome = "none"
    /\ \A i \in Attempts!Execs : body[i] = "running" => i = exec /\ tryPc = "body"
    /\ \A i \in Attempts!Execs : body[i] = "abandoned" => Attempts!Timed

LEMMA ExecNumbers ==
    ASSUME CallsAssumption
    PROVE  /\ Attempts!MaxExec \in Nat /\ Attempts!MaxExec >= 1
           /\ \A n \in Attempts!Execs : n \in Nat /\ n # 0
           /\ \A n \in 1 .. Attempts!MaxExec : n \in Attempts!Execs
<1>1. Attempts!MaxExec \in Nat /\ Attempts!MaxExec >= 1
    BY MaxExecBound
<1> QED
    BY <1>1 DEF Attempts!Execs

LEMMA CallTimes ==
    ASSUME CallsAssumption, NEW c \in Calls
    PROVE  c.run \in Nat /\ c.idle \in Nat
BY DEF CallsAssumption

LEMMA Marks ==
    ASSUME CallsAssumption
    PROVE  /\ Attempts!Timeout \notin Errors
           /\ \A o \in {"ok", "bubble", "cancelled", "node cancelled", "none", "unsupported"} :
                  o \in Attempts!Outcomes /\ o \notin Attempts!Retryable
           /\ \A o \in Attempts!Retryable : o \in Attempts!Outcomes /\ o # "none"
<1>1. Errors \cap {Attempts!Timeout, "none", "ok", "bubble", "cancelled", "unsupported",
                   "node cancelled"} = {}
    BY DEF CallsAssumption
<1> QED
    BY <1>1 DEF Attempts!Outcomes, Attempts!Retryable, Attempts!Timeout

LEMMA InitInv ==
    ASSUME CallsAssumption, Attempts!Init
    PROVE  Attempts!TypeOK /\ TriesInv
<1>0. call \in Calls /\ call.run \in Nat /\ call.idle \in Nat
    BY CallTimes DEF Attempts!Init
<1>1. Attempts!TypeOK
    <2>1. tryPc \in {"enter", "begin", "body", "sleep", "end"} /\ outcome \in Attempts!Outcomes
        BY DEF Attempts!Init, Attempts!Outcomes
    <2>2. attempts \in 0 .. Attempts!MaxExec /\ exec \in {0} \cup Attempts!Execs
        BY ExecNumbers DEF Attempts!Init
    <2>3. since \in 0 .. call.run /\ quiet \in 0 .. call.idle
        BY <1>0 DEF Attempts!Init
    <2>4. body \in [Attempts!Execs -> {"none", "running", "abandoned", "gone"} \cup Attempts!BodyEnds]
        BY DEF Attempts!Init
    <2>5. reports \in [started : SUBSET Attempts!Execs, finished : SUBSET Attempts!Execs]
        BY DEF Attempts!Init
    <2> QED
        BY <1>0, <2>1, <2>2, <2>3, <2>4, <2>5 DEF Attempts!Init, Attempts!TypeOK
<1>2. TriesInv
    BY ExecNumbers DEF Attempts!Init, TriesInv
<1> QED
    BY <1>1, <1>2

\* An exception ends the task, or leaves it one more attempt.
LEMMA FailEnds ==
    ASSUME CallsAssumption, Attempts!TypeOK, TriesInv, tryPc = "body", NEW e \in Attempts!Retryable, Attempts!Fail(e)
    PROVE  \/ /\ tryPc' = "end" /\ outcome' = e /\ attempts' \in {attempts, exec}
              /\ Attempts!Matching(e) # 0 => exec >= Policies[Attempts!Matching(e)].max
           \/ /\ tryPc' = "sleep" /\ outcome' = outcome /\ attempts' = exec
              /\ exec < Attempts!MaxExec
<1>1. CASE Attempts!Matching(e) = 0
    BY <1>1 DEF Attempts!Fail
<1>2. CASE Attempts!Matching(e) # 0
    <2>1. /\ attempts' = exec /\ exec \in Nat
          /\ IF exec >= Policies[Attempts!Matching(e)].max THEN tryPc' = "end" /\ outcome' = e
             ELSE tryPc' = "sleep" /\ outcome' = outcome
        BY <1>2, ExecNumbers DEF Attempts!Fail, Attempts!GiveUp, TriesInv, Attempts!TypeOK
    <2>2. Policies[Attempts!Matching(e)].max \in Nat /\ Policies[Attempts!Matching(e)].max <= Attempts!MaxExec
        BY <1>2, MatchingPolicy, MaxExecBound
    <2> QED
        BY <2>1, <2>2, ExecNumbers
<1> QED
    BY <1>1, <1>2

\* The end of a body ends the task, or is an exception, or is a command whose
\* writers raise one.
LEMMA WakeEnds ==
    ASSUME CallsAssumption, Attempts!Wake
    PROVE  \/ \E o \in {"ok", "bubble", "cancelled", "node cancelled"} : Attempts!Finish(o)
           \/ \E e \in Errors : Attempts!Fail(e)
           \/ body[exec] = "own command" /\ \E e \in Errors : Attempts!Finish(e)
<1> DEFINE o == body[exec]
<1>1. /\ o \in Attempts!BodyEnds
      /\ CASE o = "ok"          -> Attempts!Finish("ok") /\ UNCHANGED writes
           [] o = "own command" -> Attempts!RunWriters
           [] o = "bubble"      -> Attempts!Finish("bubble") /\ UNCHANGED writes
           [] o = "cancelled"   -> Attempts!Cancelled /\ UNCHANGED writes
           [] OTHER             -> Attempts!Fail(o) /\ UNCHANGED writes
    BY DEF Attempts!Wake
<1> HIDE DEF o
<1>2. CASE o = "ok"
    BY <1>1, <1>2
<1>3. CASE o = "own command"
    <2>1. Attempts!Finish("ok") \/ \E e \in Errors : Attempts!Finish(e)
        BY <1>1, <1>3 DEF Attempts!RunWriters
    <2>2. body[exec] = "own command"
        BY <1>3 DEF o
    <2> QED
        BY <2>1, <2>2
<1>4. CASE o = "bubble"
    BY <1>1, <1>4
<1>5. CASE o = "cancelled"
    BY <1>1, <1>5 DEF Attempts!Cancelled
<1>6. CASE o \notin {"ok", "own command", "bubble", "cancelled"}
    <2>1. Attempts!Fail(o) /\ o \in Errors
        BY <1>1, <1>6 DEF Attempts!BodyEnds
    <2> QED
        BY <2>1
<1> QED
    BY <1>2, <1>3, <1>4, <1>5, <1>6

\* How the task goes on after an attempt.
Went ==
    /\ tryPc' \in {"sleep", "end"} /\ outcome' \in Attempts!Outcomes /\ attempts' \in 0 .. Attempts!MaxExec
    /\ tryPc' = "sleep" => exec = attempts' /\ attempts' < Attempts!MaxExec /\ outcome' = "none"
    /\ (/\ tryPc' = "end" /\ outcome' \in Attempts!Retryable
        /\ Attempts!Matching(outcome') # 0 /\ body[exec] # "own command")
              => exec >= Policies[Attempts!Matching(outcome')].max

LEMMA BodyNumbers ==
    ASSUME CallsAssumption, Attempts!TypeOK, TriesInv, tryPc = "body"
    PROVE  /\ attempts \in 0 .. Attempts!MaxExec /\ exec \in 1 .. Attempts!MaxExec /\ exec \in Attempts!Execs
           /\ outcome = "none" /\ Attempts!MaxExec \in Nat
<1>1. Attempts!MaxExec \in Nat /\ \A n \in Attempts!Execs : n \in Nat
    BY ExecNumbers
<1>2. attempts \in 0 .. Attempts!MaxExec /\ exec \in {0} \cup Attempts!Execs
    BY DEF Attempts!TypeOK
<1>3. exec <= Attempts!MaxExec /\ outcome = "none" /\ exec = attempts + 1
    BY DEF TriesInv
<1> QED
    BY <1>1, <1>2, <1>3

LEMMA AttemptOver ==
    ASSUME CallsAssumption, Attempts!TypeOK, TriesInv, tryPc = "body",
           NEW o \in {"ok", "bubble", "cancelled", "node cancelled"}, Attempts!Finish(o)
    PROVE  Went
<1>1. tryPc' = "end" /\ outcome' = o /\ attempts' = attempts
    BY DEF Attempts!Finish
<1>2. o \in Attempts!Outcomes /\ o \notin Attempts!Retryable
    BY Marks
<1> QED
    BY <1>1, <1>2, BodyNumbers DEF Went

LEMMA Failed ==
    ASSUME CallsAssumption, Attempts!TypeOK, TriesInv, tryPc = "body", NEW e \in Attempts!Retryable, Attempts!Fail(e)
    PROVE  Went
<1>1. e \in Attempts!Outcomes /\ "none" \in Attempts!Outcomes
    BY Marks
<1>2. CASE /\ tryPc' = "end" /\ outcome' = e /\ attempts' \in {attempts, exec}
           /\ Attempts!Matching(e) # 0 => exec >= Policies[Attempts!Matching(e)].max
    <2>1. tryPc' \in {"sleep", "end"} /\ tryPc' # "sleep" /\ outcome' \in Attempts!Outcomes
        BY <1>1, <1>2
    <2>2. attempts' \in 0 .. Attempts!MaxExec
        BY <1>2, BodyNumbers
    <2>3. Attempts!Matching(outcome') # 0 => exec >= Policies[Attempts!Matching(outcome')].max
        BY <1>2
    <2> QED
        BY <2>1, <2>2, <2>3 DEF Went
<1>3. CASE tryPc' = "sleep" /\ outcome' = outcome /\ attempts' = exec /\ exec < Attempts!MaxExec
    BY <1>1, <1>3, BodyNumbers DEF Went
<1> QED
    BY <1>2, <1>3, FailEnds

LEMMA WakeOver ==
    ASSUME CallsAssumption, Attempts!TypeOK, TriesInv, Attempts!Wake
    PROVE  Went
<1>1. tryPc = "body"
    BY DEF Attempts!Wake
<1>2. Errors \subseteq Attempts!Retryable
    BY DEF Attempts!Retryable
<1>3. ASSUME body[exec] = "own command", NEW e \in Errors, Attempts!Finish(e)
      PROVE  Went
    <2>1. tryPc' = "end" /\ outcome' = e /\ attempts' = attempts
        BY <1>3 DEF Attempts!Finish
    <2>2. e \in Attempts!Outcomes
        BY <1>2, Marks
    <2> QED
        BY <1>1, <1>3, <2>1, <2>2, BodyNumbers DEF Went
<1> QED
    BY <1>1, <1>2, <1>3, WakeEnds, AttemptOver, Failed, Zenon

\* No body raises the exception of the watchdogs.
LEMMA WakeOutcome ==
    ASSUME CallsAssumption, Attempts!TypeOK, TriesInv, Attempts!Wake
    PROVE  outcome' # Attempts!Timeout
<1>1. tryPc = "body" /\ outcome = "none"
    BY DEF Attempts!Wake, TriesInv
<1>2. Attempts!Timeout \notin Errors
      /\ Attempts!Timeout \notin {"ok", "bubble", "cancelled", "node cancelled", "none"}
    BY Marks DEF Attempts!Timeout
<1>3. ASSUME NEW o \in {"ok", "bubble", "cancelled", "node cancelled"} \cup Errors, Attempts!Finish(o)
      PROVE  outcome' # Attempts!Timeout
    BY <1>2, <1>3 DEF Attempts!Finish
<1>4. ASSUME NEW e \in Errors, Attempts!Fail(e)
      PROVE  outcome' # Attempts!Timeout
    BY <1>1, <1>2, <1>4 DEF Attempts!Fail
<1> QED
    BY <1>3, <1>4, WakeEnds, Zenon

\* What the end of a body adds to the writes is that attempt's.
LEMMA WakeWrites ==
    ASSUME Attempts!Wake
    PROVE  writes' \subseteq writes \cup {exec}
<1> DEFINE o == body[exec]
<1>1. CASE o = "own command"
    <2>1. Attempts!RunWriters
        BY <1>1 DEF Attempts!Wake
    <2> QED
        BY <2>1 DEF Attempts!RunWriters
<1>2. CASE o # "own command"
    BY <1>2 DEF Attempts!Wake
<1> QED
    BY <1>1, <1>2

LEMMA TimeOutOver ==
    ASSUME CallsAssumption, Attempts!TypeOK, TriesInv, Attempts!TimeOut
    PROVE  Went
BY Failed DEF Attempts!TimeOut, Attempts!Retryable

\* The body of an attempt ends, or is left to itself by a timed attempt.
LEMMA BodiesLeft ==
    ASSUME Attempts!TypeOK, TriesInv, tryPc = "body", exec \in Attempts!Execs, UNCHANGED call,
           \/ body[exec] # "running" /\ body' = body
           \/ Attempts!Timed /\ body' = [body EXCEPT ![exec] = "abandoned"]
    PROVE  \A i \in Attempts!Execs : /\ body'[i] # "running"
                                     /\ body'[i] = "abandoned" => Attempts!Timed'
BY DEF Attempts!TypeOK, TriesInv, Attempts!Timed

LEMMA NextInv ==
    ASSUME CallsAssumption, Attempts!TypeOK, TriesInv, [Attempts!Next]_Attempts!vars
    PROVE  (Attempts!TypeOK /\ TriesInv)'
<1>0. Attempts!MaxExec \in Nat /\ Attempts!MaxExec >= 1 /\ exec \in Nat /\ "none" \in Attempts!Outcomes
    <2>1. Attempts!MaxExec \in Nat /\ Attempts!MaxExec >= 1 /\ \A n \in Attempts!Execs : n \in Nat
        BY ExecNumbers
    <2>2. exec \in {0} \cup Attempts!Execs
        BY DEF Attempts!TypeOK
    <2>3. "none" \in Attempts!Outcomes
        BY Marks
    <2> QED
        BY <2>1, <2>2, <2>3
<1>1. ASSUME NEW hit \in BOOLEAN, Attempts!Enter(hit)
      PROVE  (Attempts!TypeOK /\ TriesInv)'
    <2>1. /\ tryPc' \in {"end", "begin"} /\ outcome' \in Attempts!Outcomes
          /\ tryPc' = "begin" => outcome' = outcome
          /\ writes' \subseteq writes \cup {Attempts!Cached}
          /\ UNCHANGED <<call, attempts, exec, body, active, resuming, Attempts!clockVars, cancel, reports>>
        <3>1. outcome \in Attempts!Outcomes /\ "ok" \in Attempts!Outcomes /\ "unsupported" \in Attempts!Outcomes
            BY DEF Attempts!TypeOK, Attempts!Outcomes
        <3> QED
            BY <1>1, <3>1 DEF Attempts!Enter
    <2>2. Attempts!TypeOK'
        BY <2>1 DEF Attempts!TypeOK, Attempts!clockVars
    <2>3. exec = 0 /\ attempts = 0 /\ outcome = "none" /\ \A i \in Attempts!Execs : body[i] # "running"
        BY <1>1 DEF Attempts!Enter, TriesInv
    <2>4. TriesInv'
        BY <1>0, <2>1, <2>3 DEF TriesInv, Attempts!Timed
    <2> QED
        BY <2>2, <2>4
<1>2. CASE Attempts!Begin
    <2>1. exec = attempts /\ attempts < Attempts!MaxExec /\ exec' = exec + 1 /\ outcome = "none"
        BY <1>2 DEF Attempts!Begin, TriesInv
    <2>2. exec' \in Attempts!Execs /\ exec' <= Attempts!MaxExec
        BY <1>0, <2>1, ExecNumbers
    <2>3. /\ writes' = {} /\ body' = [body EXCEPT ![exec'] = "running"]
          /\ active' \subseteq active \cup {exec'}
          /\ since' = 0 /\ quiet' = 0 /\ fired' = {} /\ tryPc' = "body"
          /\ UNCHANGED <<call, outcome, attempts, resuming, cancel>>
        BY <1>2 DEF Attempts!Begin, Attempts!Cleared
    <2>4. reports' \in [started : SUBSET Attempts!Execs, finished : SUBSET Attempts!Execs]
        BY <1>2, <2>2 DEF Attempts!Begin, Attempts!TypeOK
    <2>5. call.run \in Nat /\ call.idle \in Nat
        BY CallTimes DEF Attempts!TypeOK
    <2>6. Attempts!TypeOK'
        BY <2>2, <2>3, <2>4, <2>5 DEF Attempts!TypeOK
    <2>7. \A i \in Attempts!Execs : /\ body'[i] = "running" => i = exec'
                                    /\ body'[i] = "abandoned" => body[i] = "abandoned"
        BY <1>2, <2>2, <2>3 DEF Attempts!TypeOK, TriesInv, Attempts!Begin
    <2>8. TriesInv'
        BY <2>1, <2>2, <2>3, <2>7 DEF TriesInv, Attempts!Timed
    <2> QED
        BY <2>6, <2>8
<1>3. ASSUME NEW i \in Attempts!Execs, Attempts!Send(i)
      PROVE  (Attempts!TypeOK /\ TriesInv)'
    <2>1. /\ writes' \subseteq writes \cup {i} /\ quiet' \in {0, quiet}
          /\ UNCHANGED <<call, tryPc, outcome, attempts, exec, body, active, resuming>>
          /\ UNCHANGED <<since, fired, cancel, reports>>
        BY <1>3 DEF Attempts!Send
    <2>2. call.run \in Nat /\ call.idle \in Nat
        BY CallTimes DEF Attempts!TypeOK
    <2> QED
        BY <2>1, <2>2 DEF Attempts!TypeOK, TriesInv, Attempts!Timed
<1>4. ASSUME NEW i \in Attempts!Execs, Attempts!Touch(i)
      PROVE  (Attempts!TypeOK /\ TriesInv)'
    <2>1. /\ quiet' \in {0, quiet}
          /\ UNCHANGED <<call, tryPc, outcome, attempts, Attempts!bodyVars, resuming>>
          /\ UNCHANGED <<since, fired, cancel, reports>>
        BY <1>4 DEF Attempts!Touch
    <2>2. call.run \in Nat /\ call.idle \in Nat
        BY CallTimes DEF Attempts!TypeOK
    <2> QED
        BY <2>1, <2>2 DEF Attempts!TypeOK, TriesInv, Attempts!Timed, Attempts!bodyVars
<1>5. ASSUME NEW i \in Attempts!Execs, NEW o \in Attempts!BodyEnds, Attempts!End(i, o)
      PROVE  (Attempts!TypeOK /\ TriesInv)'
    <2>1. /\ body' = [body EXCEPT ![i] = IF @ = "running" THEN o ELSE "gone"]
          /\ UNCHANGED <<call, tryPc, outcome, attempts, exec, active, writes, resuming>>
          /\ UNCHANGED <<Attempts!clockVars, cancel, reports>>
        BY <1>5 DEF Attempts!End
    <2>2. o # "running" /\ o # "abandoned"
        <3>1. Errors \cap {"running", "abandoned"} = {}
            BY DEF CallsAssumption
        <3> QED
            BY <3>1 DEF Attempts!BodyEnds
    <2>3. \A k \in Attempts!Execs : body'[k] \in {"running", "abandoned"} => body'[k] = body[k]
        BY <2>1, <2>2 DEF Attempts!TypeOK
    <2>4. Attempts!TypeOK'
        BY <2>1 DEF Attempts!TypeOK, Attempts!clockVars
    <2>5. TriesInv'
        BY <2>1, <2>3 DEF TriesInv, Attempts!Timed
    <2> QED
        BY <2>4, <2>5
<1>6. CASE Attempts!Tick
    <2>1. /\ since' = IF since < call.run THEN since + 1 ELSE since
          /\ quiet' = IF quiet < call.idle THEN quiet + 1 ELSE quiet
          /\ UNCHANGED <<call, tryPc, outcome, attempts, Attempts!bodyVars, resuming, fired, cancel, reports>>
        BY <1>6 DEF Attempts!Tick
    <2>2. call.run \in Nat /\ call.idle \in Nat
        BY CallTimes DEF Attempts!TypeOK
    <2>3. since' \in 0 .. call.run /\ quiet' \in 0 .. call.idle
        BY <2>1, <2>2 DEF Attempts!TypeOK
    <2> QED
        BY <2>1, <2>3 DEF Attempts!TypeOK, TriesInv, Attempts!Timed, Attempts!bodyVars
<1>7. ASSUME NEW k \in {"idle", "run"}, Attempts!Watchdog(k)
      PROVE  (Attempts!TypeOK /\ TriesInv)'
    BY <1>7 DEF Attempts!Watchdog, Attempts!TypeOK, TriesInv, Attempts!Timed, Attempts!bodyVars
<1>8. CASE Attempts!Wake
    <2>1. /\ tryPc = "body" /\ body[exec] # "running" /\ body' = body
          /\ writes' \subseteq writes \cup {exec}
          /\ active' \subseteq active /\ cancel' \in {"delivered", cancel}
          /\ UNCHANGED <<call, exec, resuming, Attempts!clockVars>>
        <3>1. "running" \notin Attempts!BodyEnds
            BY DEF CallsAssumption, Attempts!BodyEnds
        <3>2. writes' \subseteq writes \cup {exec}
            BY <1>8, WakeWrites
        <3> QED
            BY <1>8, <3>1, <3>2 DEF Attempts!Wake
    <2>2. exec \in Attempts!Execs
        BY <2>1, BodyNumbers
    <2>3. reports' \in [started : SUBSET Attempts!Execs, finished : SUBSET Attempts!Execs]
        BY <1>8, <2>2 DEF Attempts!Wake, Attempts!Report, Attempts!TypeOK
    <2>4. Went
        BY <1>8, WakeOver
    <2>5. Attempts!TypeOK'
        BY <2>1, <2>2, <2>3, <2>4 DEF Attempts!TypeOK, Went, Attempts!clockVars
    <2>6. \A i \in Attempts!Execs : body'[i] # "running" /\ (body'[i] = "abandoned" => Attempts!Timed')
        BY <2>1, <2>2, BodiesLeft DEF Attempts!Timed
    <2>7. TriesInv'
        BY <2>1, <2>4, <2>6 DEF TriesInv, Went
    <2> QED
        BY <2>5, <2>7
<1>9. CASE Attempts!TimeOut
    <2>1. /\ tryPc = "body" /\ Attempts!Timed /\ body' = [body EXCEPT ![exec] = "abandoned"]
          /\ writes' = {} /\ active' \subseteq active
          /\ UNCHANGED <<call, exec, resuming, Attempts!clockVars, cancel>>
        BY <1>9 DEF Attempts!TimeOut, Attempts!Close
    <2>2. exec \in Attempts!Execs
        BY <2>1, BodyNumbers
    <2>3. reports' \in [started : SUBSET Attempts!Execs, finished : SUBSET Attempts!Execs]
        BY <1>9, <2>2 DEF Attempts!TimeOut, Attempts!Report, Attempts!TypeOK
    <2>4. Went
        BY <1>9, TimeOutOver
    <2>5. Attempts!TypeOK'
        BY <2>1, <2>2, <2>3, <2>4 DEF Attempts!TypeOK, Went, Attempts!clockVars
    <2>6. \A i \in Attempts!Execs : body'[i] # "running" /\ (body'[i] = "abandoned" => Attempts!Timed')
        BY <2>1, <2>2, BodiesLeft DEF Attempts!Timed
    <2>7. TriesInv'
        BY <2>1, <2>4, <2>6 DEF TriesInv, Went
    <2> QED
        BY <2>5, <2>7
<1>10. CASE Attempts!SleepOver
    BY <1>10 DEF Attempts!SleepOver, Attempts!TypeOK, TriesInv, Attempts!Timed, Attempts!bodyVars, Attempts!clockVars
<1>11. CASE Attempts!Cancel
    BY <1>11 DEF Attempts!Cancel, Attempts!TypeOK, TriesInv, Attempts!Timed, Attempts!bodyVars, Attempts!clockVars
<1>12. CASE Attempts!DeliverCancel
    <2>1. /\ tryPc' = "end" /\ outcome' = "cancelled" /\ outcome' \in Attempts!Outcomes
          /\ cancel' = "delivered" /\ UNCHANGED <<attempts, call, exec, writes, resuming, Attempts!clockVars>>
        BY <1>12, Marks DEF Attempts!DeliverCancel, Attempts!Finish
    <2>2. CASE tryPc = "body"
        <3>1. exec \in Attempts!Execs /\ Attempts!Timed
            BY <1>12, <2>2, BodyNumbers DEF Attempts!DeliverCancel
        <3>2. /\ active' \subseteq active
              /\ \/ body[exec] # "running" /\ body' = body
                 \/ Attempts!Timed /\ body' = [body EXCEPT ![exec] = "abandoned"]
            <4>1. body' = [body EXCEPT ![exec] = IF @ = "running" THEN "abandoned" ELSE @]
                  /\ active' \subseteq active
                BY <1>12, <2>2 DEF Attempts!DeliverCancel, Attempts!Close
            <4>2. CASE body[exec] = "running"
                BY <3>1, <4>1, <4>2
            <4>3. CASE body[exec] # "running"
                <5>1. body' = body
                    BY <3>1, <4>1, <4>3 DEF Attempts!TypeOK
                <5> QED
                    BY <4>1, <4>3, <5>1
            <4> QED
                BY <4>2, <4>3
        <3>3. reports' \in [started : SUBSET Attempts!Execs, finished : SUBSET Attempts!Execs]
            BY <1>12, <2>2, <3>1 DEF Attempts!DeliverCancel, Attempts!Report, Attempts!TypeOK
        <3>4. Attempts!TypeOK'
            BY <2>1, <3>1, <3>2, <3>3 DEF Attempts!TypeOK, Attempts!clockVars
        <3>5. \A i \in Attempts!Execs : body'[i] # "running" /\ (body'[i] = "abandoned" => Attempts!Timed')
            BY <2>1, <2>2, <3>1, <3>2, BodiesLeft DEF Attempts!Timed
        <3>6. TriesInv'
            BY <2>1, <3>5 DEF TriesInv
        <3> QED
            BY <3>4, <3>6
    <2>3. CASE tryPc # "body"
        <3>1. UNCHANGED <<active, body, reports>>
            BY <1>12, <2>3 DEF Attempts!DeliverCancel
        <3> QED
            BY <2>1, <2>3, <3>1 DEF Attempts!TypeOK, TriesInv, Attempts!Timed, Attempts!clockVars
    <2> QED
        BY <2>2, <2>3
<1>13. CASE UNCHANGED Attempts!vars
    BY <1>13 DEF Attempts!vars, Attempts!bodyVars, Attempts!clockVars, Attempts!TypeOK, TriesInv, Attempts!Timed
<1> QED
    BY <1>1, <1>2, <1>3, <1>4, <1>5, <1>6, <1>7, <1>8, <1>9, <1>10, <1>11, <1>12, <1>13
    DEF Attempts!Next, Attempts!Over

\* Every variable keeps its type: no attempt is made beyond the policies'
\* limits, and no clock runs past a limit.
THEOREM AttemptsTyped ==
    ASSUME CallsAssumption
    PROVE  Attempts!Spec => []Attempts!TypeOK
<1>1. Attempts!Init => Attempts!TypeOK /\ TriesInv
    BY InitInv
<1>2. Attempts!TypeOK /\ TriesInv /\ [Attempts!Next]_Attempts!vars => (Attempts!TypeOK /\ TriesInv)'
    BY NextInv
<1> QED
    BY <1>1, <1>2, PTL DEF Attempts!Spec

-----------------------------------------------------------------------------
(* Writes and reports.                                                     *)

\* The scope of an attempt is open while run_with_retry waits for it, and all
\* its writes go through it; the reports follow the scope.
ScopesInv ==
    /\ writes \subseteq {exec}
    /\ active = IF tryPc = "body" /\ Attempts!Timed THEN {exec} ELSE {}
    /\ reports.started = reports.finished \cup active
    /\ outcome = Attempts!Timeout => writes = {} /\ Attempts!Timed

LEMMA InitScopes ==
    ASSUME CallsAssumption, Attempts!Init
    PROVE  ScopesInv
BY DEF Attempts!Init, ScopesInv, Attempts!Timeout

LEMMA NextScopes ==
    ASSUME CallsAssumption, Attempts!TypeOK, TriesInv, ScopesInv, [Attempts!Next]_Attempts!vars
    PROVE  ScopesInv'
<1> DEFINE R == [started : SUBSET Attempts!Execs, finished : SUBSET Attempts!Execs]
<1>0. reports \in R /\ outcome \in Attempts!Outcomes
    BY DEF Attempts!TypeOK
<1>a. /\ tryPc # "end" => outcome # Attempts!Timeout
      /\ Attempts!Timeout \notin {"ok", "bubble", "cancelled", "node cancelled", "none", "unsupported"}
      /\ \A o \in {"ok", "bubble", "cancelled", "node cancelled", "none", "unsupported"} :
             o \notin Attempts!Retryable
    BY Marks DEF TriesInv, Attempts!Timeout
<1>1. ASSUME NEW hit \in BOOLEAN, Attempts!Enter(hit)
      PROVE  ScopesInv'
    <2>1. /\ tryPc = "enter" /\ tryPc' \in {"end", "begin"} /\ exec = 0 /\ outcome = "none"
          /\ outcome' \in {"ok", "unsupported", "none"}
          /\ writes' = writes \/ writes' = {Attempts!Cached}
          /\ UNCHANGED <<call, exec, active, reports>>
        BY <1>1 DEF Attempts!Enter, TriesInv
    <2> QED
        BY <1>a, <2>1 DEF ScopesInv, Attempts!Timed, Attempts!Cached
<1>2. CASE Attempts!Begin
    <2>1. /\ tryPc = "begin" /\ exec' = exec + 1 /\ writes' = {} /\ tryPc' = "body"
          /\ active' = IF Attempts!Timed THEN active \cup {exec'} ELSE active
          /\ reports' = IF Attempts!Timed THEN [reports EXCEPT !.started = @ \cup {exec'}] ELSE reports
          /\ UNCHANGED <<call, outcome>>
        BY <1>2 DEF Attempts!Begin, Attempts!Cleared
    <2>2. reports'.finished = reports.finished
          /\ reports'.started = IF Attempts!Timed THEN reports.started \cup {exec'} ELSE reports.started
        BY <1>0, <2>1
    <2> QED
        BY <1>a, <2>1, <2>2 DEF ScopesInv, Attempts!Timed
<1>3. ASSUME NEW i \in Attempts!Execs, Attempts!Send(i)
      PROVE  ScopesInv'
    <2>1. /\ body[i] \in {"running", "abandoned"}
          /\ writes' = IF Attempts!Timed => i \in active THEN writes \cup {i} ELSE writes
          /\ UNCHANGED <<call, tryPc, outcome, exec, active, reports>>
        BY <1>3 DEF Attempts!Send, Attempts!Alive, Attempts!GuardSend
    <2>2. writes' # writes => i = exec /\ tryPc # "end"
        <3>1. CASE Attempts!Timed
            BY <2>1, <3>1 DEF ScopesInv
        <3>2. CASE ~Attempts!Timed
            BY <2>1, <3>2 DEF TriesInv
        <3> QED
            BY <3>1, <3>2
    <2> QED
        BY <1>a, <2>1, <2>2 DEF ScopesInv, Attempts!Timed
<1>4. CASE Attempts!Wake
    <2>1. /\ tryPc = "body" /\ writes' \subseteq writes \cup {exec}
          /\ active' = active \ {exec}
          /\ reports' = IF Attempts!Timed THEN [reports EXCEPT !.finished = @ \cup {exec}] ELSE reports
          /\ UNCHANGED <<call, exec>>
        BY <1>4, WakeWrites DEF Attempts!Wake, Attempts!Report
    <2>2. Went
        BY <1>4, WakeOver
    <2>3. outcome' # Attempts!Timeout
        BY <1>4, WakeOutcome
    <2>4. /\ reports'.started = reports.started
          /\ reports'.finished = IF Attempts!Timed THEN reports.finished \cup {exec} ELSE reports.finished
        BY <1>0, <2>1
    <2> QED
        BY <2>1, <2>2, <2>3, <2>4 DEF ScopesInv, Attempts!Timed, Went
<1>5. CASE Attempts!TimeOut
    <2>1. /\ tryPc = "body" /\ writes' = {} /\ Attempts!Timed
          /\ active' = active \ {exec}
          /\ reports' = [reports EXCEPT !.finished = @ \cup {exec}]
          /\ UNCHANGED <<call, exec>>
        BY <1>5 DEF Attempts!TimeOut, Attempts!Close, Attempts!Report
    <2>2. Went
        BY <1>5, TimeOutOver
    <2>3. /\ reports'.started = reports.started
          /\ reports'.finished = reports.finished \cup {exec}
        BY <1>0, <2>1
    <2> QED
        BY <2>1, <2>2, <2>3 DEF ScopesInv, Attempts!Timed, Went
<1>6. CASE Attempts!DeliverCancel
    <2>1. /\ tryPc' = "end" /\ outcome' = "cancelled" /\ UNCHANGED <<call, exec, writes>>
        BY <1>6 DEF Attempts!DeliverCancel, Attempts!Finish
    <2>2. CASE tryPc = "body"
        <3>1. /\ Attempts!Timed /\ active' = active \ {exec}
              /\ reports' = [reports EXCEPT !.finished = @ \cup {exec}]
            BY <1>6, <2>2 DEF Attempts!DeliverCancel, Attempts!Close, Attempts!Report
        <3>2. /\ reports'.started = reports.started
              /\ reports'.finished = reports.finished \cup {exec}
            BY <1>0, <3>1
        <3> QED
            BY <1>a, <2>1, <2>2, <3>1, <3>2 DEF ScopesInv, Attempts!Timed
    <2>3. CASE tryPc # "body"
        <3>1. UNCHANGED <<active, reports>>
            BY <1>6, <2>3 DEF Attempts!DeliverCancel
        <3> QED
            BY <1>a, <2>1, <2>3, <3>1 DEF ScopesInv, Attempts!Timed
    <2> QED
        BY <2>2, <2>3
<1>7. CASE Attempts!SleepOver
    BY <1>7, <1>a DEF Attempts!SleepOver, ScopesInv, Attempts!Timed, Attempts!bodyVars
<1>8. ASSUME UNCHANGED <<call, tryPc, outcome, exec, active, writes, reports>>
      PROVE  ScopesInv'
    BY <1>8 DEF ScopesInv, Attempts!Timed
<1> QED
    BY <1>1, <1>2, <1>3, <1>4, <1>5, <1>6, <1>7, <1>8
    DEF Attempts!Next, Attempts!Over, Attempts!End, Attempts!Touch, Attempts!Tick, Attempts!Watchdog, Attempts!Cancel, Attempts!vars, Attempts!bodyVars, Attempts!clockVars

\* An attempt that ended as a Command for its own graph is the last one, and
\* what else ended a task was not given up too early.
CommandInv ==
    /\ \A i \in Attempts!Execs : body[i] = "own command" => i = exec /\ tryPc \in {"body", "end"}
    /\ tryPc = "end" /\ outcome \in Attempts!Retryable => exec \in Attempts!Execs
    /\ (/\ tryPc = "end" /\ outcome \in Attempts!Retryable
        /\ Attempts!Matching(outcome) # 0 /\ body[exec] # "own command") =>
              exec >= Policies[Attempts!Matching(outcome)].max

LEMMA InitCommands ==
    ASSUME Attempts!Init
    PROVE  CommandInv
BY DEF Attempts!Init, CommandInv

LEMMA NextCommands ==
    ASSUME CallsAssumption, Attempts!TypeOK, TriesInv, CommandInv, [Attempts!Next]_Attempts!vars
    PROVE  CommandInv'
<1> DEFINE Own(i) == body[i] = "own command"
<1>a. \A o \in {"ok", "cancelled", "unsupported"} : o \notin Attempts!Retryable
    BY Marks
<1>b. DOMAIN body = Attempts!Execs
    BY DEF Attempts!TypeOK
<1>1. ASSUME NEW hit \in BOOLEAN, Attempts!Enter(hit)
      PROVE  CommandInv'
    <2>1. /\ tryPc = "enter" /\ UNCHANGED <<exec, body>>
          /\ tryPc' = "begin" \/ outcome' \in {"ok", "unsupported"}
        BY <1>1 DEF Attempts!Enter
    <2> QED
        BY <1>a, <2>1 DEF CommandInv
<1>2. CASE Attempts!Begin
    <2>1. tryPc = "begin" /\ tryPc' = "body" /\ body' = [body EXCEPT ![exec'] = "running"]
        BY <1>2 DEF Attempts!Begin
    <2>2. \A i \in Attempts!Execs : ~Own(i)
        BY <2>1 DEF CommandInv
    <2>3. \A i \in Attempts!Execs : body'[i] # "own command"
        BY <1>b, <2>1, <2>2
    <2> QED
        BY <2>1, <2>3 DEF CommandInv
<1>3. ASSUME NEW i \in Attempts!Execs, NEW o \in Attempts!BodyEnds, Attempts!End(i, o)
      PROVE  CommandInv'
    <2>1. /\ body[i] \in {"running", "abandoned"}
          /\ body' = [body EXCEPT ![i] = IF @ = "running" THEN o ELSE "gone"]
          /\ UNCHANGED <<tryPc, outcome, exec>>
        BY <1>3 DEF Attempts!End, Attempts!Alive
    <2>2. \A k \in Attempts!Execs : k # i => body'[k] = body[k]
        BY <1>b, <2>1
    <2>3. body'[i] = "own command" => i = exec /\ tryPc = "body"
        BY <1>b, <2>1 DEF TriesInv
    <2>4. exec \in Attempts!Execs /\ Own(exec) => body'[exec] = "own command"
        BY <2>1, <2>2
    <2> QED
        BY <2>1, <2>2, <2>3, <2>4 DEF CommandInv
<1>4. CASE Attempts!Wake
    <2>1. tryPc = "body" /\ UNCHANGED <<body, exec>>
        BY <1>4 DEF Attempts!Wake
    <2>2. Went
        BY <1>4, WakeOver
    <2>3. Own(exec) => tryPc' = "end"
        BY <1>4 DEF Attempts!Wake, Attempts!RunWriters, Attempts!Finish
    <2>4. exec \in Attempts!Execs
        BY <2>1, BodyNumbers
    <2> QED
        BY <2>1, <2>2, <2>3, <2>4 DEF CommandInv, Went
<1>5. CASE Attempts!TimeOut
    <2>1. /\ tryPc = "body" /\ body[exec] = "running" /\ exec' = exec
          /\ body' = [body EXCEPT ![exec] = "abandoned"]
        BY <1>5 DEF Attempts!TimeOut
    <2>2. Went
        BY <1>5, TimeOutOver
    <2>3. \A i \in Attempts!Execs : body'[i] # "own command"
        BY <1>b, <2>1 DEF CommandInv
    <2>4. exec \in Attempts!Execs
        BY <2>1, BodyNumbers
    <2> QED
        BY <2>1, <2>2, <2>3, <2>4 DEF CommandInv, Went
<1>6. CASE Attempts!SleepOver
    BY <1>6 DEF Attempts!SleepOver, CommandInv, Attempts!bodyVars
<1>7. CASE Attempts!DeliverCancel
    <2>1. tryPc' = "end" /\ outcome' = "cancelled" /\ exec' = exec
        BY <1>7 DEF Attempts!DeliverCancel, Attempts!Finish
    <2>2. tryPc \in {"body", "sleep"}
        BY <1>7 DEF Attempts!DeliverCancel
    <2>3. \A i \in Attempts!Execs : body'[i] = "own command" => Own(i)
        BY <1>7, <1>b DEF Attempts!DeliverCancel
    <2> QED
        BY <1>a, <2>1, <2>2, <2>3 DEF CommandInv
<1>8. ASSUME UNCHANGED <<tryPc, outcome, exec, body>>
      PROVE  CommandInv'
    BY <1>8 DEF CommandInv
<1> QED
    BY <1>1, <1>2, <1>3, <1>4, <1>5, <1>6, <1>7, <1>8
    DEF Attempts!Next, Attempts!Over, Attempts!Send, Attempts!Touch, Attempts!Tick, Attempts!Watchdog, Attempts!Cancel, Attempts!vars, Attempts!bodyVars, Attempts!clockVars

AttemptsInv == Attempts!TypeOK /\ TriesInv /\ ScopesInv /\ CommandInv

LEMMA ScopesHold ==
    ASSUME CallsAssumption
    PROVE  Attempts!Spec => []AttemptsInv
<1>1. Attempts!Init => AttemptsInv
    BY InitInv, InitScopes, InitCommands DEF AttemptsInv
<1>2. AttemptsInv /\ [Attempts!Next]_Attempts!vars => AttemptsInv'
    BY NextInv, NextScopes, NextCommands DEF AttemptsInv
<1> QED
    BY <1>1, <1>2, PTL DEF Attempts!Spec

\* _guard_send and clear(): what a task that has ended hands to commit was
\* written by its last attempt, and nothing is left of one that timed out,
\* whatever the bodies that were abandoned still do.
THEOREM WritesAreOwn ==
    ASSUME CallsAssumption
    PROVE  Attempts!Spec => []OwnWrites
<1>1. AttemptsInv => OwnWrites
    BY DEF AttemptsInv, ScopesInv, OwnWrites, Attempts!OwnWrites
<1> QED
    BY <1>1, ScopesHold, PTL

\* No policy is given more attempts than it allows, nor fewer when a failure of
\* the body is given up by it; a body that ended as a Command for its own graph
\* is executed once, whatever its writers raise; a timed attempt is reported
\* finished before the next one starts and before the task ends, on every path.
THEOREM AttemptsAreCounted ==
    ASSUME CallsAssumption
    PROVE  Attempts!Spec => []AttemptsCounted
<1>1. AttemptsInv => AttemptsCounted
    <2> SUFFICES ASSUME Attempts!TypeOK, TriesInv, ScopesInv, CommandInv PROVE AttemptsCounted
        BY DEF AttemptsInv
    <2>1. reports.started \ reports.finished = {}
          \/ reports.started \ reports.finished = {exec}
        BY DEF ScopesInv
    <2>2. Cardinality(reports.started \ reports.finished) <= 1
        <3>1. Cardinality({}) = 0 /\ Cardinality({exec}) = 1
            BY FS_EmptySet, FS_Singleton
        <3> QED
            BY <2>1, <3>1
    <2>3. exec <= Attempts!MaxExec
        BY DEF TriesInv
    <2>4. \A S : Attempts!Cardinality(S) = Cardinality(S)
        BY DEF Attempts!Cardinality, Cardinality
    <2> QED
        BY <2>2, <2>3, <2>4 DEF ScopesInv, CommandInv, AttemptsCounted, Attempts!AttemptsCounted
<1> QED
    BY <1>1, ScopesHold, PTL

-----------------------------------------------------------------------------
(* Calls of other tasks: NestedCalls.                                      *)

ProgramAssumption ==
    /\ Modes \subseteq [loop : {"threads", "asyncio"}, limit : Nat, held : BOOLEAN]
    /\ Program \in Nat /\ MaxAttempts \in Nat \ {0} /\ LastRun \in Nat

Registrations == {<<>>, <<"commit">>, <<"chain">>, <<"commit", "chain">>}

\* The children the parent has numbered: the call it is making counts.
Made == IF parent \in {"registering", "chaining"} THEN position ELSE position - 1

\* The call_counter follows the parent's program, and is one ahead after a
\* retry; a number that was not given belongs to no child.  Between two runs
\* nothing of this is left.
CountInv ==
    /\ callbacks \in [Nested!Ids -> Registrations]
    /\ counter = Made \/ (retried /\ counter = Made + 1)
    /\ parent \in {"registering", "chaining"} => position <= Program
    /\ parent = "registering" => callbacks[counter] = <<>>
    /\ parent = "chaining" => callbacks[counter] \in {<<>>, <<"commit">>}
    /\ \A i \in Nested!Ids : i > counter => child[i] = "none" /\ callbacks[i] = <<>>
    /\ parent \in {"running", "registering", "chaining"} => on
    /\ ~on => /\ position = 1 /\ counter = 0 /\ handle = [p \in Nested!Positions |-> 0]
              /\ seen = [p \in Nested!Positions |-> Nested!NoCall]
              /\ child = [i \in Nested!Ids |-> "none"]

\* Without a retry, what is kept under the number of a call is of that call.
OwnInv == ~retried =>
    /\ \A i \in Nested!Ids : /\ arg[i] \in {Nested!NoCall, i}
                             /\ pending[i] \in {Nested!NoCall, i}
                             /\ db[i] \in {Nested!NoCall, i}
    /\ \A p \in Nested!Positions : handle[p] \in {0, p} /\ seen[p] \in {Nested!NoCall, p}
    /\ \A i \in stored : pending[i] = i /\ child[i] = "none"

CallsInv == Nested!TypeOK /\ CountInv /\ OwnInv

LEMMA IdFacts ==
    ASSUME ProgramAssumption
    PROVE  /\ Program \in Nat /\ \A i \in Nested!Ids : i \in Nat /\ i # 0
           /\ \A p \in Nested!Positions : p \in Nested!Ids /\ p # Nested!NoCall
           /\ \A i \in Nat : i \in Nested!Ids <=> 1 <= i /\ i <= Program + 1
           /\ \A i \in Nat : i \in Nested!Positions <=> 1 <= i /\ i <= Program
BY DEF ProgramAssumption, Nested!Ids, Nested!Positions, Nested!NoCall

LEMMA CallsInit == ASSUME ProgramAssumption, Nested!Init PROVE CallsInv
<1>1. Nested!TypeOK
    <2>1. run \in 0 .. LastRun /\ attempt \in 0 .. MaxAttempts /\ position \in 1 .. (Program + 1)
        BY DEF Nested!Init, ProgramAssumption
    <2>2. /\ Nested!Nothing \in [Nested!Ids -> {Nested!NoCall} \cup Nested!Positions]
          /\ handle \in [Nested!Positions -> {0} \cup Nested!Ids]
          /\ seen \in [Nested!Positions -> {Nested!NoCall} \cup Nested!Positions]
        BY DEF Nested!Init, Nested!Nothing
    <2>3. /\ child \in [Nested!Ids -> {"none", "queued", "running", "ended"}]
          /\ out \in [Nested!Ids -> {"none", "ok", "error"}]
          /\ \A i \in Nested!Ids : callbacks[i] = <<>>
        BY DEF Nested!Init
    <2> QED
        BY <2>1, <2>2, <2>3 DEF Nested!Init, Nested!TypeOK
<1>2. CountInv
    BY IdFacts DEF Nested!Init, CountInv, Made, Registrations
<1>3. OwnInv
    BY IdFacts DEF Nested!Init, OwnInv, Nested!Nothing
<1> QED
    BY <1>1, <1>2, <1>3 DEF CallsInv

\* The number of the next call is free.
LEMMA SameSequence ==
    ASSUME NEW S, NEW s \in Seq(S), NEW t \in Seq(S),
           Len(s) = Len(t), \A i \in 1 .. Len(s) : s[i] = t[i]
    PROVE  s = t
OBVIOUS

\* Callbacks are registered at the end and run from the front.
LEMMA CallbackLists ==
    /\ Append(<<>>, "chain") = <<"chain">>
    /\ Append(<<"commit">>, "chain") = <<"commit", "chain">>
    /\ Tail(<<"commit">>) = <<>>
    /\ Tail(<<"chain">>) = <<>>
    /\ Tail(<<"commit", "chain">>) = <<"chain">>
<1>1. Append(<<>>, "chain") = <<"chain">>
    OBVIOUS
<1>2. Append(<<"commit">>, "chain") = <<"commit", "chain">>
    <2> DEFINE r == Append(<<"commit">>, "chain")
               q == <<"commit", "chain">>
    <2>1. Len(r) = 2 /\ r[1] = "commit" /\ r[2] = "chain" /\ r \in Seq({"commit", "chain"})
        OBVIOUS
    <2>2. Len(q) = 2 /\ q[1] = "commit" /\ q[2] = "chain" /\ q \in Seq({"commit", "chain"})
        OBVIOUS
    <2> HIDE DEF r, q
    <2>3. \A i \in 1 .. Len(r) : r[i] = q[i]
        BY <2>1, <2>2
    <2>4. r = q
        BY <2>1, <2>2, <2>3, SameSequence
    <2> QED
        BY <2>4 DEF r, q
<1>3. Tail(<<"commit">>) = <<>> /\ Tail(<<"chain">>) = <<>>
    OBVIOUS
<1>4. Tail(<<"commit", "chain">>) = <<"chain">>
    OBVIOUS
<1> QED
    BY <1>1, <1>2, <1>3, <1>4

LEMMA NextId ==
    ASSUME ProgramAssumption, CallsInv, parent = "running", position <= Program
    PROVE  /\ Nested!Id \in Nested!Ids /\ Nested!Id = counter + 1 /\ counter \in Nat /\ position \in Nested!Positions
           /\ Nested!Id \in Nat /\ position \in Nat
           /\ child[Nested!Id] = "none" /\ callbacks[Nested!Id] = <<>>
           /\ Nested!Id = position \/ (retried /\ Nested!Id = position + 1)
           /\ ~retried => Nested!Id = position
<1>1. position \in Nat /\ position >= 1 /\ counter \in Nat /\ position \in Nested!Positions
    BY IdFacts DEF CallsInv, Nested!TypeOK
<1>2. Nested!Id = position \/ (retried /\ Nested!Id = position + 1)
    BY <1>1 DEF CallsInv, CountInv, Made, Nested!Id
<1>3. Nested!Id \in Nested!Ids /\ Nested!Id > counter /\ Nested!Id = counter + 1
    BY <1>1, <1>2, IdFacts DEF Nested!Id
<1> QED
    BY <1>1, <1>2, <1>3 DEF CallsInv, CountInv

\* commit() writes under the child's own number.
LEMMA CommitKeeps ==
    ASSUME ProgramAssumption, CallsInv, NEW i \in Nested!Ids, Nested!Commit(i), child[i] # "none"
    PROVE  /\ pending' \in [Nested!Ids -> {Nested!NoCall} \cup Nested!Positions] /\ toPut' \subseteq Nested!Ids
           /\ db' = db
           /\ \A k \in Nested!Ids : k # i => pending'[k] = pending[k]
           /\ ~retried => /\ \A k \in Nested!Ids : pending'[k] \in {Nested!NoCall, k}
                          /\ \A k \in stored : k # i
<1>1. pending' = [pending EXCEPT ![i] = IF out[i] = "ok" THEN arg[i] ELSE Nested!NoCall]
      /\ toPut' = toPut \cup {i} /\ db' = db
    BY DEF Nested!Commit
<1>2. arg[i] \in {Nested!NoCall} \cup Nested!Positions /\ pending \in [Nested!Ids -> {Nested!NoCall} \cup Nested!Positions]
      /\ toPut \subseteq Nested!Ids
    BY DEF CallsInv, Nested!TypeOK
<1>3. ~retried => arg[i] \in {Nested!NoCall, i} /\ \A k \in stored : k # i
    BY DEF CallsInv, OwnInv
<1>4. ~retried => \A k \in Nested!Ids : pending[k] \in {Nested!NoCall, k}
    BY DEF CallsInv, OwnInv
<1> QED
    BY <1>1, <1>2, <1>3, <1>4

LEMMA Registering ==
    ASSUME ProgramAssumption, CallsInv, parent \in {"registering", "chaining"}
    PROVE  /\ counter \in Nested!Ids /\ position \in Nested!Positions /\ position \in Nat
           /\ callbacks[counter] \in {<<>>, <<"commit">>}
<1>1. position \in Nat /\ position >= 1 /\ counter \in Nat /\ position <= Program
    BY IdFacts DEF CallsInv, Nested!TypeOK, CountInv
<1>2. counter = position \/ counter = position + 1
    BY DEF CallsInv, CountInv, Made
<1>3. counter \in Nested!Ids /\ position \in Nested!Positions
    BY <1>1, <1>2, IdFacts
<1> QED
    BY <1>1, <1>3 DEF CallsInv, CountInv

LEMMA CallsNext ==
    ASSUME ProgramAssumption, CallsInv, [Nested!Next]_Nested!vars
    PROVE  CallsInv'
<1> USE DEF CallsInv
<1>0. Program \in Nat /\ position \in Nat /\ counter \in Nat
    BY IdFacts DEF Nested!TypeOK
<1>1. CASE Nested!StartRun
    <2>1. /\ ~on /\ run < LastRun /\ run' = run + 1 /\ on' = TRUE
          /\ parent' = "running" /\ attempt' = 1 /\ counter' = 0 /\ pending' = db
          /\ stored' = {db[i] : i \in Nested!Ids} \ {Nested!NoCall}
          /\ UNCHANGED <<mode, position, handle, seen, Nested!childVars, toPut, db, retried>>
        BY <1>1 DEF Nested!StartRun
    <2>2. position = 1 /\ child = [i \in Nested!Ids |-> "none"]
        BY <2>1 DEF CountInv
    <2>3. run' \in 0 .. LastRun /\ attempt' \in 0 .. MaxAttempts /\ counter' \in {0} \cup Nested!Ids
        BY <2>1 DEF Nested!TypeOK, ProgramAssumption
    <2>4. stored' \subseteq Nested!Positions
        BY <2>1 DEF Nested!TypeOK
    <2>5. Nested!TypeOK'
        BY <2>1, <2>3, <2>4 DEF Nested!TypeOK, Nested!childVars
    <2>6. \A i \in Nested!Ids : callbacks[i] = <<>>
        <3> SUFFICES ASSUME NEW i \in Nested!Ids PROVE callbacks[i] = <<>>
            OBVIOUS
        <3>1. i > 0 /\ counter = 0
            BY <2>1, IdFacts DEF CountInv
        <3> QED
            BY <3>1 DEF CountInv
    <2>7. CountInv'
        BY <2>1, <2>2, <2>6 DEF CountInv, Made, Nested!childVars
    <2>8. ASSUME ~retried, NEW p \in stored'
          PROVE  pending'[p] = p /\ child'[p] = "none"
        <3>1. PICK i \in Nested!Ids : p = db[i] /\ p # Nested!NoCall
            BY <2>1, <2>8
        <3>2. p = i
            BY <2>8, <3>1 DEF OwnInv
        <3> QED
            BY <2>1, <2>2, <3>1, <3>2 DEF Nested!childVars
    <2>9. OwnInv'
        BY <2>1, <2>8 DEF OwnInv, Nested!childVars
    <2> QED
        BY <2>5, <2>7, <2>9
<1>2. CASE Nested!CallKnown
    <2>1. /\ on /\ parent = "running" /\ position <= Program /\ pending[Nested!Id] # Nested!NoCall
          /\ counter' = Nested!Id /\ handle' = [handle EXCEPT ![position] = Nested!Id] /\ position' = position + 1
          /\ dest' = dest \cup {Nested!Id} /\ out' = [out EXCEPT ![Nested!Id] = "ok"]
          /\ UNCHANGED <<mode, run, on, parent, attempt, seen, child, arg, callbacks>>
          /\ UNCHANGED <<Nested!writeVars, stored, retried>>
        BY <1>2 DEF Nested!CallKnown, Nested!AlreadyRan
    <2>2. /\ Nested!Id \in Nested!Ids /\ Nested!Id = counter + 1 /\ Nested!Id \in Nat /\ position \in Nested!Positions
          /\ Nested!Id = position \/ (retried /\ Nested!Id = position + 1)
          /\ ~retried => Nested!Id = position
        BY <2>1, NextId
    <2> HIDE DEF Nested!Id
    <2>3. position' \in 1 .. (Program + 1)
        BY <1>0, <2>1 DEF Nested!TypeOK
    <2>4. Nested!TypeOK'
        BY <2>1, <2>2, <2>3 DEF Nested!TypeOK, Nested!writeVars
    <2>5. Made' = position /\ \A i \in Nested!Ids : i > Nested!Id => i > counter
        BY <1>0, <2>1, <2>2, IdFacts DEF Made
    <2>6. CountInv'
        BY <1>0, <2>1, <2>2, <2>5 DEF CountInv
    <2>7. OwnInv'
        BY <2>1, <2>2 DEF OwnInv, Nested!TypeOK, Nested!writeVars
    <2> QED
        BY <2>4, <2>6, <2>7
<1>3. CASE Nested!CallNew
    <2>1. /\ on /\ parent = "running" /\ position <= Program /\ pending[Nested!Id] = Nested!NoCall
          /\ counter' = Nested!Id /\ handle' = [handle EXCEPT ![position] = Nested!Id]
          /\ child' = [child EXCEPT ![Nested!Id] = "queued"]
          /\ arg' = [arg EXCEPT ![Nested!Id] = position]
          /\ UNCHANGED <<mode, run, on, attempt, seen, out, dest, Nested!writeVars, stored, retried>>
        BY <1>3 DEF Nested!CallNew, Nested!AlreadyRan
    <2>2. \/ /\ callbacks' = [callbacks EXCEPT ![Nested!Id] = <<"commit", "chain">>]
             /\ position' = position + 1 /\ parent' = parent
          \/ parent' = "registering" /\ UNCHANGED <<callbacks, position>>
        BY <1>3 DEF Nested!CallNew, Nested!CallbackOrder
    <2>3. /\ Nested!Id \in Nested!Ids /\ Nested!Id = counter + 1 /\ Nested!Id \in Nat /\ position \in Nested!Positions
          /\ child[Nested!Id] = "none" /\ callbacks[Nested!Id] = <<>>
          /\ Nested!Id = position \/ (retried /\ Nested!Id = position + 1)
          /\ ~retried => Nested!Id = position
        BY <2>1, NextId
    <2> HIDE DEF Nested!Id
    <2>4. position' \in 1 .. (Program + 1)
        BY <1>0, <2>1, <2>2 DEF Nested!TypeOK
    <2>5. callbacks' \in [Nested!Ids -> Registrations]
        BY <2>2, <2>3 DEF CountInv, Registrations
    <2>6. Nested!TypeOK'
        <3>1. child' \in [Nested!Ids -> {"none", "queued", "running", "ended"}]
            BY <2>1 DEF Nested!TypeOK
        <3>2. \A i \in Nested!Ids : callbacks'[i] \in Registrations
            BY <2>5
        <3>3. parent' \in {"running", "registering"}
            BY <2>1, <2>2
        <3> QED
            BY <2>1, <2>3, <2>4, <3>1, <3>2, <3>3 DEF Nested!TypeOK, Nested!writeVars, Registrations
    <2>7. Made' = position /\ \A i \in Nested!Ids : i > Nested!Id => i > counter /\ i # Nested!Id
        BY <1>0, <2>1, <2>2, <2>3, IdFacts DEF Made
    <2>8. \A i \in Nested!Ids : i > Nested!Id => child'[i] = "none" /\ callbacks'[i] = <<>>
        BY <2>1, <2>2, <2>7 DEF CountInv, Nested!TypeOK
    <2>9. CountInv'
        BY <1>0, <2>1, <2>2, <2>3, <2>5, <2>7, <2>8 DEF CountInv
    <2>10. OwnInv'
        <3> SUFFICES ASSUME ~retried PROVE OwnInv'
            BY <2>1 DEF OwnInv
        <3>1. \A i \in stored : i \in Nested!Ids /\ i # Nested!Id
            BY <2>1, <2>3, IdFacts DEF OwnInv, Nested!TypeOK
        <3>2. \A i \in stored : pending[i] = i /\ child'[i] = "none"
            BY <2>1, <3>1 DEF OwnInv, Nested!TypeOK
        <3>3. \A i \in Nested!Ids : arg'[i] \in {Nested!NoCall, i}
            BY <2>1, <2>3 DEF OwnInv, Nested!TypeOK
        <3>4. \A p \in Nested!Positions : handle'[p] \in {0, p}
            BY <2>1, <2>3 DEF OwnInv, Nested!TypeOK
        <3> QED
            BY <2>1, <3>2, <3>3, <3>4 DEF OwnInv, Nested!writeVars
    <2> QED
        BY <2>6, <2>9, <2>10
<1>4. CASE Nested!Register
    <2>1. /\ on /\ parent = "registering" /\ parent' = "chaining"
          /\ UNCHANGED <<mode, run, on, attempt, counter, position, handle, seen>>
          /\ UNCHANGED <<child, arg, out, dest, stored, retried>>
        BY <1>4 DEF Nested!Register
    <2>2. /\ counter \in Nested!Ids /\ callbacks[counter] = <<>> /\ position <= Program
        BY <2>1, Registering DEF CountInv
    <2>3. CASE child[counter] = "ended"
        <3>1. Nested!Commit(counter) /\ callbacks' = callbacks
            BY <1>4, <2>3 DEF Nested!Register
        <3>2. /\ pending' \in [Nested!Ids -> {Nested!NoCall} \cup Nested!Positions] /\ toPut' \subseteq Nested!Ids
              /\ db' = db
              /\ \A k \in Nested!Ids : k # counter => pending'[k] = pending[k]
              /\ ~retried => /\ \A k \in Nested!Ids : pending'[k] \in {Nested!NoCall, k}
                             /\ \A k \in stored : k # counter
            BY <2>2, <2>3, <3>1, CommitKeeps
        <3>3. Nested!TypeOK'
            BY <2>1, <3>1, <3>2 DEF Nested!TypeOK
        <3>4. CountInv'
            BY <2>1, <2>2, <3>1 DEF CountInv, Made
        <3>5. OwnInv'
            BY <2>1, <3>1, <3>2, IdFacts DEF OwnInv, Nested!TypeOK
        <3> QED
            BY <3>3, <3>4, <3>5
    <2>4. CASE child[counter] # "ended"
        <3>1. /\ callbacks' = [callbacks EXCEPT ![counter] = Append(@, "commit")]
              /\ UNCHANGED Nested!writeVars
            BY <1>4, <2>4 DEF Nested!Register
        <3>2. Append(callbacks[counter], "commit") = <<"commit">>
            BY <2>2
        <3>3. callbacks' = [callbacks EXCEPT ![counter] = <<"commit">>]
            BY <3>1, <3>2 DEF CountInv
        <3>4. callbacks' \in [Nested!Ids -> Registrations] /\ callbacks'[counter] = <<"commit">>
              /\ \A i \in Nested!Ids : i # counter => callbacks'[i] = callbacks[i]
            BY <2>2, <3>3 DEF CountInv, Registrations
        <3>5. Nested!TypeOK'
            BY <2>1, <3>1, <3>4 DEF Nested!TypeOK, Nested!writeVars, Registrations
        <3>6. CountInv'
            BY <1>0, <2>1, <2>2, <3>4 DEF CountInv, Made
        <3>7. OwnInv'
            BY <2>1, <3>1 DEF OwnInv, Nested!writeVars
        <3> QED
            BY <3>5, <3>6, <3>7
    <2> QED
        BY <2>3, <2>4
<1>5. CASE Nested!Chain
    <2>1. /\ on /\ parent = "chaining" /\ parent' = "running" /\ position' = position + 1
          /\ UNCHANGED <<mode, run, on, attempt, counter, handle, seen, child, arg, out>>
          /\ UNCHANGED <<Nested!writeVars, stored, retried>>
        BY <1>5 DEF Nested!Chain
    <2>2. /\ counter \in Nested!Ids /\ callbacks[counter] \in {<<>>, <<"commit">>} /\ position <= Program
        BY <2>1, Registering DEF CountInv
    <2>3. position' \in 1 .. (Program + 1) /\ Made' = Made
        BY <1>0, <2>1, <2>2 DEF Nested!TypeOK, Made
    <2>4. /\ callbacks' \in [Nested!Ids -> Registrations] /\ dest' \subseteq Nested!Ids
          /\ \A i \in Nested!Ids : i # counter => callbacks'[i] = callbacks[i]
        <3>1. CASE child[counter] = "ended"
            <4>1. dest' = dest \cup {counter} /\ callbacks' = callbacks
                BY <1>5, <3>1 DEF Nested!Chain
            <4> QED
                BY <2>2, <4>1 DEF CountInv, Nested!TypeOK
        <3>2. CASE child[counter] # "ended"
            <4>1. /\ callbacks' = [callbacks EXCEPT ![counter] = Append(@, "chain")]
                  /\ dest' = dest
                BY <1>5, <3>2 DEF Nested!Chain
            <4>2. Append(callbacks[counter], "chain") \in {<<"chain">>, <<"commit", "chain">>}
                BY <2>2, CallbackLists, Zenon
            <4> QED
                BY <2>2, <4>1, <4>2 DEF CountInv, Registrations, Nested!TypeOK
        <3> QED
            BY <3>1, <3>2
    <2>5. Nested!TypeOK'
        BY <2>1, <2>3, <2>4 DEF Nested!TypeOK, Nested!writeVars, Registrations
    <2>6. CountInv'
        <3>1. \A i \in Nested!Ids : i > counter => i # counter
            BY <1>0, IdFacts
        <3> QED
            BY <2>1, <2>3, <2>4, <3>1 DEF CountInv
    <2>7. OwnInv'
        BY <2>1 DEF OwnInv, Nested!writeVars
    <2> QED
        BY <2>5, <2>6, <2>7
<1>6. CASE Nested!Retry
    <2>1. /\ on /\ parent = "running" /\ attempt < MaxAttempts /\ ~retried /\ position <= 2
          /\ attempt' = attempt + 1 /\ retried' = TRUE
          /\ position' = 1
          /\ handle' = [p \in Nested!Positions |-> 0] /\ seen' = [p \in Nested!Positions |-> Nested!NoCall]
          /\ UNCHANGED <<mode, run, on, parent, counter, Nested!childVars, Nested!writeVars, stored>>
        BY <1>6 DEF Nested!Retry, Nested!FreshParent
    <2>2. attempt' \in 0 .. MaxAttempts /\ position' \in 1 .. (Program + 1)
        BY <1>0, <2>1 DEF Nested!TypeOK, ProgramAssumption
    <2>3. Nested!TypeOK'
        BY <2>1, <2>2 DEF Nested!TypeOK, Nested!childVars, Nested!writeVars
    <2>4. counter = 0 \/ counter = 1
        BY <1>0, <2>1 DEF CountInv, Made, Nested!TypeOK
    <2>5. CountInv'
        BY <2>1, <2>4 DEF CountInv, Made, Nested!childVars
    <2>6. OwnInv'
        BY <2>1 DEF OwnInv
    <2> QED
        BY <2>3, <2>5, <2>6
<1>7. CASE Nested!Fail
    BY <1>7 DEF Nested!Fail, Nested!TypeOK, CountInv, Made, OwnInv, Nested!childVars, Nested!writeVars
<1>8. CASE Nested!Finish
    BY <1>8 DEF Nested!Finish, Nested!TypeOK, CountInv, Made, OwnInv, Nested!childVars, Nested!writeVars
<1>9. ASSUME NEW p \in Nested!Positions, Nested!Look(p)
      PROVE  CallsInv'
    <2>1. /\ on /\ parent = "running" /\ handle[p] \in dest
          /\ seen' = [seen EXCEPT ![p] = Nested!Result(handle[p])]
          /\ UNCHANGED <<mode, run, on, parent, attempt, counter, position, handle>>
          /\ UNCHANGED <<Nested!childVars, Nested!writeVars, stored, retried>>
        BY <1>9 DEF Nested!Look
    <2>2. handle[p] \in Nested!Ids /\ handle[p] # 0
        BY <2>1, IdFacts DEF Nested!TypeOK
    <2>3. Nested!Result(handle[p]) \in {Nested!NoCall} \cup Nested!Positions
        BY <2>2 DEF Nested!Result, Nested!TypeOK
    <2>4. ~retried => handle[p] = p /\ Nested!Result(handle[p]) \in {Nested!NoCall, p}
        BY <2>2 DEF Nested!Result, OwnInv
    <2>5. Nested!TypeOK'
        BY <2>1, <2>3 DEF Nested!TypeOK, Nested!childVars, Nested!writeVars
    <2>6. CountInv'
        BY <2>1 DEF CountInv, Made, Nested!childVars
    <2>7. OwnInv'
        BY <2>1, <2>4 DEF OwnInv, Nested!TypeOK, Nested!childVars, Nested!writeVars
    <2> QED
        BY <2>5, <2>6, <2>7
<1>10. ASSUME NEW i \in Nested!Ids, Nested!RunCallback(i)
       PROVE  CallsInv'
    <2>1. /\ on /\ child[i] = "ended" /\ callbacks[i] # <<>>
          /\ callbacks' = [callbacks EXCEPT ![i] = Tail(@)]
          /\ UNCHANGED <<mode, run, on, Nested!parentVars, child, arg, out, stored, retried>>
        BY <1>10 DEF Nested!RunCallback
    <2>2. Tail(callbacks[i]) \in {<<>>, <<"chain">>}
          /\ (callbacks[i] = <<"commit">> => Tail(callbacks[i]) = <<>>)
        <3>1. callbacks[i] \in {<<"commit">>, <<"chain">>, <<"commit", "chain">>}
            BY <2>1 DEF CountInv, Nested!TypeOK, Registrations
        <3> QED
            BY <3>1, CallbackLists, Zenon
    <2>3. /\ callbacks' \in [Nested!Ids -> Registrations]
          /\ \A k \in Nested!Ids : k # i => callbacks'[k] = callbacks[k]
          /\ callbacks[i] = <<"commit">> => callbacks'[i] = <<>>
        BY <2>1, <2>2 DEF CountInv, Registrations
    <2>4. ~(i > counter)
        BY <2>1 DEF CountInv
    <2>5. CountInv'
        <3>1. parent = "chaining" => counter \in Nested!Ids
            BY Registering
        <3>2. parent = "registering" => counter \in Nested!Ids /\ counter # i
            BY <2>1, Registering DEF CountInv
        <3> QED
            BY <2>1, <2>3, <2>4, <3>1, <3>2 DEF CountInv, Made, Nested!parentVars
    <2>6. CASE Head(callbacks[i]) = "commit"
        <3>1. Nested!Commit(i) /\ dest' = dest
            BY <1>10, <2>6 DEF Nested!RunCallback
        <3>2. /\ pending' \in [Nested!Ids -> {Nested!NoCall} \cup Nested!Positions] /\ toPut' \subseteq Nested!Ids
              /\ db' = db
              /\ \A k \in Nested!Ids : k # i => pending'[k] = pending[k]
              /\ ~retried => /\ \A k \in Nested!Ids : pending'[k] \in {Nested!NoCall, k}
                             /\ \A k \in stored : k # i
            BY <2>1, <3>1, CommitKeeps
        <3>3. Nested!TypeOK'
            BY <2>1, <2>3, <3>1, <3>2 DEF Nested!TypeOK, Nested!parentVars, Registrations
        <3>4. OwnInv'
            BY <2>1, <3>2, IdFacts DEF OwnInv, Nested!TypeOK, Nested!parentVars
        <3> QED
            BY <2>5, <3>3, <3>4
    <2>7. CASE Head(callbacks[i]) # "commit"
        <3>1. dest' = dest \cup {i} /\ UNCHANGED Nested!writeVars
            BY <1>10, <2>7 DEF Nested!RunCallback
        <3>2. Nested!TypeOK'
            BY <2>1, <2>3, <3>1 DEF Nested!TypeOK, Nested!parentVars, Nested!writeVars, Registrations
        <3>3. OwnInv'
            BY <2>1, <3>1 DEF OwnInv, Nested!parentVars, Nested!writeVars
        <3> QED
            BY <2>5, <3>2, <3>3
    <2> QED
        BY <2>6, <2>7
<1>11. ASSUME NEW i \in Nested!Ids, child[i] # "none", on, NEW st \in {"running", "ended"},
              child' = [child EXCEPT ![i] = st],
              out' \in [Nested!Ids -> {"none", "ok", "error"}],
              UNCHANGED <<mode, run, on, Nested!parentVars, arg, callbacks, dest, Nested!writeVars, stored, retried>>
       PROVE  CallsInv'
    <2>1. Nested!TypeOK'
        BY <1>11 DEF Nested!TypeOK, Nested!parentVars, Nested!writeVars
    <2>2. \A k \in Nested!Ids : child[k] = "none" => child'[k] = "none"
        BY <1>11 DEF Nested!TypeOK
    <2>3. CountInv'
        BY <1>11, <2>2 DEF CountInv, Made, Nested!parentVars
    <2>4. OwnInv'
        BY <1>11, <2>2, IdFacts DEF OwnInv, Nested!TypeOK, Nested!parentVars, Nested!writeVars
    <2> QED
        BY <2>1, <2>3, <2>4
<1>12. ASSUME NEW i \in Nested!Ids, Nested!StartChild(i)
       PROVE  CallsInv'
    BY <1>11, <1>12 DEF Nested!StartChild, Nested!TypeOK
<1>13. ASSUME NEW i \in Nested!Ids, NEW o \in {"ok", "error"}, Nested!EndChild(i, o)
       PROVE  CallsInv'
    <2>1. out' \in [Nested!Ids -> {"none", "ok", "error"}]
        BY <1>13 DEF Nested!EndChild, Nested!TypeOK
    <2> QED
        BY <1>11, <1>13, <2>1 DEF Nested!EndChild
<1>14. ASSUME NEW i \in Nested!Ids, Nested!PutDone(i)
       PROVE  CallsInv'
    <2>1. /\ toPut' = toPut \ {i} /\ db' = [db EXCEPT ![i] = pending[i]]
          /\ UNCHANGED <<mode, run, on, Nested!parentVars, Nested!childVars, pending, stored, retried>>
        BY <1>14 DEF Nested!PutDone
    <2>2. Nested!TypeOK'
        BY <2>1 DEF Nested!TypeOK, Nested!parentVars, Nested!childVars
    <2>3. CountInv'
        BY <2>1 DEF CountInv, Made, Nested!parentVars, Nested!childVars
    <2>4. OwnInv'
        BY <2>1 DEF OwnInv, Nested!TypeOK, Nested!parentVars, Nested!childVars
    <2> QED
        BY <2>2, <2>3, <2>4
<1>15. ASSUME Nested!Forgotten, on' = FALSE, parent' \in {"idle", "failed", "done"},
              UNCHANGED <<mode, run, db, retried>>
       PROVE  CallsInv'
    <2>1. /\ attempt' = 0 /\ counter' = 0 /\ position' = 1
          /\ handle' = [p \in Nested!Positions |-> 0] /\ seen' = [p \in Nested!Positions |-> Nested!NoCall]
          /\ child' = [i \in Nested!Ids |-> "none"] /\ arg' = Nested!Nothing
          /\ out' = [i \in Nested!Ids |-> "none"] /\ callbacks' = [i \in Nested!Ids |-> <<>>] /\ dest' = {}
          /\ pending' = Nested!Nothing /\ toPut' = {} /\ stored' = {}
        BY <1>15 DEF Nested!Forgotten, Nested!FreshParent, Nested!FreshChildren
    <2>2. attempt' \in 0 .. MaxAttempts /\ position' \in 1 .. (Program + 1)
        BY <1>0, <2>1 DEF ProgramAssumption
    <2>3. /\ Nested!Nothing \in [Nested!Ids -> {Nested!NoCall} \cup Nested!Positions]
          /\ \A i \in Nested!Ids : Nested!Nothing[i] = Nested!NoCall
        BY DEF Nested!Nothing
    <2>4. Nested!TypeOK'
        BY <1>15, <2>1, <2>2, <2>3 DEF Nested!TypeOK
    <2>5. callbacks' \in [Nested!Ids -> Registrations]
        BY <2>1 DEF Registrations
    <2>6. CountInv'
        BY <1>15, <2>1, <2>5 DEF CountInv, Made
    <2>7. OwnInv'
        BY <1>15, <2>1, <2>3 DEF OwnInv
    <2> QED
        BY <2>4, <2>6, <2>7
<1>16. CASE Nested!EndRun
    BY <1>15, <1>16 DEF Nested!EndRun
<1>17. CASE Nested!Crash
    BY <1>15, <1>17 DEF Nested!Crash
<1>18. CASE UNCHANGED Nested!vars
    BY <1>18 DEF Nested!vars, Nested!parentVars, Nested!childVars, Nested!writeVars, Nested!TypeOK, CountInv, OwnInv, Made
<1> QED
    BY <1>1, <1>2, <1>3, <1>4, <1>5, <1>6, <1>7, <1>8, <1>9, <1>10, <1>12, <1>13, <1>14,
       <1>16, <1>17, <1>18 DEF Nested!Next, Nested!Over

\* In a run that found no results, no number beyond the counter has any, and what
\* is behind a call of this attempt was started for it.
FreshInv == stored = {} =>
    /\ \A i \in Nested!Ids : i > counter => pending[i] = Nested!NoCall
    /\ \A p \in Nested!Positions :
           /\ handle[p] # 0 => child[handle[p]] # "none" /\ arg[handle[p]] = p
           /\ seen[p] \in {Nested!NoCall, p}

LEMMA FreshInit == Nested!Init => FreshInv
BY DEF Nested!Init, FreshInv, Nested!Nothing

LEMMA FreshNext ==
    ASSUME ProgramAssumption, CallsInv, FreshInv, [Nested!Next]_Nested!vars
    PROVE  FreshInv'
<1>0. /\ counter \in Nat /\ \A i \in Nested!Ids : i \in Nat /\ i # 0
      /\ \A i \in Nested!Ids : i > counter => child[i] = "none"
      /\ Nested!TypeOK
    BY IdFacts DEF CallsInv, CountInv, Nested!TypeOK
<1>a. /\ DOMAIN pending = Nested!Ids /\ DOMAIN child = Nested!Ids /\ DOMAIN arg = Nested!Ids
      /\ DOMAIN handle = Nested!Positions /\ DOMAIN seen = Nested!Positions
      /\ \A p \in Nested!Positions : handle[p] \in {0} \cup Nested!Ids
    BY DEF CallsInv, Nested!TypeOK
<1>1. CASE Nested!StartRun
    <2>1. /\ ~on /\ counter' = 0 /\ pending' = db
          /\ stored' = {db[i] : i \in Nested!Ids} \ {Nested!NoCall}
          /\ UNCHANGED <<handle, seen>>
        BY <1>1 DEF Nested!StartRun
    <2>2. stored' = {} => \A i \in Nested!Ids : pending'[i] = Nested!NoCall
        BY <2>1
    <2>3. /\ handle = [p \in Nested!Positions |-> 0]
          /\ seen = [p \in Nested!Positions |-> Nested!NoCall]
        BY <2>1 DEF CallsInv, CountInv
    <2> QED
        BY <2>1, <2>2, <2>3 DEF FreshInv
<1>2. CASE Nested!CallKnown
    <2>1. /\ parent = "running" /\ position <= Program /\ pending[Nested!Id] # Nested!NoCall
          /\ UNCHANGED stored
        BY <1>2 DEF Nested!CallKnown, Nested!AlreadyRan
    <2>2. Nested!Id \in Nested!Ids /\ Nested!Id > counter
        BY <1>0, <2>1, NextId
    <2>3. stored # {}
        BY <2>1, <2>2 DEF FreshInv
    <2> QED
        BY <2>1, <2>3 DEF FreshInv
<1>3. CASE Nested!CallNew
    <2> DEFINE i == Nested!Id
    <2>1. /\ parent = "running" /\ position <= Program
          /\ counter' = i /\ handle' = [handle EXCEPT ![position] = i]
          /\ child' = [child EXCEPT ![i] = "queued"] /\ arg' = [arg EXCEPT ![i] = position]
          /\ UNCHANGED <<seen, pending, stored>>
        BY <1>3 DEF Nested!CallNew, Nested!writeVars
    <2>2. /\ i \in Nested!Ids /\ i = counter + 1 /\ i \in Nat /\ position \in Nested!Positions
          /\ child[i] = "none"
        BY <2>1, NextId
    <2> HIDE DEF i
    <2>3. SUFFICES ASSUME stored = {} PROVE FreshInv'
        BY <2>1 DEF FreshInv
    <2>4. \A k \in Nested!Ids : k > counter' => pending'[k] = Nested!NoCall
        BY <1>0, <2>1, <2>2, <2>3 DEF FreshInv
    <2>5. ASSUME NEW p \in Nested!Positions, handle'[p] # 0
          PROVE  child'[handle'[p]] # "none" /\ arg'[handle'[p]] = p
        <3>1. CASE p = position
            BY <1>a, <2>1, <2>2, <3>1
        <3>2. CASE p # position
            <4>1. handle'[p] = handle[p] /\ handle[p] \in Nested!Ids
                BY <1>a, <2>1, <2>5, <3>2
            <4>2. child[handle[p]] # "none" /\ arg[handle[p]] = p
                BY <2>3, <2>5, <4>1 DEF FreshInv
            <4> QED
                BY <1>a, <2>1, <2>2, <4>1, <4>2
        <3> QED
            BY <3>1, <3>2
    <2> QED
        BY <2>1, <2>3, <2>4, <2>5 DEF FreshInv
<1>4. ASSUME NEW i \in Nested!Ids, Nested!Commit(i), child[i] # "none",
             UNCHANGED <<counter, handle, seen, child, arg, stored>>
      PROVE  FreshInv'
    <2>1. \A k \in Nested!Ids : k # i => pending'[k] = pending[k]
        BY <1>a, <1>4 DEF Nested!Commit
    <2>2. ~(i > counter)
        BY <1>0, <1>4
    <2> QED
        BY <1>4, <2>1, <2>2 DEF FreshInv
<1>5. CASE Nested!Register
    <2>1. UNCHANGED <<counter, handle, seen, child, arg, stored>> /\ parent = "registering"
        BY <1>5 DEF Nested!Register
    <2>2. counter \in Nested!Ids
        BY <2>1, Registering
    <2>3. CASE child[counter] = "ended"
        BY <1>4, <1>5, <2>1, <2>2, <2>3 DEF Nested!Register
    <2>4. CASE child[counter] # "ended"
        BY <1>5, <2>1, <2>4 DEF Nested!Register, Nested!writeVars, FreshInv
    <2> QED
        BY <2>3, <2>4
<1>6. ASSUME NEW i \in Nested!Ids, Nested!RunCallback(i)
      PROVE  FreshInv'
    <2>1. UNCHANGED <<counter, handle, seen, child, arg, stored>> /\ child[i] = "ended"
        BY <1>6 DEF Nested!RunCallback, Nested!parentVars
    <2>2. CASE Head(callbacks[i]) = "commit"
        BY <1>4, <1>6, <2>1, <2>2 DEF Nested!RunCallback
    <2>3. CASE Head(callbacks[i]) # "commit"
        BY <1>6, <2>1, <2>3 DEF Nested!RunCallback, Nested!writeVars, FreshInv
    <2> QED
        BY <2>2, <2>3
<1>7. CASE Nested!Retry
    <2>1. /\ handle' = [p \in Nested!Positions |-> 0]
          /\ seen' = [p \in Nested!Positions |-> Nested!NoCall]
          /\ UNCHANGED <<counter, pending, stored>>
        BY <1>7 DEF Nested!Retry, Nested!FreshParent, Nested!writeVars
    <2> QED
        BY <2>1 DEF FreshInv
<1>8. ASSUME NEW p \in Nested!Positions, Nested!Look(p)
      PROVE  FreshInv'
    <2>1. /\ handle[p] \in dest /\ seen' = [seen EXCEPT ![p] = Nested!Result(handle[p])]
          /\ UNCHANGED <<counter, handle, child, arg, pending, stored>>
        BY <1>8 DEF Nested!Look, Nested!childVars, Nested!writeVars
    <2>2. handle[p] # 0
        BY <1>0, <2>1 DEF Nested!TypeOK
    <2>3. stored = {} => Nested!Result(handle[p]) = p
        BY <2>2 DEF FreshInv, Nested!Result
    <2> QED
        BY <1>a, <2>1, <2>3 DEF FreshInv
<1>9. ASSUME NEW i \in Nested!Ids, child[i] # "none", NEW st \in {"running", "ended"},
             child' = [child EXCEPT ![i] = st],
             UNCHANGED <<Nested!parentVars, arg, Nested!writeVars, stored>>
      PROVE  FreshInv'
    <2>1. \A k \in Nested!Ids : child[k] # "none" => child'[k] # "none"
        BY <1>a, <1>9
    <2>2. \A p \in Nested!Positions : handle[p] # 0 => handle[p] \in Nested!Ids
        BY <1>a
    <2> QED
        BY <1>9, <2>1, <2>2 DEF FreshInv, Nested!parentVars, Nested!writeVars
<1>10. ASSUME NEW i \in Nested!Ids, Nested!StartChild(i)
       PROVE  FreshInv'
    BY <1>9, <1>10 DEF Nested!StartChild
<1>11. ASSUME NEW i \in Nested!Ids, NEW o \in {"ok", "error"}, Nested!EndChild(i, o)
       PROVE  FreshInv'
    BY <1>9, <1>11 DEF Nested!EndChild
<1>12. ASSUME UNCHANGED <<counter, handle, seen, child, arg, pending, stored>>
       PROVE  FreshInv'
    BY <1>12 DEF FreshInv
<1>13. CASE Nested!Chain \/ Nested!Fail \/ Nested!Finish
    BY <1>12, <1>13 DEF Nested!Chain, Nested!Fail, Nested!Finish, Nested!childVars, Nested!writeVars
<1>14. ASSUME NEW i \in Nested!Ids, Nested!PutDone(i)
       PROVE  FreshInv'
    BY <1>12, <1>14 DEF Nested!PutDone, Nested!parentVars, Nested!childVars
<1>15. ASSUME Nested!Forgotten
       PROVE  FreshInv'
    BY <1>15 DEF Nested!Forgotten, Nested!FreshParent, Nested!Nothing, FreshInv
<1>16. CASE Nested!EndRun \/ Nested!Crash
    BY <1>15, <1>16 DEF Nested!EndRun, Nested!Crash
<1>17. CASE UNCHANGED Nested!vars
    BY <1>12, <1>17 DEF Nested!vars, Nested!parentVars, Nested!childVars, Nested!writeVars
<1> QED
    BY <1>1, <1>2, <1>3, <1>5, <1>6, <1>7, <1>8, <1>10, <1>11, <1>13, <1>14, <1>16, <1>17
    DEF Nested!Next, Nested!Over

LEMMA CallsHold ==
    ASSUME ProgramAssumption
    PROVE  Nested!Spec => [](CallsInv /\ FreshInv)
<1>1. Nested!Init => CallsInv /\ FreshInv
    BY CallsInit, FreshInit
<1>2. CallsInv /\ FreshInv /\ [Nested!Next]_Nested!vars => (CallsInv /\ FreshInv)'
    BY CallsNext, FreshNext
<1> QED
    BY <1>1, <1>2, PTL DEF Nested!Spec

\* Every variable keeps its type: a parent never has more children than calls,
\* but for the one a retry may repeat, and never more than two callbacks are
\* registered with a child.
THEOREM CallsTyped ==
    ASSUME ProgramAssumption
    PROVE  Nested!Spec => []Nested!TypeOK
<1>1. CallsInv => Nested!TypeOK
    BY DEF CallsInv
<1> QED
    BY <1>1, CallsHold, PTL

\* prepare_push_task_functional: the number of a call tells the children of a
\* parent apart, within a run and across crashes, so that the parent gets the
\* results of its own calls; a retry of the parent changes nothing as long as the
\* run has found no results.
THEOREM ResultsAreOwn ==
    ASSUME ProgramAssumption
    PROVE  Nested!Spec => []OwnResults
<1>1. CallsInv /\ FreshInv => OwnResults
    BY DEF CallsInv, OwnInv, FreshInv, OwnResults, Nested!OwnResults
<1> QED
    BY <1>1, CallsHold, PTL

\* accept_push: a call whose result was durable when a run began is not run
\* again, for a parent that was never retried within a run.
THEOREM DurableNotRunAgain ==
    ASSUME ProgramAssumption
    PROVE  Nested!Spec => []NotRunAgain
<1>1. CallsInv => NotRunAgain
    <2> SUFFICES ASSUME CallsInv, ~retried, NEW i \in Nested!Ids, child[i] # "none"
                 PROVE  arg[i] \notin stored
        BY DEF NotRunAgain, Nested!NotRunAgain
    <2>1. stored \subseteq Nested!Positions /\ arg[i] \in {Nested!NoCall, i} /\ i \notin stored
        BY DEF CallsInv, Nested!TypeOK, OwnInv
    <2> QED
        BY <2>1, IdFacts
<1> QED
    BY <1>1, CallsHold, PTL
=============================================================================
