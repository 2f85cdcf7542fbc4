----------------------------- MODULE ReactAgent -----------------------------
(***************************************************************************)
(* The graph of create_react_agent: a model that may call tools, tools     *)
(* that answer it, and the nodes and routers between them.                 *)
(*                                                                         *)
(* The messages of the thread are kept as far as the routers and           *)
(* _validate_chat_history look at them: the tool calls made, those of the  *)
(* last AIMessage, and those a ToolMessage answers.  Supersteps are atomic *)
(* except for the tools, whose calls end one by one: version "v1" executes *)
(* all calls of the message in one task, "v2" sends each to a task of its  *)
(* own.  A run may be interrupted, fail, crash or run out of steps, and    *)
(* the thread be resumed or given a new input after it; what is durable    *)
(* then is what SuperstepResume and PregelLoop say.  What a tool answers,  *)
(* how its arguments are injected and the prompt are left out, and so is   *)
(* a graph without tools.                                                  *)
(***************************************************************************)
EXTENDS Integers, FiniteSets

CONSTANTS
    Agents,     \* arguments of create_react_agent: [version, pre, post, respond];
                \* post only with version "v2", the router has Sends for no other
    Limits,     \* recursion_limit of a run
    MaxCalls,   \* bound: tool calls of the thread
    LastTurn    \* bound: runs on the thread

CallIds == 1 .. MaxCalls

VARIABLES
    agent,      \* arguments of create_react_agent
    pc,         \* "idle", "tick": between supersteps, "step": in one
    how,        \* how the last run ended
    left,       \* stop - step: remaining_steps of the superstep
    next,       \* tasks of the superstep: nodes, and calls sent to "tools"
    made,       \* tool calls in the messages
    last,       \* those of the last AIMessage
    direct,     \* those whose tool is in should_return_direct
    answered,   \* those with a ToolMessage
    result,     \* how each call of the superstep ended; pending writes in "v2"
    turns,      \* runs begun
    abandoned,  \* history: calls unanswered when a run was given up for an input
    sorry,      \* history: did "Sorry, need more steps" take the place of calls?
    returned    \* history: has a tool returned directly since the last input, with
                \* no message of a Command after its ToolMessage?

vars == <<agent, pc, how, left, next, made, last, direct, answered, result, turns,
          abandoned, sorry, returned>>

Go(nodes) == [nodes |-> nodes, sends |-> {}]
Send(cs)  == [nodes |-> {}, sends |-> cs]
Nothing   == Go({})

NoResults == [c \in CallIds |-> "none"]
Finished  == {"message", "command"}    \* a ToolMessage, or a Command with messages
                                       \* after its ToolMessage
TypeOK ==
    /\ agent \in Agents
    /\ pc \in {"idle", "tick", "step"}
    /\ how \in {"never", "answer", "interrupt", "failure", "crash", "recursion"}
    /\ left \in Int
    /\ next \in [nodes : SUBSET {"pre", "agent", "post", "tools", "respond"},
                 sends : SUBSET CallIds]
    /\ made \subseteq CallIds
    /\ last \subseteq made /\ direct \subseteq made /\ answered \subseteq made
    /\ result \in [CallIds -> Finished \cup {"none", "raise", "ask"}]
    /\ turns \in 0 .. LastTurn
    /\ abandoned \subseteq made /\ sorry \in BOOLEAN /\ returned \in BOOLEAN

Unanswered == made \ answered

-----------------------------------------------------------------------------
(* Routers.                                                                *)

\* entrypoint
Entry == IF agent.pre THEN "pre" ELSE "agent"

\* Where an answer without tool calls goes, past the post_model_hook.
Answer == IF agent.respond THEN Go({"respond"}) ELSE Nothing

\* should_continue, and the edge to the post_model_hook; cs are the calls of the
\* last message.
ShouldContinue(cs) ==
    IF agent.post THEN Go({"post"})
    ELSE IF cs = {} THEN Answer
    ELSE IF agent.version = "v1" THEN Go({"tools"}) ELSE Send(cs)

\* post_model_hook_router; done are the calls that the hook has answered.
Router(done) ==
    IF last \ done # {} THEN Send(last \ done)
    ELSE IF done # {} THEN Go({Entry}) ELSE Answer

\* Variant: the other calls of the message are not looked at.
RouteOwn(seen, extra) ==
    IF seen \cap direct # {} THEN {} ELSE {Entry}

\* route_tool_responses: seen are the calls of the ToolMessages at the end of the
\* messages, extra is there another message between them and the AIMessage?
RouteToolResponses(seen, extra) ==
    IF seen \cap direct # {} \/ (~extra /\ last \cap direct # {}) THEN {} ELSE {Entry}

\* "v2": the task of call c has its own messages and those of the hook.
RouteOfCall(c) ==
    IF result[c] = "command" THEN RouteToolResponses({}, TRUE)
    ELSE RouteToolResponses({c} \cup (last \cap answered), FALSE)

\* "v1": the messages of the calls are in the calls' order.
RouteOfAll(res) ==
    LET extras == {c \in last : res[c] = "command"}
    IN  RouteToolResponses({c \in last : \A x \in extras : c > x}, extras # {})

-----------------------------------------------------------------------------
(* Runs.                                                                   *)

Init ==
    /\ agent \in Agents
    /\ pc = "idle" /\ how = "never" /\ left = 0 /\ next = Nothing
    /\ made = {} /\ last = {} /\ direct = {} /\ answered = {}
    /\ result = NoResults /\ turns = 0
    /\ abandoned = {} /\ sorry = FALSE /\ returned = FALSE

Enter ==
    /\ pc = "idle" /\ turns < LastTurn
    /\ pc' = "tick" /\ turns' = turns + 1 /\ sorry' = FALSE
    /\ UNCHANGED <<agent, how, made, last, direct, answered>>

\* A new message.  The tasks a run has left are discarded; the step of the input
\* and that of START are taken before the entry point's.
Input ==
    /\ Enter
    /\ \E l \in Limits : left' = l - 1
    /\ next' = Go({Entry}) /\ result' = NoResults
    /\ abandoned' = IF how \in {"interrupt", "failure", "crash"}
                       THEN abandoned \cup Unanswered ELSE abandoned
    /\ returned' = FALSE

\* The thread is invoked without input: its tasks are prepared again.
Resume ==
    /\ Enter
    /\ next # Nothing
    /\ \E l \in Limits : left' = l + 1
    /\ UNCHANGED <<next, result, abandoned, returned>>

\* The run ends; ok are the results that are kept.
Leave(why, ok) ==
    /\ pc' = "idle" /\ how' = why
    /\ result' = [c \in CallIds |-> IF c \in ok THEN result[c] ELSE "none"]

\* tick
Tick ==
    /\ pc = "tick"
    /\ IF left < 0 THEN Leave("recursion", {})
       ELSE IF next = Nothing THEN Leave("answer", {})
       ELSE pc' = "step" /\ UNCHANGED <<how, result>>
    /\ UNCHANGED <<agent, left, next, made, last, direct, answered, turns, abandoned,
                   sorry, returned>>

\* after_tick, and the triggers of the next superstep.
Apply(tasks) == pc' = "tick" /\ left' = left - 1 /\ next' = tasks

-----------------------------------------------------------------------------
(* The nodes.                                                              *)

\* Variant: off by one.
MoreStepsOne(cs, ds) == (left < 1 /\ cs \subseteq ds) \/ (left < 1 /\ cs # {})

\* _are_more_steps_needed, for a response with calls cs, ds of them direct.
MoreSteps(cs, ds) == (left < 1 /\ cs \subseteq ds) \/ (left < 2 /\ cs # {})

\* A superstep of one node raises, or interrupts.
NodeRaises ==
    /\ pc = "step" /\ next.nodes \cap {"agent", "pre", "post", "respond"} # {}
    /\ \/ Leave("failure", {})
       \/ "agent" \notin next.nodes /\ Leave("interrupt", {})
    /\ UNCHANGED <<agent, left, next, made, last, direct, answered, turns, abandoned,
                   sorry, returned>>

PreHook ==
    /\ pc = "step" /\ next.nodes = {"pre"}
    /\ Apply(Go({"agent"}))
    /\ UNCHANGED <<agent, how, made, last, direct, answered, result, turns, abandoned,
                   sorry, returned>>

\* call_model, when _validate_chat_history accepts the messages: the response has
\* k calls, those of ds to tools that return directly.
CallModel ==
    /\ pc = "step" /\ next.nodes = {"agent"} /\ Unanswered = {}
    /\ \E k \in 0 .. 2 :
         LET new == (Cardinality(made) + 1) .. (Cardinality(made) + k)
         IN  /\ new \subseteq CallIds
             /\ \E ds \in SUBSET new :
                  IF MoreSteps(new, ds)
                  THEN /\ last' = {} /\ sorry' = (new # {})
                       /\ Apply(ShouldContinue({}))
                       /\ UNCHANGED <<made, direct>>
                  ELSE /\ made' = made \cup new /\ last' = new
                       /\ direct' = direct \cup ds
                       /\ Apply(ShouldContinue(new))
                       /\ UNCHANGED sorry
    /\ UNCHANGED <<agent, how, answered, result, turns, abandoned, returned>>

\* _validate_chat_history raises INVALID_CHAT_HISTORY.
RefuseHistory ==
    /\ pc = "step" /\ next.nodes = {"agent"} /\ Unanswered # {}
    /\ Leave("failure", {})
    /\ UNCHANGED <<agent, left, next, made, last, direct, answered, turns, abandoned,
                   sorry, returned>>

\* The post_model_hook may answer calls itself.
PostHook ==
    /\ pc = "step" /\ next.nodes = {"post"}
    /\ \E cs \in SUBSET last : answered' = answered \cup cs /\ Apply(Router(cs))
    /\ UNCHANGED <<agent, how, made, last, direct, result, turns, abandoned, sorry,
                   returned>>

\* generate_structured_response
Respond ==
    /\ pc = "step" /\ next.nodes = {"respond"}
    /\ Apply(Nothing)
    /\ UNCHANGED <<agent, how, made, last, direct, answered, result, turns, abandoned,
                   sorry, returned>>

\* _parse_input: the calls that the superstep's tasks execute.
Due == IF next.nodes = {"tools"} THEN last ELSE next.sends

\* _run_one: a call ends.  An error that is handled, and a tool that does not
\* exist, give a ToolMessage.
RunOne(c, r) ==
    /\ pc = "step" /\ c \in Due /\ result[c] = "none"
    /\ result' = [result EXCEPT ![c] = r]
    /\ UNCHANGED <<agent, pc, how, left, next, made, last, direct, answered, turns,
                   abandoned, sorry, returned>>

Ended(r) == {c \in Due : result[c] \in r}

\* Calls whose results are pending writes of their own task.
Kept == IF agent.version = "v2" THEN Ended(Finished) ELSE {}

\* A call has raised, or some have asked the user something: the superstep is not
\* applied.  Calls that have not ended are cancelled.
ToolsStop ==
    /\ pc = "step"
    /\ \/ Ended({"raise"}) # {} /\ Leave("failure", Kept)
       \/ Ended({"ask"}) # {} /\ Ended({"none"}) = {} /\ Ended({"raise"}) = {}
          /\ Leave("interrupt", Kept)
    /\ UNCHANGED <<agent, left, next, made, last, direct, answered, turns, abandoned,
                   sorry, returned>>

\* The calls to tools that return directly after which the messages have only
\* ToolMessages: not those before the messages of a Command.
DirectCalls ==
    {c \in Due \cap direct : \A x \in Ended({"command"}) :
        agent.version = "v1" /\ c > x}

\* _combine_tool_outputs and route_tool_responses: all calls have ended.
ToolsEnd ==
    /\ pc = "step" /\ Due # {} /\ Ended(Finished) = Due
    /\ answered' = answered \cup Due
    /\ Apply(Go(IF agent.version = "v1" THEN RouteOfAll(result)
                ELSE UNION {RouteOfCall(c) : c \in Due}))
    /\ result' = NoResults
    /\ returned' = (DirectCalls # {})
    /\ UNCHANGED <<agent, how, made, last, direct, turns, abandoned, sorry>>

\* The process dies; some of the finished tasks' writes are durable.
Crash ==
    /\ pc # "idle"
    /\ \E ok \in SUBSET Kept : Leave("crash", ok)
    /\ UNCHANGED <<agent, left, next, made, last, direct, answered, turns, abandoned,
                   sorry, returned>>

\* Nobody runs the thread again.
Rest == pc = "idle" /\ turns = LastTurn /\ UNCHANGED vars

Next ==
    \/ Input \/ Resume \/ Tick
    \/ PreHook \/ CallModel \/ RefuseHistory \/ PostHook \/ Respond \/ NodeRaises
    \/ \E c \in CallIds, r \in Finished \cup {"raise", "ask"} : RunOne(c, r)
    \/ ToolsStop \/ ToolsEnd \/ Crash \/ Rest

Spec == Init /\ [][Next]_vars

-----------------------------------------------------------------------------
(* Properties.                                                             *)

\* "Every tool call in the message history MUST have a corresponding ToolMessage"
\* (_validate_chat_history): however runs end, and the steps run out, the model is
\* not refused its history unless an input was given over calls that an interrupt,
\* a failure or a crash had left.
AnsweredHistory ==
    pc = "step" /\ next.nodes = {"agent"} => Unanswered \subseteq abandoned

\* "If any of the tools are configured to return_directly after running" (create_
\* react_agent): the model is not called again before the next input, whichever of
\* several calls of the superstep it was, unless one of them ended as a Command
\* whose messages hide it: in "v1" a call after it, or itself; in "v2", where its
\* task routes by its own messages, any call executed with it.
DirectEnds == returned => next.nodes \cap {"pre", "agent"} = {}

\* "the react agent will return a final AI Message with the content 'Sorry, need
\* more steps to process this request.' No GraphRecusionError will be raised in
\* this case" (state_schema of create_react_agent).
NoRecursionError == how = "recursion" /\ pc = "idle" => ~sorry
=============================================================================
