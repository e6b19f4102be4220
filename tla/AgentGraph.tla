----------------------------- MODULE AgentGraph -----------------------------
(***************************************************************************)
(* The multi-agent workflow of services/agents: planner, retriever,        *)
(* research, tool, critic and final-answer nodes on a LangGraph state      *)
(* graph, run by AgentOrchestratorService.execute_query.                   *)
(*                                                                         *)
(* One node runs at a time; what a language model, a tool server or the    *)
(* vector store answers is a nondeterministic choice. Documents and tool   *)
(* results are counted, because the lists of the state only grow and the   *)
(* properties only ask whether an analysis saw all of them. LangGraph      *)
(* itself is external: it runs a node per superstep and raises             *)
(* GraphRecursionError when StepLimit of them did not reach END.           *)
(***************************************************************************)
EXTENDS Naturals

CONSTANTS
    StepLimit,      \* recursion limit of LangGraph; execute_query sets none
    MaxIterations   \* the 3 of should_continue and critic_node

ASSUME GraphAssumption ==
    /\ StepLimit \in Nat \ {0}
    /\ MaxIterations \in Nat \ {0}

VARIABLES
    node,        \* the node that runs next, "END" when none does
    step,        \* supersteps taken
    iterations,  \* state["iterations"]
    documents,   \* length of state["retrieved_documents"], in retrievals
    toolResults, \* length of state["tool_results"]
    toolCall,    \* state["tool_calls"] is not empty
    analysis,    \* state["analysis"], and the evidence its prompt showed
    approved,    \* state["is_approved"]
    outcome,     \* what execute_query returned
    asked,       \* history: tool calls requested by research_node
    judged,      \* history: the analysis critic_node looked at last
    rounds       \* history: runs of retriever_node

graphVars == <<node, step, iterations, documents, toolResults, toolCall, analysis,
          approved, outcome, asked, judged, rounds>>

Nodes == {"planner", "retriever", "research", "tool", "critic", "final", "END"}

\* An analysis is what the model wrote, a text that says that nothing was
\* found, or the text for a failed call; "" before the first one.
Analyses == [text : {"", "findings", "nothing", "error"}, documents : Nat, results : Nat]
NoAnalysis == [text |-> "", documents |-> 0, results |-> 0]

GraphTypeOK ==
    /\ node \in Nodes
    /\ step \in 0..StepLimit
    /\ iterations \in Nat /\ documents \in Nat /\ toolResults \in Nat
    /\ asked \in Nat /\ rounds \in Nat
    /\ toolCall \in BOOLEAN /\ approved \in BOOLEAN
    /\ analysis \in Analyses /\ judged \in Analyses
    /\ outcome \in {"none", "answer", "error"}

GraphInit ==
    /\ node = "planner"
    /\ step = 0
    /\ iterations = 0 /\ documents = 0 /\ toolResults = 0
    /\ asked = 0 /\ rounds = 0
    /\ toolCall = FALSE /\ approved = FALSE
    /\ analysis = NoAnalysis /\ judged = NoAnalysis
    /\ outcome = "none"

-----------------------------------------------------------------------------
\* The route out of critic_node.
ShouldContinue(call, ok, count) ==
    IF call THEN "tool"
    ELSE IF ok \/ count >= MaxIterations THEN "final"
    ELSE "retriever"

\* A superstep runs node n.
Runs(n) ==
    /\ node = n
    /\ step < StepLimit
    /\ step' = step + 1

\* planner_node; a failed call has a fallback plan and counts as well.
Planner ==
    /\ Runs("planner")
    /\ iterations' = iterations + 1
    /\ node' = "retriever"
    /\ UNCHANGED <<documents, toolResults, toolCall, analysis, approved, outcome,
                   asked, judged, rounds>>

\* retriever_node: its results are appended to those of earlier rounds.
Retriever ==
    /\ Runs("retriever")
    /\ documents' \in {documents, documents + 1}
    /\ rounds' = rounds + 1
    /\ node' = "research"
    /\ UNCHANGED <<iterations, toolResults, toolCall, analysis, approved, outcome,
                   asked, judged>>

\* The vector store or the embedding fails: the only node with no fallback.
RetrieverRaises ==
    /\ Runs("retriever")
    /\ outcome' = "error"
    /\ node' = "END"
    /\ rounds' = rounds + 1
    /\ UNCHANGED <<iterations, documents, toolResults, toolCall, analysis, approved,
                   asked, judged>>

\* research_node writes an analysis of all the evidence there is. Without any
\* evidence the model is not asked.
Analyse ==
    /\ Runs("research")
    /\ \E text \in IF documents + toolResults = 0 THEN {"nothing"}
                   ELSE {"findings", "nothing", "error"} :
         analysis' = [text |-> text, documents |-> documents, results |-> toolResults]
    /\ toolCall' = FALSE
    /\ node' = "critic"
    /\ UNCHANGED <<iterations, documents, toolResults, approved, outcome, asked, judged, rounds>>

\* research_node asks for a tool instead, and leaves the analysis as it was.
AskForTool ==
    /\ Runs("research")
    /\ documents + toolResults > 0
    /\ toolCall' = TRUE
    /\ asked' = asked + 1
    /\ node' = "critic"
    /\ UNCHANGED <<iterations, documents, toolResults, analysis, approved, outcome, judged, rounds>>

\* Mutant of Tool: its result goes to the critic and not to research_node.
ToolToCritic ==
    /\ Runs("tool")
    /\ toolResults' = toolResults + 1
    /\ toolCall' = FALSE
    /\ node' = "critic"
    /\ UNCHANGED <<iterations, documents, analysis, approved, outcome, asked, judged, rounds>>

\* tool_node: the call, also a failed or unknown one, yields one result.
Tool ==
    /\ Runs("tool")
    /\ toolResults' = toolResults + 1
    /\ toolCall' = FALSE
    /\ node' = "research"
    /\ UNCHANGED <<iterations, documents, analysis, approved, outcome, asked, judged, rounds>>

\* critic_node approves without asking the model.
AutoApproves == analysis.text = "nothing" \/ iterations >= MaxIterations

\* Mutant of Critic: a failed call says nothing about the approval.
CriticSilentOnError ==
    /\ Runs("critic")
    /\ \/ /\ approved' \in IF AutoApproves THEN {TRUE} ELSE BOOLEAN
          /\ judged' = analysis
       \/ ~AutoApproves /\ UNCHANGED <<approved, judged>>
    /\ node' = ShouldContinue(toolCall, approved', iterations)
    /\ UNCHANGED <<iterations, documents, toolResults, toolCall, analysis, outcome, asked, rounds>>

\* critic_node judges the analysis of the state, which is that of an earlier
\* round while a tool call is pending. A failed call approves.
Critic ==
    /\ Runs("critic")
    /\ approved' \in IF AutoApproves THEN {TRUE} ELSE BOOLEAN
    /\ judged' = analysis
    /\ node' = ShouldContinue(toolCall, approved', iterations)
    /\ UNCHANGED <<iterations, documents, toolResults, toolCall, analysis, outcome, asked, rounds>>

\* final_answer_node returns the analysis as the answer.
FinalAnswer ==
    /\ Runs("final")
    /\ outcome' = "answer"
    /\ node' = "END"
    /\ UNCHANGED <<iterations, documents, toolResults, toolCall, analysis, approved,
                   asked, judged, rounds>>

\* GraphRecursionError, which execute_query turns into an error answer.
RecursionLimit ==
    /\ node # "END"
    /\ step = StepLimit
    /\ outcome' = "error"
    /\ node' = "END"
    /\ UNCHANGED <<step, iterations, documents, toolResults, toolCall, analysis,
                   approved, asked, judged, rounds>>

GraphNext ==
    \/ Planner \/ Retriever \/ RetrieverRaises \/ Analyse \/ AskForTool \/ Tool
    \/ Critic \/ FinalAnswer \/ RecursionLimit

GraphSpec == GraphInit /\ [][GraphNext]_graphVars

-----------------------------------------------------------------------------
(***************************************************************************)
(* Safety                                                                  *)
(***************************************************************************)

\* The answer was written with every document retrieved and every tool result
\* in the prompt: no evidence arrives between the last analysis and the answer
\* (the edges of create_agent_graph lead from both back to research_node).
AnswerUsesAllEvidence ==
    outcome = "answer" =>
        analysis.documents = documents /\ analysis.results = toolResults

\* The answer is the very analysis that the critic looked at last, and that
\* look approved it: the approval of an older analysis, given while a tool
\* call was pending, never releases a newer one.
AnswerWasJudged ==
    outcome = "answer" => judged = analysis /\ approved

\* Every tool call the model asked for was executed once before the answer.
NoToolCallDropped == outcome = "answer" => asked = toolResults

-----------------------------------------------------------------------------
(***************************************************************************)
(* What the documentation claims and the code does not do                  *)
(***************************************************************************)

\* services/agents/graph.py: "If the critic rejected it but we hit our max
\* iterations (to prevent infinite loops)" the answer is given. The critic
\* sends the workflow back to retrieval at most MaxIterations times.
RejectionsBounded == rounds <= MaxIterations + 1
=============================================================================
