------------------------------- MODULE OpsGraph -------------------------------
(***************************************************************************)
(* The agent graph of python/src/aiops/agent: triage, alert correlation,   *)
(* planning, the self-looping diagnosis, the approval gate, remediation,   *)
(* the report and the knowledge sink, over the shared AgentState.          *)
(*                                                                         *)
(* One thread of the checkpointer is modelled.  LangGraph (external) runs  *)
(* one node at a time, writes what the node returns to the thread's state  *)
(* and asks the router for the next node; a new invocation of the thread   *)
(* starts at triage with its input written over the state the last one     *)
(* left, so fields the input does not name survive.                        *)
(*                                                                         *)
(* Abstracted: the LLM is a choice over the outputs its schemas admit, or  *)
(* a failure; a confidence is "low" (< 0.5), "fair" (< 0.6) or "good"; a   *)
(* remediation plan is the set of its steps' risk levels; texts are left   *)
(* out, and with them the answers of tools (collected_data), which only    *)
(* prompts and the report quote.  total_tokens stays 0 in this code        *)
(* (nothing calls _update_token_usage), so the router's token valve is     *)
(* left out too.                                                           *)
(***************************************************************************)
EXTENDS Integers, Sequences

CONSTANTS
    Tool,         \* MCP tools
    Plan,         \* remediation plans the LLM proposes: sets of risk levels
    AlertCount,   \* numbers of alerts an alert request carries
    MaxRounds,    \* the cap of max_collection_rounds (5)
    MaxSessions,  \* bound: invocations with a fresh request
    MayRaise,     \* nodes whose process() may raise
    MaxErrors,    \* bound: exceptions per request
    MCPWired,     \* build_ops_graph got an mcp_client
    CanResume     \* the API layer re-invokes the thread with a decision

RiskLevel == {"none", "low", "medium", "high", "critical"}
Confidence == {"low", "fair", "good"}
Node == {"triage", "direct_tool", "alert_correlation", "planning", "diagnostic",
         "hitl_gate", "remediation", "report", "knowledge_sink"}

ASSUME GraphAssumption ==
    /\ Plan \subseteq SUBSET RiskLevel
    /\ AlertCount \subseteq Nat
    /\ MaxRounds \in Nat \ {0}
    /\ MaxSessions \in Nat \ {0} /\ MaxErrors \in Nat
    /\ MayRaise \subseteq {"alert_correlation", "diagnostic", "hitl_gate", "report"}
    /\ MCPWired \in BOOLEAN /\ CanResume \in BOOLEAN

VARIABLES
    at,                    \* the node about to run, or "end"
    session,               \* requests submitted to the thread so far
    request_type, alerts,  \* the input: its type and number of alerts
    route, toolNamed,      \* triage's route; _direct_tool_name is set
    task_plan,             \* the tools of the diagnostic plan
    data_requirements,
    max_collection_rounds, collection_round,
    tool_calls,            \* per round that called tools: the tools called
    diagnosis,             \* confidence, and who concluded it
    remediation_plan,
    hitl_status,
    final_report,          \* the session whose report it is; 0 before any
    knowledge_entry,
    error_count,
    sunk,                  \* entries the knowledge sink has indexed
    isDev,                 \* settings.env is dev
    visited,               \* nodes run in this invocation (its checkpoints)
    injected               \* decisions the API layer has written to the thread

input    == <<session, request_type, alerts>>
triaged  == <<route, toolNamed>>
planned  == <<task_plan, data_requirements, max_collection_rounds>>
gathered == <<collection_round, tool_calls>>
verdict  == <<diagnosis, remediation_plan>>
output   == <<final_report, knowledge_entry, sunk>>
graphVars == <<at, input, triaged, planned, gathered, verdict, hitl_status, output,
               error_count, isDev, visited, injected>>

NoDiagnosis == [confidence |-> "none", by |-> "nobody"]
NoEntry     == [session |-> 0, confidence |-> "none", by |-> "nobody"]

HighRisk(plan) == plan \cap {"high", "critical"}

-----------------------------------------------------------------------------
(***************************************************************************)
(* router.py, on the state the node returned.                              *)
(***************************************************************************)
RouteFromTriage(r) ==
    CASE r = "direct_tool"       -> "direct_tool"
      [] r = "alert_correlation" -> "alert_correlation"
      [] OTHER                   -> "planning"

\* Faulty variant: the round limit ends the loop only when it is met exactly.
RouteFromDiagnostic_Exactly(round, confidence, needs, plan) ==
    IF round = max_collection_rounds THEN "report"
    ELSE IF confidence # "good" /\ needs # {} THEN "diagnostic"
    ELSE IF HighRisk(plan) # {} THEN "hitl_gate" ELSE "report"
RouteFromDiagnostic(round, confidence, needs, plan) ==
    IF round >= max_collection_rounds THEN "report"
    ELSE IF confidence # "good" /\ needs # {} THEN "diagnostic"
    ELSE IF HighRisk(plan) # {} THEN "hitl_gate" ELSE "report"

\* Faulty variant: whatever is not rejected goes on.
RouteFromHitl_NotRejected(status) == IF status # "rejected" THEN "remediation" ELSE "report"
\* Faulty variant: the gate is polled until somebody decides.
RouteFromHitl_Polls(status) ==
    CASE status = "approved" -> "remediation"
      [] status = "pending"  -> "hitl_gate"
      [] OTHER               -> "report"
RouteFromHitl(status) == IF status = "approved" THEN "remediation" ELSE "report"

\* BaseAgentNode.__call__ around a process() that returns.
Returns(node, next) ==
    /\ at = node
    /\ at' = next
    /\ visited' = visited \cup {node}
    /\ UNCHANGED <<input, error_count, isDev, injected>>

\* The same around one that raises: the error is counted, and the state goes on
\* with whatever process() had written.
Raises(node, next) ==
    /\ at = node
    /\ node \in MayRaise
    /\ error_count < MaxErrors
    /\ error_count' = error_count + 1
    /\ at' = next
    /\ visited' = visited \cup {node}
    /\ UNCHANGED <<input, isDev, injected>>

-----------------------------------------------------------------------------
(***************************************************************************)
(* Triage: the rule engine (user queries only), the LLM, or the fallback;  *)
(* the last two pass the corrections.                                      *)
(***************************************************************************)
\* Faulty variant: alert storms are left to the LLM.
Corrected_NoStorm(r) ==
    IF request_type = "alert" /\ r = "direct_tool" THEN "diagnosis" ELSE r
Corrected(r) ==
    LET storm == IF alerts >= 3 THEN "alert_correlation" ELSE r
    IN  IF request_type = "alert" /\ storm = "direct_tool" THEN "diagnosis" ELSE storm

TriageByRule ==
    /\ Returns("triage", RouteFromTriage("direct_tool"))
    /\ request_type = "user_query"
    /\ route' = "direct_tool"
    /\ toolNamed' = TRUE
    /\ UNCHANGED <<planned, gathered, verdict, hitl_status, output>>

TriageByLlm ==
    \E r \in {"direct_tool", "diagnosis", "alert_correlation"}, named \in BOOLEAN :
        /\ Returns("triage", RouteFromTriage(Corrected(r)))
        /\ route' = Corrected(r)
        /\ toolNamed' = (toolNamed \/ named)
        /\ UNCHANGED <<planned, gathered, verdict, hitl_status, output>>

\* Faulty variant: the fallback names the node instead of the route.
FallbackRoute_Node == "planning"
FallbackRoute == "diagnosis"

TriageFallback ==
    /\ Returns("triage", RouteFromTriage(Corrected(FallbackRoute)))
    /\ route' = Corrected(FallbackRoute)
    /\ UNCHANGED <<toolNamed, planned, gathered, verdict, hitl_status, output>>

\* The fast path: the tool's answer, its error or the missing name is the report.
\* Faulty variant: without a tool name there is no report.
DirectTool_Silent ==
    /\ Returns("direct_tool", "end")
    /\ final_report' = IF toolNamed THEN session ELSE final_report
    /\ UNCHANGED <<triaged, planned, gathered, verdict, hitl_status, knowledge_entry, sunk>>
DirectTool ==
    /\ Returns("direct_tool", "end")
    /\ final_report' = session
    /\ UNCHANGED <<triaged, planned, gathered, verdict, hitl_status, knowledge_entry, sunk>>

\* The alerts' texts and components are abstracted; a malformed alert raises.
AlertCorrelation ==
    /\ \/ Returns("alert_correlation", "planning")
       \/ alerts > 0 /\ Raises("alert_correlation", "planning")
    /\ UNCHANGED <<triaged, planned, gathered, verdict, hitl_status, output>>

-----------------------------------------------------------------------------
AtMost(n, m) == IF n < m THEN n ELSE m

PlanningByLlm ==
    \E tools, needs \in SUBSET Tool, estimate \in 1..MaxRounds :
        /\ Returns("planning", "diagnostic")
        /\ task_plan' = tools
        /\ data_requirements' = needs
        /\ max_collection_rounds' = AtMost(estimate + 1, MaxRounds)
        /\ UNCHANGED <<triaged, gathered, verdict, hitl_status, output>>

\* The generic plan by component; the number of rounds stays as it was.
PlanningFallback ==
    \E tools \in (SUBSET Tool) \ {{}} :
        /\ Returns("planning", "diagnostic")
        /\ task_plan' = tools
        /\ data_requirements' = tools
        /\ UNCHANGED <<triaged, max_collection_rounds, gathered, verdict, hitl_status, output>>

-----------------------------------------------------------------------------
(***************************************************************************)
(* One round of the diagnosis.  The round is counted first; then the tools *)
(* of the round run in parallel, each call entering the audit trail with   *)
(* its answer or its error text.                                           *)
(***************************************************************************)
ToolsOfRound(round) == IF round = 1 THEN task_plan ELSE data_requirements

NextRound == collection_round + 1

CollectRound(round) ==
    LET tools == ToolsOfRound(round)
    IN  /\ collection_round' = round
        /\ tool_calls' = IF tools = {} \/ ~MCPWired THEN tool_calls ELSE Append(tool_calls, tools)

\* What _analyze returns: an output of the LLM, or the fallback diagnosis.
DiagnosticOutput ==
    [confidence : Confidence, by : {"llm"}, plan : Plan, more : SUBSET Tool]

FallbackDiagnosis == [confidence |-> "low", by |-> "fallback", plan |-> {}, more |-> {}]

Diagnostic ==
    \E d \in DiagnosticOutput \cup {FallbackDiagnosis} :
        LET round == NextRound
            needs == IF d.confidence # "good" THEN d.more ELSE {}
        IN  /\ Returns("diagnostic", RouteFromDiagnostic(round, d.confidence, needs, d.plan))
            /\ CollectRound(round)
            /\ diagnosis' = [confidence |-> d.confidence, by |-> d.by]
            /\ remediation_plan' = d.plan
            /\ data_requirements' = needs
            /\ UNCHANGED <<triaged, task_plan, max_collection_rounds, hitl_status, output>>

\* An exception on the way leaves the previous diagnosis in place.
DiagnosticRaises ==
    LET round == NextRound
    IN  /\ Raises("diagnostic", RouteFromDiagnostic(round, diagnosis.confidence,
                                                    data_requirements, remediation_plan))
        /\ \/ CollectRound(round)
           \/ collection_round' = round /\ UNCHANGED tool_calls
        /\ UNCHANGED <<triaged, planned, verdict, hitl_status, output>>

-----------------------------------------------------------------------------
(***************************************************************************)
(* The gate node.  It creates a request per high-risk step and reads each  *)
(* back in the same call: auto_approved in dev, else still pending, as     *)
(* nobody can have answered in between.  A decision already in the state   *)
(* is taken as it is.                                                      *)
(***************************************************************************)
GateStatus ==
    IF HighRisk(remediation_plan) = {} THEN "approved"
    ELSE IF hitl_status \in {"approved", "rejected"} THEN hitl_status
    ELSE IF isDev THEN "approved" ELSE "pending"

HitlGate ==
    /\ \/ /\ Returns("hitl_gate", RouteFromHitl(GateStatus))
          /\ hitl_status' = GateStatus
       \/ /\ Raises("hitl_gate", RouteFromHitl(hitl_status))
          /\ UNCHANGED hitl_status
    /\ UNCHANGED <<triaged, planned, gathered, verdict, output>>

\* The graph builds this node without an mcp_client, and the diagnosis gives no
\* step a tool_name: every step ends as "suggested", which no other node reads.
Remediation ==
    /\ Returns("remediation", "report")
    /\ UNCHANGED <<triaged, planned, gathered, verdict, hitl_status, output>>

Report ==
    /\ \/ /\ Returns("report", "knowledge_sink")
          /\ final_report' = session
          /\ knowledge_entry' = [session |-> session, confidence |-> diagnosis.confidence,
                                 by |-> diagnosis.by]
       \/ /\ Raises("report", "knowledge_sink")
          /\ UNCHANGED <<final_report, knowledge_entry>>
    /\ UNCHANGED <<triaged, planned, gathered, verdict, hitl_status, sunk>>

\* Faulty variant: every entry is worth keeping.
Sinkable_Any(entry) == entry # NoEntry
Sinkable(entry) == entry # NoEntry /\ entry.confidence \in {"fair", "good"}

\* Indexing may fail or find the document unchanged; either is swallowed.
KnowledgeSink ==
    /\ Returns("knowledge_sink", "end")
    /\ \/ UNCHANGED sunk
       \/ Sinkable(knowledge_entry) /\ sunk' = sunk \cup {knowledge_entry}
    /\ UNCHANGED <<triaged, planned, gathered, verdict, hitl_status, final_report, knowledge_entry>>

-----------------------------------------------------------------------------
(***************************************************************************)
(* The callers.  A fresh request is the whole of create_initial_state: it  *)
(* resets the collection area and the error count and leaves the other     *)
(* fields of the thread alone.  A resumption writes a decision only.       *)
(***************************************************************************)
Requests == [type : {"user_query"}, alerts : {0}] \cup [type : {"alert"}, alerts : AlertCount]

Submit(req) ==
    /\ at = "end"
    /\ session < MaxSessions
    /\ at' = "triage"
    /\ session' = session + 1
    /\ request_type' = req.type
    /\ alerts' = req.alerts
    /\ collection_round' = 0
    /\ max_collection_rounds' = MaxRounds
    /\ tool_calls' = << >>
    /\ error_count' = 0
    /\ visited' = {}
    /\ UNCHANGED <<triaged, task_plan, data_requirements, verdict, hitl_status, output,
                   isDev, injected>>

Resume(decision) ==
    /\ CanResume
    /\ at = "end"
    /\ hitl_status = "pending"
    /\ at' = "triage"
    /\ hitl_status' = decision
    /\ injected' = injected \cup {decision}
    /\ visited' = {}
    /\ UNCHANGED <<input, triaged, planned, gathered, verdict, output, error_count, isDev>>

-----------------------------------------------------------------------------
\* A new thread, with its first request.
GraphInit ==
    /\ at = "triage"
    /\ session = 1
    /\ \E req \in Requests : request_type = req.type /\ alerts = req.alerts
    /\ route = "none"
    /\ toolNamed = FALSE
    /\ task_plan = {}
    /\ data_requirements = {}
    /\ max_collection_rounds = MaxRounds
    /\ collection_round = 0
    /\ tool_calls = << >>
    /\ diagnosis = NoDiagnosis
    /\ remediation_plan = {}
    /\ hitl_status = "none"
    /\ final_report = 0
    /\ knowledge_entry = NoEntry
    /\ error_count = 0
    /\ sunk = {}
    /\ isDev \in BOOLEAN
    /\ visited = {}
    /\ injected = {}

RunNode ==
    \/ TriageByRule
    \/ TriageByLlm
    \/ TriageFallback
    \/ DirectTool
    \/ AlertCorrelation
    \/ PlanningByLlm
    \/ PlanningFallback
    \/ Diagnostic
    \/ DiagnosticRaises
    \/ HitlGate
    \/ Remediation
    \/ Report
    \/ KnowledgeSink

GraphNext ==
    \/ RunNode
    \/ \E req \in Requests : Submit(req)
    \/ \E decision \in {"approved", "rejected"} : Resume(decision)

GraphSpec == GraphInit /\ [][GraphNext]_graphVars

\* LangGraph runs the next node of an invocation; callers need not call.
GraphLiveSpec == GraphSpec /\ WF_graphVars(RunNode)

-----------------------------------------------------------------------------
Entry == [session : 0..MaxSessions, confidence : Confidence \cup {"none"},
          by : {"nobody", "llm", "fallback"}]

GraphTypeOK ==
    /\ at \in Node \cup {"end"}
    /\ session \in Nat
    /\ request_type \in {"user_query", "alert"}
    /\ alerts \in Nat
    /\ route \in {"none", "direct_tool", "diagnosis", "alert_correlation"}
    /\ toolNamed \in BOOLEAN
    /\ task_plan \subseteq Tool
    /\ data_requirements \subseteq Tool
    /\ max_collection_rounds \in 1..MaxRounds
    /\ collection_round \in Nat
    /\ tool_calls \in Seq((SUBSET Tool) \ {{}})
    /\ diagnosis \in [confidence : Confidence \cup {"none"}, by : {"nobody", "llm", "fallback"}]
    /\ remediation_plan \subseteq RiskLevel
    /\ hitl_status \in {"none", "pending", "approved", "rejected"}
    /\ final_report \in 0..session
    /\ knowledge_entry \in Entry
    /\ error_count \in 0..MaxErrors
    /\ sunk \subseteq Entry
    /\ isDev \in BOOLEAN
    /\ visited \subseteq Node
    /\ injected \subseteq {"approved", "rejected"}

\* Outside dev nothing is remediated unless somebody approved on this thread,
\* and never after a rejection: not when the gate node raises, not when its
\* requests are open, not on a later request of the same thread.
RemediationNeedsPerson ==
    at = "remediation" /\ ~isDev => injected = {"approved"}

\* A request calls tools in at most MaxRounds rounds.  A resumption keeps the
\* counter, so it may start at the limit or, with a smaller plan, beyond it: it
\* gets one round more, however often rounds raise or ask for data, and whichever
\* request left the decision pending.
RoundsBounded ==
    /\ Len(tool_calls) <= collection_round
    /\ collection_round <= MaxRounds + (IF injected = {} THEN 0 ELSE 1)

\* An alert never takes the fast path, and an alert storm is correlated before
\* anything is planned for it, whatever the LLM routed and however it failed.
AlertsGetContext ==
    request_type = "alert" =>
        /\ at # "direct_tool"
        /\ alerts >= 3 /\ at \in {"planning", "diagnostic"} => "alert_correlation" \in visited

\* A request on which no node raised is answered with a report of its own, not
\* with one an earlier request left on the thread.
ReportIsOwn == at = "end" /\ error_count = 0 => final_report = session

\* What the knowledge base learns is a conclusion of the LLM with a confidence
\* of at least 0.5, never the fallback text; and what a request on which no node
\* raised offers is its own.  When the report raises, the entry an earlier
\* request left on the thread is offered again.
KnowledgeIsConcluded ==
    /\ \A e \in sunk : e.by = "llm" /\ e.confidence # "low"
    /\ at = "knowledge_sink" /\ error_count = 0 => knowledge_entry.session = session

\* What the gate's module says of a high-risk plan: the flow waits for a person
\* there, so no report goes out while its steps are undecided.
HighRiskAwaitsDecision ==
    at = "report" /\ HighRisk(remediation_plan) # {} => hitl_status \in {"approved", "rejected"}

\* Every invocation ends: the self-loop is left, whatever the LLM asks for.
InvocationEnds == at # "end" ~> at = "end"
=============================================================================
