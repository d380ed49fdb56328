---------------------------- MODULE OpsGraphProofs ----------------------------
(***************************************************************************)
(* The agent graph for every set of tools and plans, any number of rounds, *)
(* requests on a thread, resumptions and raising nodes.  GraphInv is its   *)
(* inductive invariant; each part of it is preserved by a lemma of its     *)
(* own, which uses the types and, where it must, the parts before it.      *)
(***************************************************************************)
EXTENDS OpsGraph, SequenceTheorems, TLAPS

\* GraphTypeOK, with the bound of sessions.
Typed ==
    /\ GraphTypeOK
    /\ session \in 1..MaxSessions

\* The gate is only asked about plans that need it, and remediation only follows
\* an approval on the thread.
GateGuards ==
    /\ at = "hitl_gate" => HighRisk(remediation_plan) # {}
    /\ at = "remediation" => hitl_status = "approved"

\* Outside dev the status is the one decision that was injected, if any: a thread
\* takes at most one, since it never becomes pending again, and in dev none.
StatusIsInjected ==
    IF isDev THEN hitl_status # "pending"
    ELSE      /\ hitl_status \in {"none", "pending"} => injected = {}
              /\ hitl_status \in {"approved", "rejected"} => injected = {hitl_status}

\* An invocation that still has a round before it is below the bound.
RoundsLeft ==
    /\ RoundsBounded
    /\ at \in {"triage", "alert_correlation", "planning", "diagnostic"}
       => collection_round < MaxRounds + (IF injected = {} THEN 0 ELSE 1)

\* A report that went out without an exception is the session's.
ReportReaches == at \in {"end", "knowledge_sink"} /\ error_count = 0 => final_report = session

\* The same of the entry that is about to be indexed.
EntryReaches == at = "knowledge_sink" /\ error_count = 0 => knowledge_entry.session = session

\* A confidence of at least 0.5 is the LLM's, in the diagnosis and in the entry.
Concluded ==
    /\ diagnosis.confidence \in {"fair", "good"} => diagnosis.by = "llm"
    /\ knowledge_entry.confidence \in {"fair", "good"} => knowledge_entry.by = "llm"
    /\ \A e \in sunk : e.by = "llm" /\ e.confidence # "low"

GraphInv ==
    /\ Typed
    /\ AlertsGetContext
    /\ GateGuards /\ StatusIsInjected
    /\ RoundsLeft
    /\ ReportReaches /\ EntryReaches
    /\ Concluded

-----------------------------------------------------------------------------
LEMMA RequestTyped ==
  ASSUME NEW req \in Requests
  PROVE  req.type \in {"user_query", "alert"} /\ req.alerts \in Nat
<1>1. CASE req \in [type : {"user_query"}, alerts : {0}]
  BY <1>1
<1>2. CASE req \in [type : {"alert"}, alerts : AlertCount]
  BY <1>2, GraphAssumption
<1>3. QED BY <1>1, <1>2 DEF Requests

\* A node that raises is counted, within the bound, and leaves what Returns leaves.
LEMMA RaisesTyped ==
  ASSUME Typed, NEW node, NEW next, Raises(node, next)
  PROVE  /\ error_count' \in 0..MaxErrors /\ error_count' # 0
         /\ at = node /\ at' = next /\ visited' = visited \cup {node} /\ visited' \subseteq Node
         /\ UNCHANGED <<session, request_type, alerts, isDev, injected>>
<1>1. error_count \in Nat /\ error_count < MaxErrors /\ error_count' = error_count + 1
  BY GraphAssumption DEF Typed, GraphTypeOK, Raises
<1>2. error_count' \in 0..MaxErrors /\ error_count' # 0
  BY <1>1, GraphAssumption
<1>3. node \in Node
  BY GraphAssumption DEF Raises, Node
<1>4. visited' = visited \cup {node} /\ visited \subseteq Node
  BY DEF Raises, Typed, GraphTypeOK
<1>5. QED BY <1>2, <1>3, <1>4 DEF Raises, input

LEMMA InitGraphInv == GraphInit => GraphInv
<1> SUFFICES ASSUME GraphInit PROVE GraphInv
  OBVIOUS
<1>1. PICK req \in Requests : request_type = req.type /\ alerts = req.alerts
  BY DEF GraphInit
<1>2. request_type \in {"user_query", "alert"} /\ alerts \in Nat
  BY <1>1, RequestTyped
<1>3. << >> \in Seq((SUBSET Tool) \ {{}}) /\ Len(<< >>) = 0
  BY EmptySeq
<1>4. Typed
  <2>1. NoEntry \in Entry /\ NoDiagnosis \in [confidence : Confidence \cup {"none"},
                                             by : {"nobody", "llm", "fallback"}]
    BY GraphAssumption DEF NoDiagnosis, NoEntry, Entry
  <2>3. /\ session \in 1..MaxSessions /\ final_report \in 0..session /\ error_count \in 0..MaxErrors
        /\ max_collection_rounds \in 1..MaxRounds
    BY GraphAssumption DEF GraphInit
  <2>4. QED
    BY <1>2, <1>3, <2>1, <2>3 DEF GraphInit, Typed, GraphTypeOK, Node
<1>5. RoundsLeft
  BY <1>3, GraphAssumption DEF GraphInit, RoundsLeft, RoundsBounded
<1>6. QED
  BY <1>4, <1>5 DEF GraphInit, GraphInv, AlertsGetContext, GateGuards, StatusIsInjected,
     ReportReaches, EntryReaches, Concluded, NoDiagnosis, NoEntry

-----------------------------------------------------------------------------
\* A round that calls tools is added to the audit trail, once.
LEMMA RoundTyped ==
  ASSUME Typed, NEW round \in Nat, CollectRound(round)
  PROVE  /\ tool_calls' \in Seq((SUBSET Tool) \ {{}})
         /\ Len(tool_calls') <= Len(tool_calls) + 1
<1>1. tool_calls \in Seq((SUBSET Tool) \ {{}}) /\ Len(tool_calls) \in Nat
  BY LenProperties DEF Typed, GraphTypeOK
<1>2. ToolsOfRound(round) \in SUBSET Tool
  BY DEF ToolsOfRound, Typed, GraphTypeOK
<1>3. CASE ToolsOfRound(round) = {} \/ ~MCPWired
  BY <1>1, <1>3 DEF CollectRound
<1>4. CASE ~(ToolsOfRound(round) = {} \/ ~MCPWired)
  <2>1. ToolsOfRound(round) \in (SUBSET Tool) \ {{}}
    BY <1>2, <1>4
  <2>2. tool_calls' = Append(tool_calls, ToolsOfRound(round))
    BY <1>4 DEF CollectRound
  <2>3. QED BY <1>1, <2>1, <2>2, AppendProperties
<1>5. QED BY <1>3, <1>4

LEMMA TypeStep == GraphInv /\ [GraphNext]_graphVars => Typed'
<1> SUFFICES ASSUME GraphInv, [GraphNext]_graphVars PROVE Typed'
  OBVIOUS
<1> USE GraphAssumption
<1>0. Typed
  BY DEF GraphInv
<1>1. CASE TriageByRule
  BY <1>0, <1>1
     DEF TriageByRule, Returns, RouteFromTriage, Typed, GraphTypeOK, Node,
         input, planned, gathered, verdict, output
<1>2. CASE TriageByLlm
  BY <1>0, <1>2
     DEF TriageByLlm, Returns, RouteFromTriage, Corrected, Typed, GraphTypeOK, Node,
         input, planned, gathered, verdict, output
<1>3. CASE TriageFallback
  BY <1>0, <1>3
     DEF TriageFallback, Returns, RouteFromTriage, Corrected, FallbackRoute, Typed, GraphTypeOK, Node,
         input, planned, gathered, verdict, output
<1>4. CASE DirectTool
  BY <1>0, <1>4
     DEF DirectTool, Returns, Typed, GraphTypeOK, Node,
         input, triaged, planned, gathered, verdict, output
<1>5. CASE AlertCorrelation
  <2>1. CASE Returns("alert_correlation", "planning")
    BY <1>0, <1>5, <2>1
       DEF AlertCorrelation, Returns, Typed, GraphTypeOK, Node,
           input, triaged, planned, gathered, verdict, output
  <2>2. CASE Raises("alert_correlation", "planning")
    <3>1. /\ error_count' \in 0..MaxErrors /\ at' = "planning" /\ visited' \subseteq Node
          /\ UNCHANGED <<session, request_type, alerts, isDev, injected>>
      BY <1>0, <2>2, RaisesTyped
    <3>2. QED
      BY <1>0, <1>5, <3>1 DEF AlertCorrelation, Typed, GraphTypeOK, Node, triaged, planned, gathered, verdict, output
  <2>3. QED BY <1>5, <2>1, <2>2 DEF AlertCorrelation
<1>6. CASE PlanningByLlm
  <2>1. PICK tools \in SUBSET Tool, needs \in SUBSET Tool, estimate \in 1..MaxRounds :
          /\ Returns("planning", "diagnostic")
          /\ task_plan' = tools
          /\ data_requirements' = needs
          /\ max_collection_rounds' = AtMost(estimate + 1, MaxRounds)
          /\ UNCHANGED <<triaged, gathered, verdict, hitl_status, output>>
    BY <1>6 DEF PlanningByLlm
  <2>2. AtMost(estimate + 1, MaxRounds) \in 1..MaxRounds
    BY DEF AtMost
  <2>3. QED
    BY <1>0, <2>1, <2>2
       DEF Returns, Typed, GraphTypeOK, Node, input, triaged, gathered, verdict, output
<1>7. CASE PlanningFallback
  BY <1>0, <1>7
     DEF PlanningFallback, Returns, Typed, GraphTypeOK, Node,
         input, triaged, gathered, verdict, output
<1>8. CASE Diagnostic
  <2>1. PICK d \in DiagnosticOutput \cup {FallbackDiagnosis} :
          LET round == NextRound
              needs == IF d.confidence # "good" THEN d.more ELSE {}
          IN  /\ Returns("diagnostic", RouteFromDiagnostic(round, d.confidence, needs, d.plan))
              /\ CollectRound(round)
              /\ diagnosis' = [confidence |-> d.confidence, by |-> d.by]
              /\ remediation_plan' = d.plan
              /\ data_requirements' = needs
              /\ UNCHANGED <<triaged, task_plan, max_collection_rounds, hitl_status, output>>
    BY <1>8 DEF Diagnostic
  <2>2. /\ d.confidence \in Confidence /\ d.by \in {"llm", "fallback"}
        /\ d.plan \subseteq RiskLevel /\ d.more \subseteq Tool
    BY DEF DiagnosticOutput, FallbackDiagnosis, Confidence
  <2>3. NextRound \in Nat
    BY <1>0 DEF NextRound, Typed, GraphTypeOK
  <2>4. tool_calls' \in Seq((SUBSET Tool) \ {{}}) /\ collection_round' = NextRound
    BY <1>0, <2>1, <2>3, RoundTyped DEF CollectRound
  <2>5. QED
    BY <1>0, <2>1, <2>2, <2>3, <2>4
       DEF Returns, RouteFromDiagnostic, Typed, GraphTypeOK, Node, input, triaged, output
<1>9. CASE DiagnosticRaises
  <2>1. NextRound \in Nat
    BY <1>0 DEF NextRound, Typed, GraphTypeOK
  <2>2. tool_calls' \in Seq((SUBSET Tool) \ {{}}) /\ collection_round' = NextRound
    BY <1>0, <1>9, <2>1, RoundTyped DEF DiagnosticRaises, CollectRound, Typed, GraphTypeOK
  <2>3. QED
    BY <1>0, <1>9, <2>1, <2>2
       DEF DiagnosticRaises, Raises, RouteFromDiagnostic, Typed, GraphTypeOK, Node,
           input, triaged, planned, verdict, output
<1>10. CASE HitlGate
  <2>1. GateStatus \in {"pending", "approved", "rejected"}
    BY DEF GateStatus
  <2>2. RouteFromHitl(GateStatus) \in Node /\ RouteFromHitl(hitl_status) \in Node
    BY DEF RouteFromHitl, Node
  <2>3. CASE Returns("hitl_gate", RouteFromHitl(GateStatus)) /\ hitl_status' = GateStatus
    BY <1>0, <1>10, <2>1, <2>2, <2>3
       DEF HitlGate, Returns, Typed, GraphTypeOK, Node,
           input, triaged, planned, gathered, verdict, output
  <2>4. CASE Raises("hitl_gate", RouteFromHitl(hitl_status)) /\ UNCHANGED hitl_status
    <3>1. /\ error_count' \in 0..MaxErrors /\ at' \in Node /\ visited' \subseteq Node
          /\ UNCHANGED <<session, request_type, alerts, isDev, injected>>
      BY <1>0, <2>2, <2>4, RaisesTyped
    <3>2. QED
      BY <1>0, <1>10, <2>4, <3>1 DEF HitlGate, Typed, GraphTypeOK, Node, triaged, planned, gathered, verdict, output
  <2>5. QED BY <1>10, <2>3, <2>4 DEF HitlGate
<1>11. CASE Remediation
  BY <1>0, <1>11
     DEF Remediation, Returns, Typed, GraphTypeOK, Node,
         input, triaged, planned, gathered, verdict, output
<1>12. CASE Report
  <2>1. [session |-> session, confidence |-> diagnosis.confidence, by |-> diagnosis.by] \in Entry
    BY <1>0 DEF Typed, GraphTypeOK, Entry
  <2>2. CASE Returns("report", "knowledge_sink")
    <3>1. final_report' \in 0..session /\ knowledge_entry' \in Entry
      BY <1>0, <1>12, <2>1 DEF Report, Typed, GraphTypeOK
    <3>2. QED
      BY <1>0, <1>12, <2>2, <3>1
         DEF Report, Returns, Typed, GraphTypeOK, Node, input, triaged, planned, gathered, verdict
  <2>3. CASE Raises("report", "knowledge_sink")
    <3>1. final_report' \in 0..session /\ knowledge_entry' \in Entry
      BY <1>0, <1>12, <2>1 DEF Report, Typed, GraphTypeOK
    <3>2. /\ error_count' \in 0..MaxErrors /\ at' = "knowledge_sink" /\ visited' \subseteq Node
          /\ UNCHANGED <<session, request_type, alerts, isDev, injected>>
      BY <1>0, <2>3, RaisesTyped
    <3>3. QED
      BY <1>0, <1>12, <3>1, <3>2 DEF Report, Typed, GraphTypeOK, Node, triaged, planned, gathered, verdict
  <2>4. QED BY <1>12, <2>2, <2>3 DEF Report
<1>13. CASE KnowledgeSink
  BY <1>0, <1>13
     DEF KnowledgeSink, Returns, Typed, GraphTypeOK, Node,
         input, triaged, planned, gathered, verdict
<1>14. ASSUME NEW req \in Requests, Submit(req) PROVE Typed'
  <2>1. req.type \in {"user_query", "alert"} /\ req.alerts \in Nat
    BY RequestTyped
  <2>2. << >> \in Seq((SUBSET Tool) \ {{}})
    BY EmptySeq
  <2>3. QED
    BY <1>0, <1>14, <2>1, <2>2 DEF Submit, Typed, GraphTypeOK, Node, triaged, verdict, output
<1>15. ASSUME NEW decision \in {"approved", "rejected"}, Resume(decision) PROVE Typed'
  BY <1>0, <1>15
     DEF Resume, Typed, GraphTypeOK, Node, input, triaged, planned, gathered, verdict, output
<1>16. CASE UNCHANGED graphVars
  BY <1>0, <1>16
     DEF graphVars, Typed, GraphTypeOK, input, triaged, planned, gathered, verdict, output
<1>17. QED
  BY <1>1, <1>2, <1>3, <1>4, <1>5, <1>6, <1>7, <1>8, <1>9, <1>10, <1>11, <1>12, <1>13, <1>14,
     <1>15, <1>16
     DEF GraphNext, RunNode

-----------------------------------------------------------------------------
\* Where the triage sends an alert.
LEMMA TriageCorrects ==
  ASSUME Typed, request_type = "alert", NEW r \in {"direct_tool", "diagnosis", "alert_correlation"}
  PROVE  LET next == RouteFromTriage(Corrected(r))
         IN  next \in {"alert_correlation", "planning"} /\ (alerts >= 3 => next = "alert_correlation")
BY DEF RouteFromTriage, Corrected

LEMMA AlertsStep == GraphInv /\ [GraphNext]_graphVars => AlertsGetContext'
<1> SUFFICES ASSUME GraphInv, [GraphNext]_graphVars PROVE AlertsGetContext'
  OBVIOUS
<1>1. Typed /\ AlertsGetContext
  BY DEF GraphInv
<1>2. CASE TriageByRule
  BY <1>2 DEF TriageByRule, Returns, input, AlertsGetContext
<1>3. CASE TriageByLlm \/ TriageFallback
  <2>1. /\ UNCHANGED <<request_type, alerts>>
        /\ \E r \in {"direct_tool", "diagnosis", "alert_correlation"} :
              at' = RouteFromTriage(Corrected(r))
    BY <1>3 DEF TriageByLlm, TriageFallback, FallbackRoute, Returns, input
  <2>2. QED BY <1>1, <2>1, TriageCorrects DEF AlertsGetContext
<1>4. CASE AlertCorrelation
  BY <1>4 DEF AlertCorrelation, Returns, Raises, AlertsGetContext
<1>5. CASE PlanningByLlm \/ PlanningFallback
  BY <1>1, <1>5 DEF PlanningByLlm, PlanningFallback, Returns, input, AlertsGetContext
<1>6. CASE Diagnostic \/ DiagnosticRaises
  <2>1. /\ UNCHANGED <<request_type, alerts>> /\ at = "diagnostic"
        /\ at' \in {"report", "diagnostic", "hitl_gate"} /\ visited \subseteq visited'
    BY <1>6 DEF Diagnostic, DiagnosticRaises, Returns, Raises, RouteFromDiagnostic, input
  <2>2. QED BY <1>1, <2>1 DEF AlertsGetContext
<1>7. CASE DirectTool \/ HitlGate \/ Remediation \/ Report \/ KnowledgeSink
  <2>1. at' \in {"end", "report", "remediation", "knowledge_sink"}
    BY <1>7 DEF DirectTool, HitlGate, Remediation, Report, KnowledgeSink, Returns, Raises, RouteFromHitl
  <2>2. QED BY <2>1 DEF AlertsGetContext
<1>8. CASE \/ \E req \in Requests : Submit(req)
           \/ \E decision \in {"approved", "rejected"} : Resume(decision)
  BY <1>8 DEF Submit, Resume, AlertsGetContext
<1>9. CASE UNCHANGED graphVars
  BY <1>1, <1>9 DEF graphVars, input, AlertsGetContext
<1>10. QED
  BY <1>2, <1>3, <1>4, <1>5, <1>6, <1>7, <1>8, <1>9 DEF GraphNext, RunNode

-----------------------------------------------------------------------------
LEMMA GateStep == GraphInv /\ [GraphNext]_graphVars => GateGuards' /\ StatusIsInjected'
<1> SUFFICES ASSUME GraphInv, [GraphNext]_graphVars PROVE GateGuards' /\ StatusIsInjected'
  OBVIOUS
<1>1. Typed /\ GateGuards /\ StatusIsInjected
  BY DEF GraphInv
<1>2. CASE TriageByRule \/ TriageByLlm \/ TriageFallback \/ DirectTool \/ AlertCorrelation
           \/ PlanningByLlm \/ PlanningFallback \/ Remediation \/ Report \/ KnowledgeSink
  <2>1. UNCHANGED <<hitl_status, isDev, injected>>
    BY <1>2 DEF TriageByRule, TriageByLlm, TriageFallback, DirectTool, AlertCorrelation, PlanningByLlm,
       PlanningFallback, Remediation, Report, KnowledgeSink, Returns, Raises
  <2>2. at' \notin {"hitl_gate", "remediation"}
    BY <1>2 DEF TriageByRule, TriageByLlm, TriageFallback, DirectTool, AlertCorrelation, PlanningByLlm,
       PlanningFallback, Remediation, Report, KnowledgeSink, Returns, Raises, RouteFromTriage
  <2>3. QED BY <1>1, <2>1, <2>2 DEF GateGuards, StatusIsInjected
<1>3. CASE Diagnostic
  <2>1. PICK d \in DiagnosticOutput \cup {FallbackDiagnosis} :
          /\ \E needs : Returns("diagnostic", RouteFromDiagnostic(NextRound, d.confidence, needs, d.plan))
          /\ remediation_plan' = d.plan
          /\ UNCHANGED hitl_status
    BY <1>3 DEF Diagnostic
  <2>2. /\ UNCHANGED <<hitl_status, isDev, injected>> /\ at' # "remediation"
        /\ at' = "hitl_gate" => HighRisk(remediation_plan') # {}
    BY <2>1 DEF Returns, RouteFromDiagnostic
  <2>3. QED BY <1>1, <2>2 DEF GateGuards, StatusIsInjected, HighRisk
<1>4. CASE DiagnosticRaises
  <2>1. /\ UNCHANGED <<hitl_status, isDev, injected, remediation_plan>> /\ at' # "remediation"
        /\ at' = "hitl_gate" => HighRisk(remediation_plan) # {}
    BY <1>4 DEF DiagnosticRaises, Raises, RouteFromDiagnostic, verdict
  <2>2. QED BY <1>1, <2>1 DEF GateGuards, StatusIsInjected, HighRisk
<1>5. CASE HitlGate
  <2>1. CASE Returns("hitl_gate", RouteFromHitl(GateStatus)) /\ hitl_status' = GateStatus
    <3>1. /\ at' \in {"remediation", "report"} /\ (at' = "remediation" => hitl_status' = "approved")
          /\ UNCHANGED <<isDev, injected>>
      BY <2>1 DEF Returns, RouteFromHitl
    <3>2. HighRisk(remediation_plan) # {}
      BY <1>1, <2>1 DEF Returns, GateGuards
    <3>3. IF isDev THEN hitl_status' # "pending"
          ELSE \/ hitl_status' = hitl_status /\ hitl_status \in {"approved", "rejected"}
               \/ hitl_status \in {"none", "pending"} /\ hitl_status' = "pending"
      BY <1>1, <2>1, <3>2 DEF GateStatus, Typed, GraphTypeOK
    <3>4. QED BY <1>1, <3>1, <3>3 DEF GateGuards, StatusIsInjected
  <2>2. CASE Raises("hitl_gate", RouteFromHitl(hitl_status)) /\ UNCHANGED hitl_status
    <3>1. /\ at' \in {"remediation", "report"} /\ (at' = "remediation" => hitl_status' = "approved")
          /\ UNCHANGED <<isDev, injected, hitl_status>>
      BY <2>2 DEF Raises, RouteFromHitl
    <3>2. QED BY <1>1, <3>1 DEF GateGuards, StatusIsInjected
  <2>3. QED BY <1>5, <2>1, <2>2 DEF HitlGate
<1>6. ASSUME NEW req \in Requests, Submit(req) PROVE GateGuards' /\ StatusIsInjected'
  BY <1>1, <1>6 DEF Submit, GateGuards, StatusIsInjected
<1>7. ASSUME NEW decision \in {"approved", "rejected"}, Resume(decision)
      PROVE  GateGuards' /\ StatusIsInjected'
  BY <1>1, <1>7 DEF Resume, GateGuards, StatusIsInjected
<1>8. CASE UNCHANGED graphVars
  BY <1>1, <1>8 DEF graphVars, verdict, GateGuards, StatusIsInjected, HighRisk
<1>9. QED
  BY <1>2, <1>3, <1>4, <1>5, <1>6, <1>7, <1>8 DEF GraphNext, RunNode

-----------------------------------------------------------------------------
LEMMA ReportStep == GraphInv /\ [GraphNext]_graphVars => ReportReaches'
<1> SUFFICES ASSUME GraphInv, [GraphNext]_graphVars PROVE ReportReaches'
  OBVIOUS
<1>1. Typed /\ ReportReaches
  BY DEF GraphInv
<1>2. CASE DirectTool
  BY <1>2 DEF DirectTool, Returns, input, ReportReaches
<1>3. CASE Report
  <2>1. CASE Raises("report", "knowledge_sink")
    BY <1>1, <2>1, RaisesTyped DEF ReportReaches
  <2>2. CASE Returns("report", "knowledge_sink") /\ final_report' = session
    BY <2>2 DEF Returns, input, ReportReaches
  <2>3. QED BY <1>3, <2>1, <2>2 DEF Report
<1>4. CASE KnowledgeSink
  BY <1>1, <1>4 DEF KnowledgeSink, Returns, input, ReportReaches
<1>5. CASE Diagnostic \/ DiagnosticRaises \/ HitlGate
  <2>1. at' \in {"report", "diagnostic", "hitl_gate", "remediation"}
    BY <1>5 DEF Diagnostic, DiagnosticRaises, HitlGate, Returns, Raises, RouteFromDiagnostic, RouteFromHitl
  <2>2. QED BY <2>1 DEF ReportReaches
<1>6. CASE TriageByRule \/ TriageByLlm \/ TriageFallback \/ AlertCorrelation \/ PlanningByLlm
           \/ PlanningFallback \/ Remediation
           \/ (\E req \in Requests : Submit(req))
           \/ \E decision \in {"approved", "rejected"} : Resume(decision)
  <2>1. at' \notin {"end", "knowledge_sink"}
    BY <1>6 DEF TriageByRule, TriageByLlm, TriageFallback, AlertCorrelation, PlanningByLlm,
       PlanningFallback, Remediation, Submit, Resume, Returns, Raises, RouteFromTriage
  <2>2. QED BY <2>1 DEF ReportReaches
<1>7. CASE UNCHANGED graphVars
  BY <1>1, <1>7 DEF graphVars, input, output, ReportReaches
<1>8. QED
  BY <1>2, <1>3, <1>4, <1>5, <1>6, <1>7 DEF GraphNext, RunNode

\* A loop is taken below the limit, and a resumption, the one its thread admits,
\* raises the bound.
LEMMA RoundsStep == GraphInv /\ [GraphNext]_graphVars => RoundsLeft'
<1> SUFFICES ASSUME GraphInv, [GraphNext]_graphVars PROVE RoundsLeft'
  OBVIOUS
<1> USE GraphAssumption
<1>1. /\ Typed /\ RoundsLeft /\ StatusIsInjected
      /\ collection_round \in Nat /\ max_collection_rounds \in 1..MaxRounds
      /\ tool_calls \in Seq((SUBSET Tool) \ {{}}) /\ Len(tool_calls) \in Nat
  BY LenProperties DEF GraphInv, Typed, GraphTypeOK
<1>2. CASE TriageByRule \/ TriageByLlm \/ TriageFallback \/ AlertCorrelation \/ PlanningByLlm
           \/ PlanningFallback
  <2>1. /\ at \in {"triage", "alert_correlation", "planning"}
        /\ UNCHANGED <<collection_round, tool_calls, injected>>
    BY <1>2 DEF TriageByRule, TriageByLlm, TriageFallback, AlertCorrelation, PlanningByLlm,
       PlanningFallback, Returns, Raises, gathered
  <2>2. QED BY <1>1, <2>1 DEF RoundsLeft, RoundsBounded
<1>3. CASE DirectTool \/ HitlGate \/ Remediation \/ Report \/ KnowledgeSink
  <2>1. /\ at' \in {"end", "report", "remediation", "knowledge_sink"}
        /\ UNCHANGED <<collection_round, tool_calls, injected>>
    BY <1>3 DEF DirectTool, HitlGate, Remediation, Report, KnowledgeSink, Returns, Raises,
       RouteFromHitl, gathered
  <2>2. QED BY <1>1, <2>1 DEF RoundsLeft, RoundsBounded
<1>4. CASE Diagnostic \/ DiagnosticRaises
  <2>1. /\ at = "diagnostic" /\ UNCHANGED injected /\ collection_round' = collection_round + 1
        /\ at' \in {"report", "diagnostic", "hitl_gate"}
        /\ at' = "diagnostic" => ~(collection_round + 1 >= max_collection_rounds)
    BY <1>4 DEF Diagnostic, DiagnosticRaises, Returns, Raises, RouteFromDiagnostic, CollectRound, NextRound
  <2>2. CollectRound(NextRound) \/ UNCHANGED tool_calls
    BY <1>4 DEF Diagnostic, DiagnosticRaises
  <2>3. NextRound \in Nat
    BY <1>1 DEF NextRound
  <2>4. Len(tool_calls') \in Nat /\ Len(tool_calls') <= Len(tool_calls) + 1
    <3>1. CASE CollectRound(NextRound)
      BY <1>1, <2>3, <3>1, RoundTyped, LenProperties
    <3>2. CASE UNCHANGED tool_calls
      BY <1>1, <3>2
    <3>3. QED BY <2>2, <3>1, <3>2
  <2>5. QED BY <1>1, <2>1, <2>4 DEF RoundsLeft, RoundsBounded
<1>5. ASSUME NEW req \in Requests, Submit(req) PROVE RoundsLeft'
  <2>1. Len(tool_calls') = 0 /\ collection_round' = 0
    BY <1>5, EmptySeq DEF Submit
  <2>2. QED BY <2>1 DEF RoundsLeft, RoundsBounded
<1>6. ASSUME NEW decision \in {"approved", "rejected"}, Resume(decision) PROVE RoundsLeft'
  <2>1. injected = {} /\ injected' # {} /\ UNCHANGED <<collection_round, tool_calls>>
    BY <1>1, <1>6 DEF Resume, StatusIsInjected, gathered
  <2>2. QED BY <1>1, <2>1 DEF RoundsLeft, RoundsBounded
<1>7. CASE UNCHANGED graphVars
  BY <1>1, <1>7 DEF graphVars, gathered, RoundsLeft, RoundsBounded
<1>8. QED
  BY <1>2, <1>3, <1>4, <1>5, <1>6, <1>7 DEF GraphNext, RunNode

LEMMA EntryStep == GraphInv /\ [GraphNext]_graphVars => EntryReaches'
<1> SUFFICES ASSUME GraphInv, [GraphNext]_graphVars PROVE EntryReaches'
  OBVIOUS
<1>1. Typed /\ EntryReaches
  BY DEF GraphInv
<1>2. CASE Report
  <2>1. CASE Raises("report", "knowledge_sink")
    BY <1>1, <2>1, RaisesTyped DEF EntryReaches
  <2>2. CASE /\ Returns("report", "knowledge_sink")
             /\ knowledge_entry' = [session |-> session, confidence |-> diagnosis.confidence,
                                    by |-> diagnosis.by]
    BY <2>2 DEF Returns, input, EntryReaches
  <2>3. QED BY <1>2, <2>1, <2>2 DEF Report
<1>3. CASE UNCHANGED graphVars
  BY <1>1, <1>3 DEF graphVars, input, output, EntryReaches
<1>4. CASE ~Report /\ GraphNext
  <2>1. at' # "knowledge_sink"
    BY <1>4 DEF GraphNext, RunNode, TriageByRule, TriageByLlm, TriageFallback, DirectTool, AlertCorrelation,
       PlanningByLlm, PlanningFallback, Diagnostic, DiagnosticRaises, HitlGate, Remediation, KnowledgeSink,
       Submit, Resume, Returns, Raises, RouteFromTriage, RouteFromDiagnostic, RouteFromHitl
  <2>2. QED BY <2>1 DEF EntryReaches
<1>5. QED BY <1>2, <1>3, <1>4

LEMMA ConcludedStep == GraphInv /\ [GraphNext]_graphVars => Concluded'
<1> SUFFICES ASSUME GraphInv, [GraphNext]_graphVars PROVE Concluded'
  OBVIOUS
<1>1. Typed /\ Concluded
  BY DEF GraphInv
<1>2. CASE Diagnostic
  <2>1. PICK d \in DiagnosticOutput \cup {FallbackDiagnosis} :
          diagnosis' = [confidence |-> d.confidence, by |-> d.by]
    BY <1>2 DEF Diagnostic
  <2>2. d.confidence \in {"fair", "good"} => d.by = "llm"
    BY DEF DiagnosticOutput, FallbackDiagnosis
  <2>3. UNCHANGED <<knowledge_entry, sunk>>
    BY <1>2 DEF Diagnostic, output
  <2>4. QED BY <1>1, <2>1, <2>2, <2>3 DEF Concluded
<1>3. CASE Report
  BY <1>1, <1>3 DEF Report, verdict, Concluded
<1>4. CASE KnowledgeSink
  <2>1. UNCHANGED <<diagnosis, knowledge_entry>>
    BY <1>4 DEF KnowledgeSink, verdict
  <2>2. \/ sunk' = sunk
        \/ knowledge_entry.confidence \in {"fair", "good"} /\ sunk' = sunk \cup {knowledge_entry}
    BY <1>4 DEF KnowledgeSink, Sinkable
  <2>3. QED BY <1>1, <2>1, <2>2 DEF Concluded
<1>5. CASE UNCHANGED <<diagnosis, knowledge_entry, sunk>>
  BY <1>1, <1>5 DEF Concluded
<1>6. QED
  BY <1>2, <1>3, <1>4, <1>5
     DEF GraphNext, RunNode, TriageByRule, TriageByLlm, TriageFallback, DirectTool, AlertCorrelation,
         PlanningByLlm, PlanningFallback, DiagnosticRaises, HitlGate, Remediation, Submit, Resume,
         graphVars, verdict, output

-----------------------------------------------------------------------------
LEMMA GraphInvariant == GraphSpec => []GraphInv
<1>1. GraphInv /\ [GraphNext]_graphVars => GraphInv'
  BY TypeStep, AlertsStep, GateStep, RoundsStep, ReportStep, EntryStep, ConcludedStep DEF GraphInv
<1>2. QED BY <1>1, InitGraphInv, PTL DEF GraphSpec

\* Every field of AgentState keeps to the values the nodes, the router and the
\* callers write: no round, route or report outside what state.py declares.
THEOREM GraphTypeSafe == GraphSpec => []GraphTypeOK
<1>1. GraphInv => GraphTypeOK
  BY DEF GraphInv, Typed
<1>2. QED BY <1>1, GraphInvariant, PTL

\* A request calls tools in at most MaxRounds rounds, and in one more on a thread
\* that was resumed, whichever rounds raise, ask for data or are replanned
\* (diagnostic.py's counter, router.py's limit and create_initial_state).
THEOREM RoundsStayBounded == GraphSpec => []RoundsBounded
<1>1. GraphInv => RoundsBounded
  BY DEF GraphInv, RoundsLeft
<1>2. QED BY <1>1, GraphInvariant, PTL

\* No alert takes the fast path, and an alert storm is correlated before it is
\* planned for, whatever the LLM routes (triage.py's corrections).
THEOREM AlertContext == GraphSpec => []AlertsGetContext
<1>1. GraphInv => AlertsGetContext
  BY DEF GraphInv
<1>2. QED BY <1>1, GraphInvariant, PTL

\* Outside dev a plan is carried out only after somebody approved on its thread
\* and nobody rejected, over any number of requests, resumptions and exceptions
\* of the gate node.
THEOREM PersonBeforeRemediation == GraphSpec => []RemediationNeedsPerson
<1>1. GraphInv => RemediationNeedsPerson
  BY DEF GraphInv, GateGuards, StatusIsInjected, RemediationNeedsPerson
<1>2. QED BY <1>1, GraphInvariant, PTL

\* An invocation on which no node raised ends with the report of its own request
\* and not one left on the thread.
THEOREM OwnReport == GraphSpec => []ReportIsOwn
<1>1. GraphInv => ReportIsOwn
  BY DEF GraphInv, ReportReaches, ReportIsOwn
<1>2. QED BY <1>1, GraphInvariant, PTL

\* Only conclusions of the LLM with a confidence of at least 0.5 are indexed, also
\* past nodes that raise and leave a diagnosis or an entry in place; and a request
\* on which no node raised offers its own conclusion.  An entry of an earlier
\* request may be offered again when the report raises: that is not excluded.
THEOREM ConcludedKnowledge == GraphSpec => []KnowledgeIsConcluded
<1>1. GraphInv => KnowledgeIsConcluded
  BY DEF GraphInv, Concluded, EntryReaches, KnowledgeIsConcluded
<1>2. QED BY <1>1, GraphInvariant, PTL
=============================================================================
