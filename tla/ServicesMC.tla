----------------------------- MODULE ServicesMC -----------------------------
(* The services of one process that callers share and that hold no state in *)
(* common: provider failover, token budgets and tool access.                *)
(* A behaviour exercises the one service picked at its start, so the states *)
(* to check are the sum of the services' and not their product.             *)
EXTENDS ProviderFailover, TokenBudget, ToolAccess

VARIABLE service
servicesVars == <<service, failoverVars, budgetVars, accessVars>>

MCProviders == {"deepseek", "openai", "anthropic", "local"}
MCContexts == {[task |-> "diagnostic", complexity |-> "moderate", sensitivity |-> "low"],
               [task |-> "planning", complexity |-> "simple", sensitivity |-> "high"]}

MCTaskPerCall == [report |-> 1, planning |-> 0]
MCTaskPerSession == [report |-> 3, planning |-> 0]

MCBuiltin == [ops_clear_cache |-> [component |-> "ops", risk |-> "low"],
              query_metrics |-> [component |-> "metrics", risk |-> "none"]]
MCPrefixOf == [ops_clear_cache |-> "ops", query_metrics |-> "metrics",
               hdfs_restart |-> "hdfs", node_update |-> "unknown"]
MCWordsOf == [ops_clear_cache |-> {"clear"}, query_metrics |-> {},
              hdfs_restart |-> {"restart"}, node_update |-> {"update"}]
Person(role, components, active) == [role |-> role, components |-> components, active |-> active]
MCDefaultUsers == [agent |-> Person(RoleOf.engineer, {"hdfs"}, TRUE)]
MCConfigs == {Person(RoleOf.engineer, {"ops"}, TRUE), Person(RoleOf.admin, {"hdfs"}, TRUE),
              Person(RoleOf.operator, {}, TRUE), Person(RoleOf.engineer, {}, FALSE)}

ServicesInit ==
    /\ service \in {"failover", "budget", "access"}
    /\ FailoverInit /\ BudgetInit /\ AccessInit
    /\ useRedis => service = "access"

FailoverStep(A) ==
    service = "failover" /\ A /\ UNCHANGED <<service, budgetVars, accessVars>>

ServicesNext ==
    \/ FailoverStep(FailoverNext)
    \/ service = "budget" /\ BudgetNext /\ UNCHANGED <<service, failoverVars, accessVars>>
    \/ service = "access" /\ AccessNext /\ UNCHANGED <<service, failoverVars, budgetVars>>

\* Callers keep asking, calls end by their timeout, the clock goes on.
ServicesFairness ==
    /\ WF_servicesVars(FailoverStep(Cool))
    /\ \A c \in LlmCalls : WF_servicesVars(FailoverStep(Begin(c)))
    /\ \A c \in LlmCalls : WF_servicesVars(FailoverStep(Ends(c)))

ServicesSpec == ServicesInit /\ [][ServicesNext]_servicesVars /\ ServicesFairness
=============================================================================
