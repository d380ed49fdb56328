-------------------------- MODULE ProviderFailover --------------------------
(* The circuit breakers of the LLM providers and the choice of the model a  *)
(* call is sent to (llm/router.py, llm/providers.py), under callers that    *)
(* ask for the available providers, call the first, report the outcome and  *)
(* go down the fallback chain.  ProviderManager is synchronous, so each of  *)
(* its operations is one step; the calls they serve overlap.                *)
EXTENDS Naturals, FiniteSets

CONSTANTS
    Providers,          \* the registered providers, of those in Priority
    LlmCalls,           \* the calls that may overlap
    Contexts,           \* the LLMCallContexts they are made with
    FailureThreshold,   \* failures in a row that open a closed circuit (5)
    RecoveryTimeout     \* ticks until an open circuit admits a probe (60 s)

\* DEFAULT_PROVIDERS: the lower number is asked first, one is local.
Priority == [deepseek |-> 0, openai |-> 1, anthropic |-> 2, local |-> 10]
Serves == [deepseek  |-> {"deepseek-chat", "deepseek-reasoner"},
           openai    |-> {"gpt-4o", "gpt-4o-mini"},
           anthropic |-> {"claude-3-5-sonnet"},
           local     |-> {"qwen2.5-72b"}]
IsLocal(p) == p = "local"

ASSUME FailoverAssumption ==
    /\ Providers \subseteq DOMAIN Priority
    /\ FailureThreshold \in Nat \ {0} /\ RecoveryTimeout \in Nat \ {0}

\* A provider together with one of its models.
At(p, m) == [provider |-> p, model |-> m]

Sensitivity == {"low", "medium", "high"}
Complexity == {"simple", "moderate", "complex"}
TaskType == {"triage", "planning", "diagnostic", "remediation", "report",
             "patrol", "alert_correlation"}

ASSUME ContextsAssumption ==
    Contexts \subseteq [task : TaskType, complexity : Complexity, sensitivity : Sensitivity]

\* ROUTING_TABLE: patterns of task, complexity and sensitivity; the first fits.
RoutingTable == <<
    <<"triage", "any", "any", At("deepseek", "deepseek-chat")>>,
    <<"diagnostic", "any", "low", At("openai", "gpt-4o")>>,
    <<"diagnostic", "any", "high", At("local", "qwen2.5-72b")>>,
    <<"planning", "simple", "low", At("openai", "gpt-4o-mini")>>,
    <<"planning", "complex", "low", At("openai", "gpt-4o")>>,
    <<"planning", "any", "high", At("local", "qwen2.5-72b")>>,
    <<"report", "any", "any", At("openai", "gpt-4o-mini")>>,
    <<"alert_correlation", "any", "any", At("openai", "gpt-4o")>>,
    <<"patrol", "any", "any", At("openai", "gpt-4o-mini")>>,
    <<"remediation", "any", "any", At("openai", "gpt-4o")>> >>
Fits(pattern, value) == pattern \in {"any", value}
Rows(ctx) == {i \in DOMAIN RoutingTable :
                 /\ Fits(RoutingTable[i][1], ctx.task)
                 /\ Fits(RoutingTable[i][2], ctx.complexity)
                 /\ Fits(RoutingTable[i][3], ctx.sensitivity)}
Route(ctx) == IF Rows(ctx) = {} THEN At("openai", "gpt-4o-mini")
              ELSE RoutingTable[CHOOSE i \in Rows(ctx) : \A j \in Rows(ctx) : i <= j][4]

\* model_tier: endpoints of one ability, in the order they replace each other.
Tiers == << <<At("openai", "gpt-4o"), At("anthropic", "claude-3-5-sonnet"), At("local", "qwen2.5-72b")>>,
            <<At("openai", "gpt-4o-mini"), At("deepseek", "deepseek-chat")>>,
            <<At("deepseek", "deepseek-chat"), At("openai", "gpt-4o-mini")>> >>
Members(t) == {Tiers[t][i] : i \in DOMAIN Tiers[t]}
\* Faulty: the endpoint is looked up by its provider alone.
TierOf_Provider(e) ==
    LET fits == {t \in DOMAIN Tiers : \E x \in Members(t) : x.provider = e.provider}
    IN IF fits = {} THEN 2 ELSE CHOOSE t \in fits : \A u \in fits : u <= t

\* An endpoint of several tiers is given the last of them, an unknown one the second.
TierOf(e) == LET fits == {t \in DOMAIN Tiers : e \in Members(t)}
             IN IF fits = {} THEN 2 ELSE CHOOSE t \in fits : \A u \in fits : u <= t

VARIABLES
    circuit,    \* the breaker of every provider
    llmCalls    \* what every call is doing

failoverVars == <<circuit, llmCalls>>

Circuit == [state : {"closed", "open", "half_open"},
            failures : 0..FailureThreshold,    \* failure_count, saturated
            cooling : 0..RecoveryTimeout]      \* ticks until a probe, when open

\* A call under way is at an endpoint; rest holds the positions, in the tier of
\* its first endpoint, of the replacements it has not tried.
Resting == [at |-> At("none", "none"), first |-> At("none", "none"), rest |-> {}]
Underway(c) == llmCalls[c] # Resting

----------------------------------------------------------------------------
(* CircuitBreakerState *)

\* Faulty: the success of a probe closes the circuit and keeps the old count.
RecordSuccess_KeepsCount(b) ==
    [state |-> IF b.state = "half_open" THEN "closed" ELSE b.state,
     failures |-> IF b.state = "half_open" THEN b.failures ELSE 0, cooling |-> b.cooling]

RecordSuccess(b) ==
    [state |-> IF b.state = "half_open" THEN "closed" ELSE b.state,
     failures |-> 0, cooling |-> b.cooling]

\* Also the failure of a call that was sent before the circuit opened counts
\* and starts the cooling anew.
RecordFailure(b) ==
    LET failures == IF b.failures < FailureThreshold THEN b.failures + 1 ELSE b.failures
        opens == b.state = "half_open" \/ (b.state = "closed" /\ failures >= FailureThreshold)
        state == IF opens THEN "open" ELSE b.state
    IN [state |-> state, failures |-> failures,
        cooling |-> IF state = "open" THEN RecoveryTimeout ELSE 0]

\* Faulty: the circuit is looked at and never turned.
Asked_Stays(b) == b

\* is_available answers, and turns an open circuit that has cooled into a
\* half-open one; a half-open one admits everybody who asks.
Asked(b) == IF b.state = "open" /\ b.cooling = 0 THEN [b EXCEPT !.state = "half_open"] ELSE b
Admits(b) == Asked(b).state # "open"
AskedOf(P) == [p \in Providers |-> IF p \in P THEN Asked(circuit[p]) ELSE circuit[p]]

----------------------------------------------------------------------------
(* ProviderManager and its callers *)

\* get_available_providers(model, sensitive) touches every breaker, then filters.
\* Its rate limit refuses nobody: the counts it compares are never incremented.
Offered(model, sensitive) ==
    {p \in Providers : Admits(circuit[p]) /\ (sensitive => IsLocal(p)) /\ model \in Serves[p]}
Preferred(P) == CHOOSE p \in P : \A q \in P : Priority[p] <= Priority[q]

Begin(c) ==
    /\ ~Underway(c)
    /\ circuit' = AskedOf(Providers)
    /\ \E ctx \in Contexts :
         LET model == Route(ctx).model
             offered == Offered(model, ctx.sensitivity = "high")
             chosen == At(Preferred(offered), model)
         IN llmCalls' = IF offered = {} THEN llmCalls
                        ELSE [llmCalls EXCEPT ![c] = [at |-> chosen, first |-> chosen, rest |-> {}]]

Succeed(c) ==
    /\ Underway(c)
    /\ LET p == llmCalls[c].at.provider
       IN circuit' = [circuit EXCEPT ![p] = RecordSuccess(@)]
    /\ llmCalls' = [llmCalls EXCEPT ![c] = Resting]

\* The call goes on at the first of a chain, or gives up when there is none.
GoesOn(c, chain) ==
    LET call == llmCalls[c]
        next == CHOOSE i \in chain : \A j \in chain : i <= j
    IN llmCalls' = [llmCalls EXCEPT ![c] =
         IF chain = {} THEN Resting
         ELSE [at |-> Tiers[TierOf(call.first)][next], first |-> call.first, rest |-> chain \ {next}]]

\* The tier of the failed endpoint without its provider and without those the
\* breakers refuse, in the order of the tier.
FallbackChain(e, breakers) ==
    LET tier == Tiers[TierOf(e)]
        Replaces(x) == x.provider # e.provider /\ x.provider \in Providers /\ Admits(breakers[x.provider])
    IN {i \in DOMAIN tier : Replaces(tier[i])}

\* The first attempt fails: the failure is recorded and the chain is asked for,
\* which touches the breakers of the tier.
FailFirst(c) ==
    /\ Underway(c) /\ llmCalls[c].at = llmCalls[c].first
    /\ LET e == llmCalls[c].at
           asked == {x.provider : x \in Members(TierOf(e))} \ {e.provider}
       IN /\ circuit' = [AskedOf(asked) EXCEPT ![e.provider] = RecordFailure(circuit[e.provider])]
          /\ GoesOn(c, FallbackChain(e, circuit))

\* A replacement fails too: the next one of the chain that was asked for is tried.
FailNext(c) ==
    /\ Underway(c) /\ llmCalls[c].at # llmCalls[c].first
    /\ LET p == llmCalls[c].at.provider
       IN circuit' = [circuit EXCEPT ![p] = RecordFailure(@)]
    /\ GoesOn(c, llmCalls[c].rest)

Cool ==
    /\ \E p \in Providers : circuit[p].cooling > 0
    /\ circuit' = [p \in Providers |->
                     [circuit[p] EXCEPT !.cooling = IF @ > 0 THEN @ - 1 ELSE 0]]
    /\ UNCHANGED llmCalls

FailoverInit ==
    /\ circuit = [p \in Providers |-> [state |-> "closed", failures |-> 0, cooling |-> 0]]
    /\ llmCalls = [c \in LlmCalls |-> Resting]

Ends(c) == Succeed(c) \/ FailFirst(c) \/ FailNext(c)
FailoverNext == Cool \/ \E c \in LlmCalls : Begin(c) \/ Ends(c)
FailoverSpec == FailoverInit /\ [][FailoverNext]_failoverVars

----------------------------------------------------------------------------
FailoverTypeOK ==
    /\ circuit \in [Providers -> Circuit]
    /\ \A c \in LlmCalls : Underway(c) => llmCalls[c].at.provider \in Providers

(* A closed circuit has seen fewer failures in a row than the threshold,     *)
(* however probes, late outcomes and cooling interleave: a provider that has *)
(* recovered is not cut off again by the failures of the time before         *)
(* (record_success resets the count, record_failure opens at the threshold). *)
ClosedBelowThreshold ==
    \A p \in Providers : circuit[p].state = "closed" => circuit[p].failures < FailureThreshold

(* A call that asked for a strong model is never answered by a model of a    *)
(* weaker tier, however many of its providers fail: "gpt-4o goes to          *)
(* claude-3-5-sonnet and not to gpt-4o-mini" (get_fallback_chain).           *)
ReasoningStaysStrong ==
    \A c \in LlmCalls : Underway(c) /\ llmCalls[c].first \in Members(1) => llmCalls[c].at \in Members(1)

(* An open circuit does not stay open: although the failures of calls sent   *)
(* earlier restart the cooling, callers that keep asking and a clock that    *)
(* goes on get a probe through (record_failure, is_available).               *)
OpenCircuitProbes ==
    \A p \in Providers : circuit[p].state = "open" ~> circuit[p].state # "open"

============================================================================
