------------------------------ MODULE LlmProofs -----------------------------
(* The services an LLM call passes through, each for any instance of its     *)
(* constants: provider failover, token budgets and the answer cache.          *)
EXTENDS ProviderFailover, TokenBudget, SemanticCache,
        FiniteSetTheorems, WellFoundedInduction, TLAPS

\* Every set of numbers that is not empty has a least one.
LEMMA LeastNatural ==
    ASSUME NEW T \in SUBSET Nat, T # {} PROVE \E n \in T : \A m \in T : n <= m
<1> DEFINE Less == {ss \in Nat \X Nat : ss[1] < ss[2]}
<1>1. Less = OpToRel(<, Nat)
  BY Zenon DEF OpToRel
<1>2. IsWellFoundedOn(Less, Nat)
  BY <1>1, NatLessThanWellFounded
<1>3. PICK n \in T : \A m \in T : <<m, n>> \notin Less
  <2> HIDE DEF Less
  <2> QED BY <1>2, WFMin
<1>4. \A m \in T : n <= m
  <2> SUFFICES ASSUME NEW m \in T, m < n PROVE FALSE
    OBVIOUS
  <2>1. <<m, n>> \in Less
    OBVIOUS
  <2>2. QED BY <1>3, <2>1
<1>5. QED BY <1>4

----------------------------------------------------------------------------
(* The circuit breakers of the providers, for any providers, callers,        *)
(* contexts, threshold and recovery time.  ClosedBelowThreshold is made       *)
(* inductive by the type of the breakers; it does not depend on what the      *)
(* calls under way are doing.                                                 *)
\* A well typed breaker that is closed only below the threshold.
Sound == {b \in Circuit : b.state = "closed" => b.failures < FailureThreshold}
BreakersSound == circuit \in [Providers -> Sound]

LEMMA SuccessKeepsSound == ASSUME NEW b \in Sound PROVE RecordSuccess(b) \in Sound
<1>1. /\ b.state \in {"closed", "open", "half_open"} /\ b.cooling \in 0..RecoveryTimeout
  BY DEF Sound, Circuit
<1>2. QED
  BY <1>1, FailoverAssumption DEF RecordSuccess, Sound, Circuit

LEMMA FailureKeepsSound == ASSUME NEW b \in Sound PROVE RecordFailure(b) \in Sound
<1>1. /\ b.state \in {"closed", "open", "half_open"} /\ b.failures \in 0..FailureThreshold
      /\ b.state = "closed" => b.failures < FailureThreshold
  BY DEF Sound, Circuit
<1> DEFINE failures == IF b.failures < FailureThreshold THEN b.failures + 1 ELSE b.failures
           opens == b.state = "half_open" \/ (b.state = "closed" /\ failures >= FailureThreshold)
           state == IF opens THEN "open" ELSE b.state
           r == RecordFailure(b)
<1>2. /\ r = [state |-> state, failures |-> failures,
              cooling |-> IF state = "open" THEN RecoveryTimeout ELSE 0]
  BY DEF RecordFailure
<1>3. failures \in 0..FailureThreshold /\ state \in {"closed", "open", "half_open"}
  BY <1>1, FailoverAssumption
<1>4. state = "closed" => failures < FailureThreshold
  BY <1>1, <1>3, FailoverAssumption
<1>5. QED
  BY <1>2, <1>3, <1>4, FailoverAssumption DEF Sound, Circuit

LEMMA AskedKeepsSound == ASSUME NEW b \in Sound PROVE Asked(b) \in Sound
<1>1. CASE b.state = "open" /\ b.cooling = 0
  <2>1. b = [state |-> b.state, failures |-> b.failures, cooling |-> b.cooling]
        /\ b.failures \in 0..FailureThreshold /\ b.cooling \in 0..RecoveryTimeout
    BY DEF Sound, Circuit
  <2>2. Asked(b) = [state |-> "half_open", failures |-> b.failures, cooling |-> b.cooling]
    BY <1>1, <2>1 DEF Asked
  <2>3. QED BY <2>1, <2>2 DEF Sound, Circuit
<1>2. CASE ~(b.state = "open" /\ b.cooling = 0)
  BY <1>2 DEF Asked
<1>3. QED BY <1>1, <1>2

LEMMA AskedOfKeepsSound == ASSUME BreakersSound, NEW P PROVE AskedOf(P) \in [Providers -> Sound]
  BY AskedKeepsSound DEF BreakersSound, AskedOf

LEMMA InitSound == FailoverInit => BreakersSound
  BY FailoverAssumption DEF FailoverInit, BreakersSound, Sound, Circuit

LEMMA StepSound == BreakersSound /\ [FailoverNext]_failoverVars => BreakersSound'
<1> SUFFICES ASSUME BreakersSound, [FailoverNext]_failoverVars PROVE BreakersSound'
  OBVIOUS
<1>1. ASSUME NEW c \in LlmCalls, Begin(c) PROVE BreakersSound'
  BY <1>1, AskedOfKeepsSound DEF Begin, BreakersSound
<1>2. ASSUME NEW c \in LlmCalls, Succeed(c) PROVE BreakersSound'
  BY <1>2, SuccessKeepsSound DEF Succeed, BreakersSound
<1>3. ASSUME NEW c \in LlmCalls, FailFirst(c) PROVE BreakersSound'
  <2> DEFINE p == llmCalls[c].at.provider
  <2>1. PICK P : circuit' = [AskedOf(P) EXCEPT ![p] = RecordFailure(circuit[p])]
    BY <1>3 DEF FailFirst
  <2>2. AskedOf(P) \in [Providers -> Sound] /\ \A q \in Providers : RecordFailure(circuit[q]) \in Sound
    BY AskedOfKeepsSound, FailureKeepsSound DEF BreakersSound
  <2> HIDE DEF p
  <2>3. QED BY <2>1, <2>2 DEF BreakersSound
<1>4. ASSUME NEW c \in LlmCalls, FailNext(c) PROVE BreakersSound'
  BY <1>4, FailureKeepsSound DEF FailNext, BreakersSound
<1>5. CASE Cool
  <2>1. ASSUME NEW p \in Providers
        PROVE  [circuit[p] EXCEPT !.cooling = IF @ > 0 THEN @ - 1 ELSE 0] \in Sound
    <3> DEFINE b == circuit[p]
    <3>1. /\ b = [state |-> b.state, failures |-> b.failures, cooling |-> b.cooling]
          /\ b.state \in {"closed", "open", "half_open"} /\ b.failures \in 0..FailureThreshold
          /\ b.cooling \in 0..RecoveryTimeout /\ (b.state = "closed" => b.failures < FailureThreshold)
      BY DEF BreakersSound, Sound, Circuit
    <3> HIDE DEF b
    <3>2. (IF b.cooling > 0 THEN b.cooling - 1 ELSE 0) \in 0..RecoveryTimeout
      BY <3>1, FailoverAssumption
    <3>3. [b EXCEPT !.cooling = IF @ > 0 THEN @ - 1 ELSE 0] \in Sound
      BY <3>1, <3>2 DEF Sound, Circuit
    <3>4. QED BY <3>3 DEF b
  <2>2. QED BY <1>5, <2>1 DEF Cool, BreakersSound
<1>6. CASE UNCHANGED failoverVars
  BY <1>6 DEF failoverVars, BreakersSound
<1>7. QED
  BY <1>1, <1>2, <1>3, <1>4, <1>5, <1>6 DEF FailoverNext, Ends

(* However outcomes, probes and cooling interleave, a closed circuit has     *)
(* seen fewer failures in a row than the threshold (CircuitBreakerState).    *)
THEOREM ClosedStaysBelow == FailoverSpec => []ClosedBelowThreshold
<1>1. BreakersSound => ClosedBelowThreshold
  BY DEF BreakersSound, Sound, ClosedBelowThreshold
<1>2. QED
  BY InitSound, StepSound, <1>1, PTL DEF FailoverSpec

\* The chain a call of a strong model may still go down is one of that tier, and
\* so is where it is: what makes ReasoningStaysStrong inductive.  A call is
\* written as the record of its fields, which is all of its type the proof needs.
StaysInTier(call) ==
    /\ call = [at |-> call.at, first |-> call.first, rest |-> call.rest]
    /\ call.first \in Members(1) => call.at \in Members(1) /\ call.rest \subseteq DOMAIN Tiers[1]
CallsStayInTier ==
    /\ llmCalls = [c \in LlmCalls |-> llmCalls[c]]
    /\ \A c \in LlmCalls : StaysInTier(llmCalls[c])

\* An endpoint of the strong tier is of no other.
LEMMA StrongTier == ASSUME NEW e \in Members(1) PROVE TierOf(e) = 1
<1>1. DOMAIN Tiers = 1..3 /\ DOMAIN Tiers[1] = 1..3 /\ DOMAIN Tiers[2] = 1..2 /\ DOMAIN Tiers[3] = 1..2
  BY DEF Tiers
<1>2. e \in {At("openai", "gpt-4o"), At("anthropic", "claude-3-5-sonnet"), At("local", "qwen2.5-72b")}
  BY <1>1 DEF Members, Tiers
<1>3. /\ \A i \in 1..2 : Tiers[2][i] \in {At("openai", "gpt-4o-mini"), At("deepseek", "deepseek-chat")}
      /\ \A i \in 1..2 : Tiers[3][i] \in {At("openai", "gpt-4o-mini"), At("deepseek", "deepseek-chat")}
  BY DEF Tiers
<1>4. e \notin Members(2) /\ e \notin Members(3)
  BY <1>1, <1>2, <1>3 DEF Members, At
<1>5. {t \in DOMAIN Tiers : e \in Members(t)} = {1}
  BY <1>1, <1>4
<1>6. QED BY <1>5 DEF TierOf

\* Going down a chain of the strong tier stays in it.
LEMMA GoesOnInTier ==
  ASSUME CallsStayInTier, NEW c \in LlmCalls, NEW chain, GoesOn(c, chain),
         llmCalls[c].first \in Members(1) => chain \subseteq DOMAIN Tiers[1]
  PROVE  CallsStayInTier'
<1> DEFINE call == llmCalls[c]
           next == CHOOSE i \in chain : \A j \in chain : i <= j
           goes == [at |-> Tiers[TierOf(call.first)][next], first |-> call.first, rest |-> chain \ {next}]
<1>1. llmCalls' = [llmCalls EXCEPT ![c] = IF chain = {} THEN Resting ELSE goes]
  BY DEF GoesOn
<1>2. StaysInTier(Resting)
  BY DEF Resting, StaysInTier, Members, Tiers, At
<1>3. ASSUME chain # {} PROVE StaysInTier(goes)
  <2>1. goes.first = call.first /\ goes.rest = chain \ {next} /\ goes.at = Tiers[TierOf(call.first)][next]
    OBVIOUS
  <2>2. ASSUME call.first \in Members(1) PROVE next \in chain
    <3>1. chain \in SUBSET Nat
      BY <2>2 DEF Tiers
    <3>2. \E i \in chain : \A j \in chain : i <= j
      BY <1>3, <3>1, LeastNatural
    <3> HIDE DEF goes, call
    <3>3. QED BY <3>2
  <2> HIDE DEF next
  <2>3. goes.first \in Members(1) => goes.at \in Members(1) /\ goes.rest \subseteq DOMAIN Tiers[1]
    BY <2>1, <2>2, StrongTier DEF Members
  <2>4. QED BY <2>1, <2>3 DEF StaysInTier
<1> HIDE DEF goes
<1>4. QED BY <1>1, <1>2, <1>3 DEF CallsStayInTier

LEMMA StepInTier == CallsStayInTier /\ [FailoverNext]_failoverVars => CallsStayInTier'
<1> SUFFICES ASSUME CallsStayInTier, [FailoverNext]_failoverVars PROVE CallsStayInTier'
  OBVIOUS
<1>1. ASSUME NEW c \in LlmCalls, Begin(c) PROVE CallsStayInTier'
  <2>1. PICK chosen : \/ llmCalls' = llmCalls
                      \/ llmCalls' = [llmCalls EXCEPT ![c] = [at |-> chosen, first |-> chosen, rest |-> {}]]
    BY <1>1 DEF Begin
  <2>2. StaysInTier([at |-> chosen, first |-> chosen, rest |-> {}])
    BY DEF StaysInTier
  <2>3. QED BY <2>1, <2>2 DEF CallsStayInTier
<1>2. ASSUME NEW c \in LlmCalls, Succeed(c) PROVE CallsStayInTier'
  <2>1. StaysInTier(Resting)
    BY DEF Resting, StaysInTier, Members, Tiers, At
  <2>2. QED BY <1>2, <2>1 DEF Succeed, CallsStayInTier
<1>3. ASSUME NEW c \in LlmCalls, FailFirst(c) PROVE CallsStayInTier'
  <2> DEFINE chain == FallbackChain(llmCalls[c].at, circuit)
  <2>1. GoesOn(c, chain) /\ llmCalls[c].at = llmCalls[c].first
    BY <1>3 DEF FailFirst
  <2>2. chain \subseteq DOMAIN Tiers[TierOf(llmCalls[c].at)]
    BY DEF FallbackChain
  <2> HIDE DEF chain
  <2>3. llmCalls[c].first \in Members(1) => chain \subseteq DOMAIN Tiers[1]
    BY <2>1, <2>2, StrongTier
  <2>4. QED BY <2>1, <2>3, GoesOnInTier
<1>4. ASSUME NEW c \in LlmCalls, FailNext(c) PROVE CallsStayInTier'
  <2>1. GoesOn(c, llmCalls[c].rest)
    BY <1>4 DEF FailNext
  <2>2. llmCalls[c].first \in Members(1) => llmCalls[c].rest \subseteq DOMAIN Tiers[1]
    BY DEF CallsStayInTier, StaysInTier
  <2>3. QED BY <2>1, <2>2, GoesOnInTier
<1>5. CASE UNCHANGED llmCalls
  BY <1>5 DEF CallsStayInTier
<1>6. QED
  BY <1>1, <1>2, <1>3, <1>4, <1>5 DEF FailoverNext, Ends, Cool, failoverVars

(* A call that asked for a strong model ends at one, however many providers  *)
(* fail or are cut off while it goes down its chain (get_fallback_chain).     *)
THEOREM StrongStaysStrong == FailoverSpec => []ReasoningStaysStrong
<1>1. FailoverInit => CallsStayInTier
  BY DEF FailoverInit, CallsStayInTier, StaysInTier, Resting, Members, Tiers, At
<1>2. CallsStayInTier => ReasoningStaysStrong
  BY DEF CallsStayInTier, StaysInTier, ReasoningStaysStrong
<1>3. QED
  BY <1>1, <1>2, StepInTier, PTL DEF FailoverSpec

----------------------------------------------------------------------------
(* The token budgets, for any sessions, tasks, limits and callers.           *)
(* OverspendBounded is not inductive: it does not say that the calls under   *)
(* way still fit.  AdmittedWithinBudget counts them in: what a session has    *)
(* used, with the most the calls admitted for it may still use, stays below   *)
(* the bound, because a call is admitted only while something is left.        *)
Whole == BudgetTypeOK /\ AdmittedWithinBudget

LEMMA TimesMonotone ==
    ASSUME NEW m \in Nat, NEW a \in Nat, NEW b \in Nat, a <= b PROVE m * a <= m * b
  OBVIOUS

LEMMA TimesPred ==
    ASSUME NEW m \in Nat, NEW a \in Nat \ {0} PROVE m * a = m * (a - 1) + m
  OBVIOUS

\* The callers of a session are some of the callers.
LEMMA AskersCounted ==
    ASSUME NEW s PROVE /\ IsFiniteSet(AskersOf(s)) /\ Cardinality(AskersOf(s)) \in Nat
                       /\ Cardinality(Askers) \in Nat
                       /\ MaxTokens * Cardinality(AskersOf(s)) \in Nat
                       /\ MaxTokens * Cardinality(Askers) \in Nat
                       /\ MaxTokens * Cardinality(AskersOf(s)) <= MaxTokens * Cardinality(Askers)
<1>1. AskersOf(s) \in SUBSET Askers
  BY DEF AskersOf
<1>2. IsFiniteSet(Askers)
  BY BudgetAssumption
<1>3. IsFiniteSet(AskersOf(s)) /\ Cardinality(AskersOf(s)) <= Cardinality(Askers)
  BY <1>1, <1>2, FS_Subset
<1>4. Cardinality(AskersOf(s)) \in Nat /\ Cardinality(Askers) \in Nat
  BY <1>2, <1>3, FS_CardinalityType
<1>5. MaxTokens \in Nat
  BY BudgetAssumption
<1>6. MaxTokens * Cardinality(AskersOf(s)) \in Nat /\ MaxTokens * Cardinality(Askers) \in Nat
  BY <1>4, <1>5
<1>7. QED BY <1>3, <1>4, <1>5, <1>6, TimesMonotone

LEMMA UsedTyped == ASSUME Whole, NEW r \in Sessions PROVE used[r] \in Nat
  BY DEF Whole, BudgetTypeOK

\* As long as a session has something left its callers may be as many as there are.
LEMMA SomethingLeft ==
    ASSUME NEW s, NEW n \in Nat, n < SessionBudget
    PROVE  n + MaxTokens * Cardinality(AskersOf(s)) < SessionBudget + MaxTokens * Cardinality(Askers)
<1>1. MaxTokens * Cardinality(AskersOf(s)) \in Nat /\ MaxTokens * Cardinality(Askers) \in Nat
  BY AskersCounted, BudgetAssumption
<1>2. QED BY <1>1, AskersCounted, BudgetAssumption

\* The same for the callers after a step.
LEMMA SomethingLeftNext ==
    ASSUME NEW s, NEW n \in Nat, n < SessionBudget
    PROVE  n + MaxTokens * Cardinality(AskersOf(s)') < SessionBudget + MaxTokens * Cardinality(Askers)
<1>1. AskersOf(s)' \in SUBSET Askers
  BY DEF AskersOf
<1>2. IsFiniteSet(Askers)
  BY BudgetAssumption
<1>3. IsFiniteSet(AskersOf(s)') /\ Cardinality(AskersOf(s)') <= Cardinality(Askers)
  BY <1>1, <1>2, FS_Subset
<1>4. Cardinality(AskersOf(s)') \in Nat /\ Cardinality(Askers) \in Nat
  BY <1>2, <1>3, FS_CardinalityType
<1>5. MaxTokens * Cardinality(AskersOf(s)') <= MaxTokens * Cardinality(Askers)
  BY <1>3, <1>4, TimesMonotone, BudgetAssumption
<1>6. MaxTokens * Cardinality(AskersOf(s)') \in Nat /\ MaxTokens * Cardinality(Askers) \in Nat
  BY <1>4, BudgetAssumption
<1>7. QED BY <1>5, <1>6, BudgetAssumption

\* A caller that comes back makes room for one call of the session it asked for.
LEMMA CallerLeaves ==
    ASSUME BudgetTypeOK, NEW a \in Askers, Asking(a), asker' = [asker EXCEPT ![a] = NotAsking],
           NEW s \in Sessions
    PROVE  MaxTokens * Cardinality(AskersOf(s)') =
              MaxTokens * Cardinality(AskersOf(s)) - (IF asker[a].session = s THEN MaxTokens ELSE 0)
<1>1. AskersOf(s)' = AskersOf(s) \ {a} /\ (a \in AskersOf(s) <=> asker[a].session = s)
  BY BudgetAssumption DEF BudgetTypeOK, AskersOf, NotAsking
<1>2. IsFiniteSet(AskersOf(s)) /\ Cardinality(AskersOf(s)) \in Nat
  BY AskersCounted
<1>3. CASE asker[a].session = s
  <2>1. Cardinality(AskersOf(s)') = Cardinality(AskersOf(s)) - 1
    BY <1>1, <1>2, <1>3, FS_RemoveElement
  <2>2. Cardinality(AskersOf(s)) # 0
    BY <1>1, <1>2, <1>3, FS_EmptySet
  <2>3. QED BY <1>2, <1>3, <2>1, <2>2, TimesPred, BudgetAssumption
<1>4. CASE asker[a].session # s
  <2>1. AskersOf(s)' = AskersOf(s)
    BY <1>1, <1>4
  <2>2. QED BY <1>2, <1>4, <2>1, BudgetAssumption
<1>5. QED BY <1>3, <1>4

LEMMA InitWhole == BudgetInit => Whole
<1> SUFFICES ASSUME BudgetInit PROVE Whole
  OBVIOUS
<1>1. BudgetTypeOK
  BY DEF BudgetInit, BudgetTypeOK, Fresh
<1>2. ASSUME NEW s \in Sessions
      PROVE  used[s] + MaxTokens * Cardinality(AskersOf(s)) < SessionBudget + MaxTokens * Cardinality(Askers)
  <2>1. used[s] = 0
    BY DEF BudgetInit
  <2>2. QED BY <2>1, SomethingLeft, BudgetAssumption
<1>3. QED BY <1>1, <1>2 DEF Whole, AdmittedWithinBudget

LEMMA CheckWhole == ASSUME Whole, NEW a \in Askers, Check(a) PROVE Whole'
<1>1. PICK s \in Sessions, t \in Tasks, estimate \in Amounts :
        asker' = IF CheckBudget(s, t, estimate) = "reject" THEN asker
                 ELSE [asker EXCEPT ![a] = [session |-> s, task |-> t,
                                            action |-> CheckBudget(s, t, estimate)]]
  BY DEF Check
<1>2. used' = used /\ taskUsed' = taskUsed
  BY DEF Check
<1>3. used[s] \in Nat /\ estimate \in Nat \ {0}
  BY BudgetAssumption DEF Whole, BudgetTypeOK, Amounts
<1>4. CheckBudget(s, t, estimate) # "reject" => used[s] < SessionBudget
  BY <1>3, BudgetAssumption DEF CheckBudget, Remaining
<1>5. CheckBudget(s, t, estimate) \in Action
  BY DEF CheckBudget, Action
<1>6. BudgetTypeOK'
  BY <1>1, <1>2, <1>5 DEF Whole, BudgetTypeOK
<1>7. ASSUME NEW r \in Sessions
      PROVE  used[r] + MaxTokens * Cardinality(AskersOf(r)') < SessionBudget + MaxTokens * Cardinality(Askers)
  <2>1. CASE CheckBudget(s, t, estimate) # "reject" /\ r = s
    BY <1>3, <1>4, <2>1, SomethingLeftNext
  <2>2. CASE CheckBudget(s, t, estimate) = "reject"
    <3>1. AskersOf(r)' = AskersOf(r)
      BY <1>1, <2>2 DEF AskersOf
    <3>2. QED BY <3>1 DEF Whole, AdmittedWithinBudget
  <2>3. CASE CheckBudget(s, t, estimate) # "reject" /\ r # s
    <3>1. AskersOf(r)' = AskersOf(r)
      BY <1>1, <2>3, BudgetAssumption DEF Check, Asking, NotAsking, Whole, BudgetTypeOK, AskersOf
    <3>2. QED BY <3>1 DEF Whole, AdmittedWithinBudget
  <2>4. QED BY <2>1, <2>2, <2>3
<1>8. QED BY <1>2, <1>6, <1>7 DEF Whole, AdmittedWithinBudget

LEMMA ConsumeWhole == ASSUME Whole, NEW a \in Askers, Consume(a) PROVE Whole'
<1> DEFINE s == asker[a].session
           t == asker[a].task
<1>1. PICK actual \in Amounts : /\ used' = [used EXCEPT ![s] = @ + actual]
                                /\ taskUsed' = [taskUsed EXCEPT ![s][t] = @ + actual]
  BY DEF Consume
<1>2. asker' = [asker EXCEPT ![a] = NotAsking] /\ Asking(a)
  BY DEF Consume
<1>3. actual \in Nat /\ actual <= MaxTokens /\ MaxTokens \in Nat
  BY BudgetAssumption DEF Amounts
<1>4. s \in Sessions /\ t \in Tasks
  BY <1>2 DEF Whole, BudgetTypeOK, Asking
<1> HIDE DEF s, t
<1>5. BudgetTypeOK'
  <2>1. used' \in [Sessions -> Nat]
    BY <1>1, <1>3, <1>4 DEF Whole, BudgetTypeOK
  <2>2. taskUsed' \in [Sessions -> [Tasks -> Nat]]
    <3>1. taskUsed' = [taskUsed EXCEPT ![s] = [taskUsed[s] EXCEPT ![t] = @ + actual]]
      BY <1>1
    <3>2. [taskUsed[s] EXCEPT ![t] = @ + actual] \in [Tasks -> Nat]
      BY <1>3, <1>4 DEF Whole, BudgetTypeOK
    <3>3. QED BY <3>1, <3>2 DEF Whole, BudgetTypeOK
  <2>3. QED BY <1>2, <2>1, <2>2 DEF Whole, BudgetTypeOK
<1>6. ASSUME NEW r \in Sessions
      PROVE  used'[r] + MaxTokens * Cardinality(AskersOf(r)') < SessionBudget + MaxTokens * Cardinality(Askers)
  <2>1. MaxTokens * Cardinality(AskersOf(r)') =
           MaxTokens * Cardinality(AskersOf(r)) - (IF s = r THEN MaxTokens ELSE 0)
    BY <1>2, CallerLeaves DEF Whole, s
  <2>2. used'[r] = IF r = s THEN used[r] + actual ELSE used[r]
    BY <1>1, <1>4 DEF Whole, BudgetTypeOK
  <2>3. used[r] \in Nat /\ MaxTokens * Cardinality(AskersOf(r)) \in Nat /\ MaxTokens * Cardinality(Askers) \in Nat
    BY AskersCounted, UsedTyped
  <2>4. used[r] + MaxTokens * Cardinality(AskersOf(r)) < SessionBudget + MaxTokens * Cardinality(Askers)
    BY DEF Whole, AdmittedWithinBudget
  <2>5. QED BY <1>3, <2>1, <2>2, <2>3, <2>4, BudgetAssumption
<1>7. QED BY <1>5, <1>6 DEF Whole, AdmittedWithinBudget

LEMMA CallFailsWhole == ASSUME Whole, NEW a \in Askers, CallFails(a) PROVE Whole'
<1>1. asker' = [asker EXCEPT ![a] = NotAsking] /\ Asking(a) /\ used' = used /\ taskUsed' = taskUsed
  BY DEF CallFails
<1>2. BudgetTypeOK'
  BY <1>1 DEF Whole, BudgetTypeOK
<1>3. ASSUME NEW r \in Sessions
      PROVE  used'[r] + MaxTokens * Cardinality(AskersOf(r)') < SessionBudget + MaxTokens * Cardinality(Askers)
  <2>1. MaxTokens * Cardinality(AskersOf(r)') =
           MaxTokens * Cardinality(AskersOf(r)) - (IF asker[a].session = r THEN MaxTokens ELSE 0)
    BY <1>1, CallerLeaves DEF Whole
  <2>2. used[r] \in Nat /\ MaxTokens * Cardinality(AskersOf(r)) \in Nat /\ MaxTokens * Cardinality(Askers) \in Nat
    BY AskersCounted, UsedTyped
  <2>3. used[r] + MaxTokens * Cardinality(AskersOf(r)) < SessionBudget + MaxTokens * Cardinality(Askers)
    BY DEF Whole, AdmittedWithinBudget
  <2>4. QED BY <1>1, <2>1, <2>2, <2>3, BudgetAssumption
<1>4. QED BY <1>2, <1>3 DEF Whole, AdmittedWithinBudget

LEMMA ResetWhole == ASSUME Whole, NEW s \in Sessions, ResetSession(s) PROVE Whole'
<1>1. BudgetTypeOK'
  BY DEF ResetSession, Whole, BudgetTypeOK, Fresh
<1>2. ASSUME NEW r \in Sessions
      PROVE  used'[r] + MaxTokens * Cardinality(AskersOf(r)') < SessionBudget + MaxTokens * Cardinality(Askers)
  <2>1. AskersOf(r)' = AskersOf(r)
    BY DEF ResetSession, AskersOf
  <2>2. CASE r = s
    <3>1. used'[r] = 0
      BY <2>2 DEF ResetSession, Whole, BudgetTypeOK
    <3>2. QED BY <2>1, <3>1, SomethingLeft, BudgetAssumption
  <2>3. CASE r # s
    BY <2>1, <2>3 DEF ResetSession, Whole, BudgetTypeOK, AdmittedWithinBudget
  <2>4. QED BY <2>2, <2>3
<1>3. QED BY <1>1, <1>2 DEF Whole, AdmittedWithinBudget

LEMMA StepWhole == Whole /\ [BudgetNext]_budgetVars => Whole'
<1> SUFFICES ASSUME Whole, [BudgetNext]_budgetVars PROVE Whole'
  OBVIOUS
<1>1. CASE UNCHANGED budgetVars
  BY <1>1 DEF budgetVars, Whole, BudgetTypeOK, AdmittedWithinBudget, AskersOf
<1>2. QED
  BY <1>1, CheckWhole, ConsumeWhole, CallFailsWhole, ResetWhole DEF BudgetNext

(* Whatever calls overlap and whatever they use, a session overspends by     *)
(* less than one full call per caller (check_budget, consume).               *)
THEOREM OverspendStaysBounded == BudgetSpec => []OverspendBounded
<1>1. Whole => OverspendBounded
  <2> SUFFICES ASSUME Whole, NEW s \in Sessions
               PROVE  used[s] < SessionBudget + MaxTokens * Cardinality(Askers)
    BY DEF OverspendBounded
  <2>1. MaxTokens * Cardinality(AskersOf(s)) \in Nat /\ MaxTokens * Cardinality(Askers) \in Nat
        /\ used[s] \in Nat
    BY AskersCounted, UsedTyped
  <2>2. QED BY <2>1, BudgetAssumption DEF Whole, AdmittedWithinBudget
<1>2. QED
  BY InitWhole, StepWhole, <1>1, PTL DEF BudgetSpec

(* The budgets are well typed.                                               *)
THEOREM BudgetTypes == BudgetSpec => []BudgetTypeOK
  BY InitWhole, StepWhole, PTL DEF BudgetSpec, Whole

----------------------------------------------------------------------------
(* The answer cache, for any queries, TTLs, similarities and capacity.       *)
(* OwnAnswerNewest speaks of what a lookup finds, and says nothing of the     *)
(* entries it passes over.  ListedIsCovered does: an older entry of a query   *)
(* that is still listed and still valid is hidden by the newest one in the    *)
(* dictionary, or that has expired, which by their creation times only a      *)
(* shorter TTL can have done.  That needs the creation times to be past.      *)
EntryRecord == [query : Queries, ttl : Ttls, created : 0..MaxTime, hits : 0..MaxHits]
CreatedBefore == \A v \in 1..puts : entry[v].created <= now
Covered == CacheTypeOK /\ CreatedBefore /\ ListedIsCovered

\* What the list answers is listed, valid and, if it is there at all, a number.
LEMMA ListAnswers ==
    ASSUME CacheTypeOK, NEW q \in Queries
    PROVE  SearchL2(q) = None \/ (SearchL2(q) \in l2 /\ ~IsExpired(SearchL2(q)))
<1> DEFINE rank(v) == Closeness[q][entry[v].query]
           near == {v \in l2 : ~IsExpired(v) /\ rank(v) > 0}
           best == {v \in near : \A w \in near : rank(w) <= rank(v)}
           B == Cardinality(Queries)
<1>1. B \in Nat
  BY CacheAssumption, FS_CardinalityType
<1>2. \A v \in l2 : v \in Nat /\ v \in Entries /\ rank(v) \in 0..B
  BY CacheAssumption DEF CacheTypeOK, Entries
<1>3. SearchL2(q) = IF near = {} THEN None ELSE CHOOSE v \in best : \A w \in best : v <= w
  BY DEF SearchL2
<1>4. ASSUME near # {} PROVE best # {}
  <2> DEFINE T == {B - rank(v) : v \in near}
  <2>1. T \in SUBSET Nat /\ T # {}
    <3> HIDE DEF rank, B
    <3> QED BY <1>1, <1>2, <1>4
  <2>2. PICK n \in T : \A m \in T : n <= m
    <3> HIDE DEF T
    <3> QED BY <2>1, LeastNatural
  <2>3. PICK v \in near : n = B - rank(v)
    OBVIOUS
  <2>4. \A w \in near : rank(w) <= rank(v)
    <3> HIDE DEF rank, B
    <3> QED BY <1>1, <1>2, <2>2, <2>3
  <2>5. QED BY <2>3, <2>4
<1>5. ASSUME best # {} PROVE \E v \in best : \A w \in best : v <= w
  <2>1. best \in SUBSET Nat
    BY <1>2
  <2> HIDE DEF best
  <2>2. QED BY <1>5, <2>1, LeastNatural
<1>6. CASE near = {}
  BY <1>3, <1>6
<1>7. CASE near # {}
  <2>1. SearchL2(q) \in best
    <3> HIDE DEF near, best
    <3> QED BY <1>3, <1>4, <1>5, <1>7
  <2>2. QED BY <2>1
<1>8. QED BY <1>6, <1>7

\* The numbers the dictionary, the list and newest hold are those of entries.
LEMMA NumbersTyped ==
    ASSUME CacheTypeOK
    PROVE  /\ puts \in Nat /\ puts <= MaxPuts /\ now \in Nat /\ MaxPuts \in Nat
           /\ \A v \in 1..puts : v \in Entries /\ v \in Nat
           /\ \A v \in Entries : /\ entry[v].query \in Queries /\ entry[v].created \in Nat
                                 /\ entry[v].ttl \in Nat /\ entry[v].hits \in Nat
           /\ \A q \in Queries : /\ l1[q] # None => l1[q] \in 1..puts
                                 /\ newest[q] \in 0..puts
                                 /\ newest[q] # None => newest[q] \in 1..puts /\ newest[q] \in Entries
<1>1. puts \in Nat /\ puts <= MaxPuts /\ now \in Nat /\ MaxPuts \in Nat
  BY CacheAssumption DEF CacheTypeOK
<1>2. \A v \in 1..puts : v \in Entries /\ v \in Nat
  BY <1>1 DEF Entries
<1>3. \A v \in Entries : /\ entry[v].query \in Queries /\ entry[v].created \in Nat
                        /\ entry[v].ttl \in Nat /\ entry[v].hits \in Nat
  <2> SUFFICES ASSUME NEW v \in Entries
               PROVE  /\ entry[v].query \in Queries /\ entry[v].created \in Nat
                      /\ entry[v].ttl \in Nat /\ entry[v].hits \in Nat
    OBVIOUS
  <2>1. entry[v] \in [query : Queries, ttl : Ttls, created : 0..MaxTime, hits : 0..MaxHits]
    BY DEF CacheTypeOK
  <2>2. /\ entry[v].query \in Queries /\ entry[v].ttl \in Ttls
        /\ entry[v].created \in 0..MaxTime /\ entry[v].hits \in 0..MaxHits
    BY <2>1
  <2>3. entry[v].ttl \in Nat
    BY <2>2, CacheAssumption
  <2>4. entry[v].created \in Nat /\ entry[v].hits \in Nat
    BY <2>2, CacheAssumption
  <2>5. QED BY <2>2, <2>3, <2>4
<1>4. \A q \in Queries : l1[q] \in 0..puts /\ newest[q] \in 0..puts
  BY DEF CacheTypeOK
<1>5. \A q \in Queries : l1[q] # None => l1[q] \in 1..puts
  BY <1>1, <1>4 DEF None
<1>6. \A q \in Queries : newest[q] # None => newest[q] \in 1..puts
  BY <1>1, <1>4 DEF None
<1>7. QED BY <1>1, <1>2, <1>3, <1>4, <1>5, <1>6

\* Of two entries, the one no older that still lives longer has the longer TTL.
LEMMA OlderLivesLonger ==
    ASSUME CacheTypeOK, NEW v \in Entries, NEW n \in Entries, entry[v].created <= entry[n].created,
           IsExpired(n), ~IsExpired(v)
    PROVE  entry[v].ttl > entry[n].ttl
<1>1. /\ entry[v].created \in Nat /\ entry[n].created \in Nat
      /\ entry[v].ttl \in Nat /\ entry[n].ttl \in Nat /\ now \in Nat
  BY NumbersTyped
<1>2. QED BY <1>1 DEF IsExpired

\* Covered entries make what a lookup finds the newest, or an older one that
\* outlives it.
LEMMA CoveredIsNewest == Covered => OwnAnswerNewest
<1> SUFFICES ASSUME Covered, NEW q \in Queries, Answer(q) # None, entry[Answer(q)].query = q
             PROVE  /\ newest[q] # None
                    /\ \/ Answer(q) = newest[q]
                       \/ IsExpired(newest[q]) /\ entry[Answer(q)].ttl > entry[newest[q]].ttl
  BY DEF OwnAnswerNewest
<1>1. CASE l1[q] # None /\ ~IsExpired(l1[q])
  BY <1>1 DEF Answer, Covered, ListedIsCovered
<1>2. CASE ~(l1[q] # None /\ ~IsExpired(l1[q]))
  <2> DEFINE v == SearchL2(q)
             n == newest[q]
  <2>1. Answer(q) = v
    BY <1>2 DEF Answer
  <2>2. v \in l2 /\ ~IsExpired(v)
    BY <2>1, ListAnswers DEF Covered
  <2>3. v \in Entries /\ v # None
    <3>1. v \in 1..puts BY <2>2 DEF Covered, CacheTypeOK
    <3>2. QED BY <3>1, NumbersTyped DEF Covered, None
  <2> HIDE DEF v
  <2>4. \/ v = n
        \/ /\ n # None /\ entry[v].created <= entry[n].created
           /\ l1[q] # None \/ IsExpired(n)
    BY <2>1, <2>2 DEF Covered, ListedIsCovered, IsCovered
  <2>5. CASE v = n
    BY <2>1, <2>3, <2>5
  <2>6. CASE v # n
    <3>1. n # None /\ entry[v].created <= entry[n].created
      BY <2>4, <2>6
    <3>2. IsExpired(n)
      BY <1>2, <2>4, <2>6 DEF Covered, ListedIsCovered
    <3>3. n \in Entries
      BY <3>1, NumbersTyped DEF Covered, None
    <3>4. entry[v].ttl > entry[n].ttl
      BY <2>2, <2>3, <3>1, <3>2, <3>3, OlderLivesLonger DEF Covered
    <3>5. QED BY <2>1, <3>1, <3>2, <3>4
  <2>7. QED BY <2>5, <2>6
<1>3. QED BY <1>1, <1>2

LEMMA InitCovered == CacheInit => Covered
<1> SUFFICES ASSUME CacheInit PROVE Covered
  OBVIOUS
<1>1. Unused \in EntryRecord
  BY CacheAssumption DEF Unused, EntryRecord
<1>2. CacheTypeOK
  BY <1>1, CacheAssumption DEF CacheInit, CacheTypeOK, EntryRecord, None
<1>3. QED
  BY <1>2 DEF CacheInit, Covered, CreatedBefore, ListedIsCovered, None

LEMMA GetCovered == ASSUME Covered, NEW q \in Queries, Get(q) PROVE Covered'
<1>1. UNCHANGED <<puts, l2, now, newest>>
  BY DEF Get
<1>2. /\ entry' \in [Entries -> EntryRecord]
      /\ \A v \in Entries : /\ entry'[v].query = entry[v].query /\ entry'[v].ttl = entry[v].ttl
                          /\ entry'[v].created = entry[v].created
  <2> DEFINE a == Answer(q)
  <2>1. entry' = entry \/ (entry[a].hits < MaxHits /\ entry' = [entry EXCEPT ![a].hits = @ + 1])
    BY DEF Get
  <2> HIDE DEF a
  <2>2. CASE entry' = entry
    BY <2>2 DEF Covered, CacheTypeOK, EntryRecord
  <2>3. CASE entry[a].hits < MaxHits /\ entry' = [entry EXCEPT ![a].hits = @ + 1]
    <3>1. ASSUME NEW v \in Entries
          PROVE  /\ entry'[v] \in EntryRecord
                 /\ entry'[v].query = entry[v].query /\ entry'[v].ttl = entry[v].ttl
                 /\ entry'[v].created = entry[v].created
      <4>1. entry[v] \in EntryRecord
        BY DEF Covered, CacheTypeOK, EntryRecord
      <4>2. CASE v = a
        <5>1. entry'[v] = [entry[v] EXCEPT !.hits = @ + 1]
          BY <2>3, <4>2 DEF Covered, CacheTypeOK
        <5>2. entry[v].hits + 1 \in 0..MaxHits
          BY <2>3, <4>1, <4>2, CacheAssumption DEF EntryRecord
        <5>3. QED BY <4>1, <5>1, <5>2 DEF EntryRecord
      <4>3. CASE v # a
        BY <2>3, <4>1, <4>3 DEF Covered, CacheTypeOK
      <4>4. QED BY <4>2, <4>3
    <3>2. entry' = [v \in Entries |-> entry'[v]]
      BY <2>3 DEF Covered, CacheTypeOK
    <3>3. QED BY <3>1, <3>2
  <2>4. QED BY <2>1, <2>2, <2>3
<1>3. l1' = IF l1[q] # None /\ IsExpired(l1[q]) THEN [l1 EXCEPT ![q] = None] ELSE l1
  BY DEF Get
<1>4. CacheTypeOK' /\ CreatedBefore'
  <2>1. l1' \in [Queries -> 0..puts]
    BY <1>3 DEF Covered, CacheTypeOK, None
  <2>2. QED BY <1>1, <1>2, <2>1, NumbersTyped DEF Covered, CacheTypeOK, EntryRecord, CreatedBefore
<1>5. \A v \in Entries : IsExpired(v)' <=> IsExpired(v)
  BY <1>1, <1>2 DEF IsExpired
<1>6. ASSUME NEW p \in Queries, l1'[p] # None
      PROVE  l1'[p] = newest'[p] /\ entry'[l1'[p]].query = p
  <2>1. l1'[p] = l1[p] /\ l1[p] # None
    BY <1>3, <1>6 DEF Covered, CacheTypeOK
  <2>2. l1[p] \in Entries
    BY <2>1, NumbersTyped DEF Covered
  <2>3. QED BY <1>1, <1>2, <2>1, <2>2 DEF Covered, ListedIsCovered
<1>7. ASSUME NEW v \in l2'
      PROVE  IsCovered(v)'
  <2> DEFINE p == entry[v].query
             n == newest[p]
  <2>1. v \in l2 /\ v \in Entries /\ p \in Queries /\ entry'[v].query = p /\ newest'[p] = n
    BY <1>1, <1>2, NumbersTyped DEF Covered, CacheTypeOK
  <2>2. CASE IsExpired(v) \/ v = n
    BY <1>5, <2>1, <2>2 DEF IsCovered
  <2>3. CASE ~IsExpired(v) /\ v # n
    <3>1. /\ n # None /\ entry[v].created <= entry[n].created
          /\ l1[p] # None \/ IsExpired(n)
      BY <2>1, <2>3 DEF Covered, ListedIsCovered, IsCovered
    <3>2. n \in Entries
      BY <2>1, <3>1, NumbersTyped DEF Covered
    <3>3. l1'[p] # None \/ IsExpired(n)
      <4>1. l1[p] # None => l1[p] = n
        BY <2>1 DEF Covered, ListedIsCovered
      <4>2. CASE l1[p] # None /\ ~IsExpired(n)
        BY <1>3, <2>1, <4>1, <4>2 DEF Covered, CacheTypeOK
      <4>3. QED BY <3>1, <4>2
    <3>4. /\ entry'[v].created = entry[v].created /\ entry'[n].created = entry[n].created
          /\ IsExpired(newest[p])' <=> IsExpired(n)
      BY <1>1, <1>2, <1>5, <2>1, <3>2
    <3>5. QED BY <2>1, <3>1, <3>3, <3>4 DEF IsCovered
  <2>4. QED BY <2>2, <2>3
<1>8. ListedIsCovered'
  BY <1>6, <1>7 DEF ListedIsCovered
<1>9. QED BY <1>4, <1>8 DEF Covered

LEMMA PutCovered == ASSUME Covered, NEW q \in Queries, NEW ttl \in Ttls, NEW embeds \in BOOLEAN,
                         Put(q, ttl, embeds) PROVE Covered'
<1> DEFINE v == puts + 1
<1>1. PICK keys, list :
        /\ l1' = [p \in Queries |-> IF p = q THEN v ELSE IF p \in keys THEN l1[p] ELSE None]
        /\ l2' = IF embeds THEN list \cup {v} ELSE list
        /\ list \subseteq l2 /\ \A w \in list : entry[w].query \in keys \/ entry[w].query \notin InL1
  <2> DEFINE full == Cardinality(InL1) >= MaxEntries
             ks == IF full THEN Kept ELSE InL1
             ls == IF full THEN Synced(ks) ELSE l2
  <2>1. /\ l1' = [p \in Queries |-> IF p = q THEN v ELSE IF p \in ks THEN l1[p] ELSE None]
        /\ l2' = IF embeds THEN ls \cup {v} ELSE ls
    BY DEF Put
  <2>2. ls \subseteq l2 /\ \A w \in ls : entry[w].query \in ks \/ entry[w].query \notin InL1
    BY DEF Synced
  <2> HIDE DEF ks, ls
  <2>3. QED BY <2>1, <2>2
<1>2. /\ puts' = v /\ now' = now /\ puts < MaxPuts
      /\ entry' = [entry EXCEPT ![v] = [query |-> q, ttl |-> ttl, created |-> now, hits |-> 0]]
      /\ newest' = [newest EXCEPT ![q] = v]
  BY DEF Put
<1>3. /\ puts \in Nat /\ v \in 1..MaxPuts /\ v \in Entries /\ puts' \in 0..MaxPuts
      /\ now \in 0..MaxTime /\ now \in Nat
  BY <1>2, NumbersTyped DEF Covered, CacheTypeOK, Entries
<1>4. \A w \in 1..puts : w \in Entries /\ w # v /\ w \in 1..v /\ entry'[w] = entry[w]
  BY <1>2, <1>3, NumbersTyped DEF Covered, CacheTypeOK
<1>5. entry'[v] = [query |-> q, ttl |-> ttl, created |-> now, hits |-> 0]
  BY <1>2, <1>3 DEF Covered, CacheTypeOK
<1>6. list \subseteq 1..puts
  BY <1>1 DEF Covered, CacheTypeOK
<1>7. CacheTypeOK'
  <2>1. entry' \in [Entries -> EntryRecord]
    <3>1. [query |-> q, ttl |-> ttl, created |-> now, hits |-> 0] \in EntryRecord
      BY <1>3, CacheAssumption DEF EntryRecord
    <3>2. QED BY <1>2, <3>1 DEF Covered, CacheTypeOK, EntryRecord
  <2>2. \A p \in Queries : l1[p] \in 0..v /\ newest[p] \in 0..v
    BY <1>3 DEF Covered, CacheTypeOK
  <2>3. l1' \in [Queries -> 0..puts'] /\ newest' \in [Queries -> 0..puts']
    BY <1>1, <1>2, <1>3, <2>2 DEF Covered, CacheTypeOK, None
  <2>4. l2' \subseteq 1..puts'
    BY <1>1, <1>2, <1>3, <1>4, <1>6
  <2>5. QED BY <1>2, <1>3, <2>1, <2>3, <2>4 DEF CacheTypeOK, EntryRecord
<1>8. CreatedBefore'
  <2>1. ASSUME NEW w \in 1..puts' PROVE entry'[w].created <= now
    <3>1. CASE w = v
      BY <1>3, <1>5, <3>1
    <3>2. CASE w # v
      BY <1>2, <1>3, <1>4, <3>2 DEF Covered, CreatedBefore
    <3>3. QED BY <3>1, <3>2
  <2>2. QED BY <1>2, <2>1 DEF CreatedBefore
<1>9. \A w \in 1..puts : IsExpired(w)' <=> IsExpired(w)
  BY <1>2, <1>4 DEF IsExpired
<1>10. ASSUME NEW p \in Queries, l1'[p] # None
       PROVE  l1'[p] = newest'[p] /\ entry'[l1'[p]].query = p
  <2>1. CASE p = q
    BY <1>1, <1>2, <1>5, <2>1 DEF Covered, CacheTypeOK
  <2>2. CASE p # q
    <3>1. l1'[p] = l1[p] /\ l1[p] # None /\ newest'[p] = newest[p]
      BY <1>1, <1>2, <1>10, <2>2 DEF Covered, CacheTypeOK
    <3>2. l1[p] \in 1..puts
      BY <3>1, NumbersTyped DEF Covered
    <3>3. QED BY <1>4, <3>1, <3>2 DEF Covered, ListedIsCovered
  <2>3. QED BY <2>1, <2>2
<1>11. ASSUME NEW w \in l2'
       PROVE  IsCovered(w)'
  <2>1. CASE w = v
    BY <1>2, <1>5, <2>1 DEF Covered, CacheTypeOK, IsCovered
  <2>2. CASE w # v
    <3> DEFINE p == entry[w].query
               n == newest[p]
    <3>1. w \in list /\ w \in l2 /\ w \in 1..puts
      BY <1>1, <1>6, <2>2
    <3>2. p \in Queries /\ entry'[w] = entry[w] /\ entry[w].created <= now
      BY <1>4, <3>1, NumbersTyped DEF Covered, CreatedBefore
    <3>3. CASE p = q
      <4>1. l1'[p] = v /\ v # None /\ newest'[p] = v
        BY <1>1, <1>2, <1>3, <3>2, <3>3 DEF None, Covered, CacheTypeOK
      <4>2. entry'[v].created = now
        BY <1>5
      <4>3. QED BY <3>2, <4>1, <4>2 DEF IsCovered
    <3>4. CASE p # q
      <4>1. newest'[p] = n
        BY <1>2, <3>2, <3>4 DEF Covered, CacheTypeOK
      <4>2. CASE IsExpired(w) \/ w = n
        BY <1>9, <3>1, <3>2, <4>1, <4>2 DEF IsCovered
      <4>3. CASE ~(IsExpired(w) \/ w = n)
        <5>1. /\ n # None /\ entry[w].created <= entry[n].created
              /\ l1[p] # None \/ IsExpired(n)
          BY <3>1, <4>3 DEF Covered, ListedIsCovered, IsCovered
        <5>2. n \in 1..puts
          BY <3>2, <5>1, NumbersTyped DEF Covered
        <5>3. l1[p] # None => l1'[p] # None
          BY <1>1, <3>1, <3>2, <3>4 DEF InL1
        <5>4. entry'[n] = entry[n] /\ (IsExpired(newest[p])' <=> IsExpired(n))
          BY <1>2, <1>4, <3>2, <4>1, <5>2 DEF IsExpired
        <5>5. QED BY <3>2, <4>1, <5>1, <5>3, <5>4 DEF IsCovered
      <4>4. QED BY <4>2, <4>3
    <3>5. QED BY <3>3, <3>4
  <2>3. QED BY <2>1, <2>2
<1>12. QED BY <1>7, <1>8, <1>10, <1>11 DEF Covered, ListedIsCovered

LEMMA InvalidateCovered == ASSUME Covered, NEW Q \in SUBSET Queries, Invalidate(Q) PROVE Covered'
<1>1. /\ l1' = [q \in Queries |-> IF q \in Q THEN None ELSE l1[q]]
      /\ l2' = {v \in l2 : entry[v].query \notin Q}
      /\ newest' = [q \in Queries |-> IF q \in Q THEN None ELSE newest[q]]
      /\ puts' = puts /\ entry' = entry /\ now' = now
  BY DEF Invalidate
<1>2. CacheTypeOK' /\ CreatedBefore'
  <2>1. \A q \in Queries : 0 \in 0..puts /\ l1[q] \in 0..puts /\ newest[q] \in 0..puts
    BY NumbersTyped DEF Covered, CacheTypeOK
  <2>2. l1' \in [Queries -> 0..puts] /\ newest' \in [Queries -> 0..puts]
    BY <1>1, <2>1 DEF None
  <2>3. l2' \subseteq 1..puts
    BY <1>1 DEF Covered, CacheTypeOK
  <2>4. QED BY <1>1, <2>2, <2>3 DEF Covered, CacheTypeOK, CreatedBefore
<1>3. \A v : IsExpired(v)' <=> IsExpired(v)
  BY <1>1 DEF IsExpired
<1>4. ASSUME NEW q \in Queries, l1'[q] # None PROVE l1'[q] = newest'[q] /\ entry'[l1'[q]].query = q
  BY <1>1, <1>4 DEF Covered, ListedIsCovered
<1>5. ASSUME NEW v \in l2'
      PROVE  IsCovered(v)'
  <2> DEFINE q == entry[v].query
             n == newest[q]
  <2>1. v \in l2 /\ q \notin Q /\ entry[v].query \in Queries
    BY <1>1, NumbersTyped DEF Covered, CacheTypeOK
  <2>2. newest'[q] = n /\ l1'[q] = l1[q]
    BY <1>1, <2>1
  <2>3. \/ IsExpired(v)
        \/ v = n
        \/ /\ n # None /\ entry[v].created <= entry[n].created
           /\ l1[q] # None \/ IsExpired(n)
    BY <2>1 DEF Covered, ListedIsCovered, IsCovered
  <2>4. QED BY <1>1, <1>3, <2>2, <2>3 DEF IsCovered
<1>6. QED BY <1>2, <1>4, <1>5 DEF Covered, ListedIsCovered

LEMMA TickCovered == ASSUME Covered, CacheTick PROVE Covered'
<1>1. now < MaxTime /\ now' = now + 1 /\ UNCHANGED <<puts, entry, l1, l2, newest>>
  BY DEF CacheTick
<1>2. CacheTypeOK' /\ CreatedBefore'
  <2>1. now' \in 0..MaxTime
    BY <1>1, CacheAssumption DEF Covered, CacheTypeOK
  <2>2. CacheTypeOK'
    BY <1>1, <2>1 DEF Covered, CacheTypeOK
  <2>3. \A v \in 1..puts : entry[v].created \in Nat /\ entry[v].created <= now /\ now \in Nat
    BY NumbersTyped DEF Covered, CreatedBefore
  <2>4. CreatedBefore'
    BY <1>1, <2>3 DEF CreatedBefore
  <2>5. QED BY <2>2, <2>4
<1>3. \A v \in Entries : IsExpired(v) => IsExpired(v)'
  <2> SUFFICES ASSUME NEW v \in Entries, IsExpired(v) PROVE IsExpired(v)'
    OBVIOUS
  <2>1. entry[v].created \in Nat /\ entry[v].ttl \in Nat /\ now \in Nat
    BY NumbersTyped DEF Covered
  <2>2. QED BY <1>1, <2>1 DEF IsExpired
<1>4. ASSUME NEW v \in l2 PROVE IsCovered(v)'
  <2> DEFINE n == newest[entry[v].query]
  <2>1. v \in Entries /\ entry[v].query \in Queries
    BY NumbersTyped DEF Covered, CacheTypeOK
  <2>2. n # None => n \in Entries
    BY <2>1, NumbersTyped DEF Covered
  <2>3. \/ IsExpired(v)
        \/ v = n
        \/ /\ n # None /\ entry[v].created <= entry[n].created
           /\ l1[entry[v].query] # None \/ IsExpired(n)
    BY DEF Covered, ListedIsCovered, IsCovered
  <2>4. QED BY <1>1, <1>3, <2>1, <2>2, <2>3 DEF IsCovered
<1>5. ListedIsCovered'
  BY <1>1, <1>4 DEF Covered, ListedIsCovered
<1>6. QED BY <1>2, <1>5 DEF Covered

LEMMA StepCovered == Covered /\ [CacheNext]_cacheVars => Covered'
<1> SUFFICES ASSUME Covered, [CacheNext]_cacheVars PROVE Covered'
  OBVIOUS
<1>1. CASE UNCHANGED cacheVars
  BY <1>1 DEF cacheVars, Covered, CacheTypeOK, CreatedBefore, ListedIsCovered, IsCovered, IsExpired
<1>2. QED
  BY <1>1, GetCovered, PutCovered, InvalidateCovered, TickCovered DEF CacheNext

(* Whatever is put, for whatever task, and evicted, invalidated or expired on *)
(* one level or both, a query answered with an answer of its own gets the     *)
(* newest, or one whose longer TTL outlives the newest (get, put, _evict).    *)
THEOREM NewestIsAnswered == CacheSpec => []OwnAnswerNewest
  BY InitCovered, StepCovered, CoveredIsNewest, PTL DEF CacheSpec
============================================================================
