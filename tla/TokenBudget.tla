----------------------------- MODULE TokenBudget ----------------------------
(* The token budgets of diagnosis sessions (llm/budget.py).  check_budget   *)
(* and consume are synchronous; the LLM call they guard runs in between, so *)
(* several calls of a session may have passed the same check.               *)
EXTENDS Naturals, FiniteSets

CONSTANTS
    Sessions,           \* session ids
    Tasks,              \* task types
    Askers,             \* the callers that may be between check and consume
    SessionBudget,      \* DEFAULT_SESSION_BUDGET
    TaskPerCall,        \* max_tokens_per_call of every task, 0: no TaskBudget
    TaskPerSession,     \* max_tokens_per_session of every task
    AllowDowngrade,     \* the tasks with allow_downgrade
    MaxTokens           \* the most tokens one call is estimated at or uses

ASSUME BudgetAssumption ==
    /\ IsFiniteSet(Askers) /\ Askers # {} /\ "none" \notin Sessions
    /\ SessionBudget \in Nat \ {0} /\ MaxTokens \in Nat \ {0}
    /\ TaskPerCall \in [Tasks -> Nat] /\ TaskPerSession \in [Tasks -> Nat]
    /\ AllowDowngrade \subseteq Tasks

Amounts == 1..MaxTokens
Action == {"allow", "compress", "downgrade", "reject"}

VARIABLES
    used,       \* used_tokens of every session
    taskUsed,   \* task_usage of every session
    asker       \* the session, the task and the answer of every asker

budgetVars == <<used, taskUsed, asker>>

NotAsking == [session |-> "none", task |-> "none", action |-> "none"]
Asking(a) == asker[a] # NotAsking
Fresh == [t \in Tasks |-> 0]

Remaining(s) == IF used[s] < SessionBudget THEN SessionBudget - used[s] ELSE 0

\* Faulty: the session's remainder is looked at after the task's answer.
CheckBudget_TaskFirst(s, t, estimate) ==
    IF taskUsed[s][t] + estimate > TaskPerSession[t] /\ t \in AllowDowngrade THEN "downgrade"
    ELSE IF Remaining(s) < estimate THEN "reject"
    ELSE IF estimate > TaskPerCall[t] THEN "compress" ELSE "allow"

\* The first limit that is exceeded decides; a task without a budget is
\* limited by the session only.
CheckBudget(s, t, estimate) ==
    IF Remaining(s) < estimate THEN "reject"
    ELSE IF TaskPerCall[t] = 0 THEN "allow"
    ELSE IF taskUsed[s][t] + estimate > TaskPerSession[t]
         THEN IF t \in AllowDowngrade THEN "downgrade" ELSE "reject"
    ELSE IF estimate > TaskPerCall[t] THEN "compress"
    ELSE "allow"

\* A session nobody has used is created with nothing used, which is what the
\* variables hold for it already.
Check(a) ==
    /\ ~Asking(a)
    /\ \E s \in Sessions, t \in Tasks, estimate \in Amounts :
         LET action == CheckBudget(s, t, estimate)
         IN asker' = IF action = "reject" THEN asker
                     ELSE [asker EXCEPT ![a] = [session |-> s, task |-> t, action |-> action]]
    /\ UNCHANGED <<used, taskUsed>>

\* The call has succeeded: what it really used is recorded, without a limit.
Consume(a) ==
    /\ Asking(a)
    /\ LET s == asker[a].session
           t == asker[a].task
       IN \E actual \in Amounts :
            /\ used' = [used EXCEPT ![s] = @ + actual]
            /\ taskUsed' = [taskUsed EXCEPT ![s][t] = @ + actual]
    /\ asker' = [asker EXCEPT ![a] = NotAsking]

\* The call has failed and nothing is recorded.
CallFails(a) ==
    /\ Asking(a)
    /\ asker' = [asker EXCEPT ![a] = NotAsking]
    /\ UNCHANGED <<used, taskUsed>>

\* A new diagnosis forgets the session, also while calls of the old one run.
ResetSession(s) ==
    /\ used' = [used EXCEPT ![s] = 0]
    /\ taskUsed' = [taskUsed EXCEPT ![s] = Fresh]
    /\ UNCHANGED asker

BudgetInit ==
    /\ used = [s \in Sessions |-> 0]
    /\ taskUsed = [s \in Sessions |-> Fresh]
    /\ asker = [a \in Askers |-> NotAsking]

BudgetNext ==
    \/ \E a \in Askers : Check(a) \/ Consume(a) \/ CallFails(a)
    \/ \E s \in Sessions : ResetSession(s)
BudgetSpec == BudgetInit /\ [][BudgetNext]_budgetVars

----------------------------------------------------------------------------
BudgetTypeOK ==
    /\ used \in [Sessions -> Nat]
    /\ taskUsed \in [Sessions -> [Tasks -> Nat]]
    /\ asker \in [Askers -> [session : Sessions, task : Tasks, action : Action \ {"reject"}]
                            \cup {NotAsking}]

AskersOf(s) == {a \in Askers : asker[a].session = s}

(* A session overspends by less than one full call per caller that may be    *)
(* under way: calls that passed the check on the same remainder, completions *)
(* longer than the estimate, downgrades that ignore the task's limit and     *)
(* outcomes recorded after a reset do not add up to more (check_budget,      *)
(* consume and reset_session).                                               *)
OverspendBounded ==
    \A s \in Sessions : used[s] < SessionBudget + MaxTokens * Cardinality(Askers)

(* What makes it inductive: the tokens used, with the most the calls under   *)
(* way may still use, were admitted while something was left.                *)
AdmittedWithinBudget ==
    \A s \in Sessions :
        used[s] + MaxTokens * Cardinality(AskersOf(s)) < SessionBudget + MaxTokens * Cardinality(Askers)
============================================================================
