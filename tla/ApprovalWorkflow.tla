--------------------------- MODULE ApprovalWorkflow ---------------------------
(***************************************************************************)
(* One repair workflow of python/src/aiops/hitl/workflow.py over the gate  *)
(* of ApprovalGate: its steps are classified, submitted to the gate as one *)
(* request each, and polled until the workflow is approved or rejected.    *)
(*                                                                         *)
(* The gate is the in-memory one ApprovalWorkflow builds for itself        *)
(* (gate or HITLGate()); people approve and reject on it directly.  The    *)
(* coroutines have no await between reading and writing the context, so    *)
(* submit_for_approval and check_approval_status are one step each;        *)
(* wait_for_approval sleeps between polls.                                 *)
(*                                                                         *)
(* "orderly" tells the two ways the class is used apart: one caller that   *)
(* creates, submits once and waits, as the module's header describes it,   *)
(* or any caller at any time, which is all the code enforces.              *)
(***************************************************************************)
EXTENDS ApprovalGate, RiskClassifier, Functions

CONSTANTS
    Step,               \* the steps of the workflow
    Operation,          \* operation texts (sets of keywords)
    OperationScope,     \* scopes of the operations
    SuggestedTimeout,   \* timeout_map of classify, by level
    MaxWait,            \* max_wait of wait_for_approval
    NoRequest           \* step.approval_request is None

ASSUME WorkflowAssumption ==
    /\ \A text \in Operation : text \subseteq Keyword /\ WellFormed(text)
    /\ OperationScope \subseteq Scope
    /\ SuggestedTimeout \in [Level -> CallerTimeout]
    /\ MaxWait \in Nat
    /\ NoRequest \notin Request
    /\ Instance # {} /\ ~RedisConfigured /\ ~CanRestart
    /\ {"medium", "high", "critical"} \subseteq Risk   \* the labels that ask for approval

VARIABLES
    operation,   \* operation[s]: the text and scope of step s
    level,       \* level[s]: step.risk_assessment.level
    stepState,   \* stepState[s]: step.state
    stepRequest, \* stepRequest[s]: the id of step.approval_request
    state,       \* ctx.state; "none" before create_workflow succeeds
    waiter,      \* wait_for_approval: idle, waiting, or the state it returned
    waitStart,   \* the monotonic time wait_for_approval began
    orderly      \* the caller keeps to create, submit once, wait

flow == <<operation, level, stepState, stepRequest, state, waiter, waitStart, orderly>>
allVars == <<vars, flow>>

Gate == CHOOSE i \in Instance : TRUE

RequestOf(s) == requests[Gate][stepRequest[s]]

-----------------------------------------------------------------------------
(***************************************************************************)
(* create_workflow classifies every operation; an exception in one leaves  *)
(* no workflow behind.                                                     *)
(***************************************************************************)
CreateWorkflow(ops) ==
    /\ state = "none"
    /\ \A s \in Step : Classify(ops[s].text, ops[s].scope) # ValueError
    /\ operation' = ops
    /\ level' = [s \in Step |-> Classify(ops[s].text, ops[s].scope)]
    /\ stepState' = [s \in Step |-> "risk_assessed"]
    /\ state' = "risk_assessed"
    /\ UNCHANGED <<vars, stepRequest, waiter, waitStart, orderly>>

NeedsRequest(s) == RequiresApproval(level[s])

\* The ids create_request draws are random prefixes: any fresh ones do, and one
\* choice of them stands for all.
FreshIds(asking) == Injection(asking, Request \ drawn)

\* submit_for_approval: one create_request per step that needs approval.
SubmitForApproval ==
    LET asking == {s \in Step : NeedsRequest(s)}
        ids == CHOOSE f \in FreshIds(asking) : TRUE
        asker(r) == CHOOSE s \in asking : ids[s] = r
        timeout(s) == SuggestedTimeout[level[s]]
    IN  /\ state # "none"
        /\ orderly => state = "risk_assessed" /\ waiter = "idle"
        /\ FreshIds(asking) # {}                    \* bound: ids are left
        /\ \A s \in asking : now + EffectiveTimeout(Label(level[s]), timeout(s)) < MaxTime
        /\ requests' = [requests EXCEPT ![Gate] =
             [r \in Request |->
                IF \E s \in asking : ids[s] = r
                THEN NewRequest(Label(level[asker(r)]), timeout(asker(r)))
                ELSE @[r]]]
        /\ drawn' = drawn \cup {ids[s] : s \in asking}
        /\ stepRequest' = [s \in Step |-> IF s \in asking THEN ids[s] ELSE stepRequest[s]]
        /\ stepState' = [s \in Step |->
             IF s \in asking THEN "awaiting_approval" ELSE "approved"]
        /\ state' = IF asking # {} THEN "awaiting_approval" ELSE "approved"
        /\ UNCHANGED <<useRedis, redis, expires, now, checking, autoApprove,
                       operation, level, waiter, waitStart, orderly>>

-----------------------------------------------------------------------------
(***************************************************************************)
(* check_approval_status: HITLGate.check_status for each step that awaits  *)
(* an answer, then the step's state and the workflow's.  Only the steps    *)
(* that were awaiting at this very poll can say no.                        *)
(***************************************************************************)
Awaiting == {s \in Step : stepRequest[s] # NoRequest /\ stepState[s] = "awaiting_approval"}

\* What check_status makes of a record of the in-memory gate.
Checked(rec) == IF IsTimedOut(rec) THEN Resolve(rec, "timeout") ELSE rec

\* Faulty variant: a request that timed out counts as still open.
StepStateFor_TimeoutOpen(status) ==
    CASE status \in {"approved", "auto_approved", "timeout"} -> "approved"
      [] status = "rejected" -> "rejected"
      [] OTHER -> "awaiting_approval"
StepStateFor(status) ==
    CASE status \in {"approved", "auto_approved"} -> "approved"
      [] status \in {"rejected", "timeout"}       -> "rejected"
      [] OTHER                                    -> "awaiting_approval"

\* Faulty variant: an open step does not hold the approval back.
StateAfter_AnyStep(polled) ==
    IF \E s \in Awaiting : polled[s] = "rejected" THEN "rejected"
    ELSE IF \E s \in Step : polled[s] = "approved" THEN "approved" ELSE state
StateAfter(polled) ==
    IF \E s \in Awaiting : polled[s] = "rejected" THEN "rejected"
    ELSE IF \A s \in Awaiting : polled[s] = "approved" THEN "approved" ELSE state

PollSteps ==
    LET polled == [s \in Step |->
                     IF s \in Awaiting THEN StepStateFor(Checked(RequestOf(s)).status)
                     ELSE stepState[s]]
    IN  /\ requests' = [requests EXCEPT ![Gate] =
             [r \in Request |->
                IF r \in {stepRequest[s] : s \in Awaiting} THEN Checked(@[r]) ELSE @[r]]]
        /\ stepState' = polled
        /\ state' = StateAfter(polled)

\* Any other caller of check_approval_status (a status page, a second waiter).
CheckApprovalStatus ==
    /\ ~orderly
    /\ state # "none"
    /\ PollSteps
    /\ UNCHANGED <<useRedis, redis, expires, now, checking, drawn, autoApprove,
                   operation, level, stepRequest, waiter, waitStart, orderly>>

\* wait_for_approval, from its call to its return.
WaitBegin ==
    /\ state # "none"
    /\ waiter = "idle"
    /\ orderly => state \in {"awaiting_approval", "approved"}
    /\ now + MaxWait <= MaxTime                    \* the wait fits the clock
    /\ waiter' = "waiting"
    /\ waitStart' = now
    /\ UNCHANGED <<vars, operation, level, stepState, stepRequest, state, orderly>>

WaitPoll ==
    /\ waiter = "waiting"
    /\ now - waitStart < MaxWait
    /\ PollSteps
    /\ waiter' = IF state' \in {"approved", "rejected"} THEN state' ELSE "waiting"
    /\ UNCHANGED <<useRedis, redis, expires, now, checking, drawn, autoApprove,
                   operation, level, stepRequest, waitStart, orderly>>

\* Faulty variant: the loop has no time limit.
WaitExpired_Never == FALSE
WaitExpired == now - waitStart >= MaxWait

WaitTimeout ==
    /\ waiter = "waiting"
    /\ WaitExpired
    /\ state' = "rejected"
    /\ waiter' = "rejected"
    /\ UNCHANGED <<vars, operation, level, stepState, stepRequest, waitStart, orderly>>

\* The people at the gate, and the clock.
HumanDecision ==
    /\ \E r \in Request :
         \/ \E p \in Person : Approve(Gate, r, p)
         \/ ApproveTooLate(Gate, r)
         \/ Reject(Gate, r)
    /\ UNCHANGED flow

ClockTick == Tick /\ UNCHANGED flow

-----------------------------------------------------------------------------
WorkflowInit ==
    /\ Init
    /\ operation = [s \in Step |-> NoRequest]
    /\ level = [s \in Step |-> 0]
    /\ stepState = [s \in Step |-> "init"]
    /\ stepRequest = [s \in Step |-> NoRequest]
    /\ state = "none"
    /\ waiter = "idle"
    /\ waitStart = 0
    /\ orderly \in BOOLEAN

WorkflowNext ==
    \/ \E ops \in [Step -> [text : Operation, scope : OperationScope]] : CreateWorkflow(ops)
    \/ SubmitForApproval
    \/ CheckApprovalStatus
    \/ WaitBegin
    \/ WaitPoll
    \/ WaitTimeout
    \/ HumanDecision
    \/ ClockTick

\* The event loop resumes the sleeping waiter, and time passes.
WorkflowFairness ==
    /\ WF_allVars(WaitPoll)
    /\ WF_allVars(WaitTimeout)
    /\ WF_allVars(ClockTick)

WorkflowSpec == WorkflowInit /\ [][WorkflowNext]_allVars
WorkflowLiveSpec == WorkflowSpec /\ WorkflowFairness

-----------------------------------------------------------------------------
FlowState == {"init", "risk_assessed", "awaiting_approval", "approved", "rejected"}

WorkflowTypeOK ==
    /\ TypeOK
    /\ level \in [Step -> Level]
    /\ stepState \in [Step -> FlowState]
    /\ stepRequest \in [Step -> Request \cup {NoRequest}]
    /\ state \in FlowState \cup {"none"}
    /\ waiter \in {"idle", "waiting", "approved", "rejected"}
    /\ waitStart \in Nat
    /\ orderly \in BOOLEAN

\* A step's verdict is the gate's: it is approved or rejected only as its own
\* current request is, whatever was resubmitted, polled or decided in between.
StepMatchesGate ==
    \A s \in Step :
        /\ stepState[s] = "approved" /\ RequiresApproval(level[s])
           => /\ stepRequest[s] \in Request
              /\ RequestOf(s).status \in {"approved", "auto_approved"}
        /\ stepState[s] = "rejected" => RequestOf(s).status \in {"rejected", "timeout"}

\* From the text to the people: outside auto-approval, a step whose text has a
\* word HIGH_RISK_PATTERNS rates critical is approved by two people, and one
\* with a word it rates high by one, whatever harmless words stand before it.
\* "migrate" is in OPERATION_RISK_MAP only, whose first key decides: it takes two
\* people if the text names no other operation (classify, the level's label,
\* create_request and approve together).
CriticalPattern == {"decommission", "delete", "drop", "format"}
HighPattern     == {"restart", "scale", "failover"}
NamesOnly(text, word) == text \cap MapKey = {word}
NamesCritical(text) == text \cap CriticalPattern # {} \/ NamesOnly(text, "migrate")

ApprovedBy(s) == IF stepRequest[s] = NoRequest THEN {} ELSE RequestOf(s).approvedBy

RiskyStepsNeedPeople ==
    \A s \in Step :
        stepState[s] = "approved" /\ ~autoApprove =>
            LET text == operation[s].text
            IN  /\ NamesCritical(text) => Cardinality(ApprovedBy(s)) >= 2
                /\ text \cap HighPattern # {} => ApprovedBy(s) # {}

\* What the header of risk.py says of its level L4: decommissioning a node and
\* migrating data take two people.  The code does not keep this: a text that
\* names a harmless operation as well ("check ... then migrate ...") is rated by
\* that one, no pattern catches "migrate", and nobody is asked.
L4Operation == CriticalPattern \cup {"migrate"}

L4StepsNeedTwo ==
    \A s \in Step :
        stepState[s] = "approved" /\ ~autoApprove /\ operation[s].text \cap L4Operation # {}
            => Cardinality(ApprovedBy(s)) >= 2

\* For an orderly caller the answer of wait_for_approval can be acted on: it is
\* "approved" only if every step is, and it is still the workflow's state
\* whenever somebody looks later, whatever happens at the gate meanwhile.
OrderlyAnswerSound ==
    orderly /\ waiter \in {"approved", "rejected"} =>
        /\ state = waiter
        /\ waiter = "approved" => \A s \in Step : stepState[s] = "approved"

\* The same for any caller: a workflow that is approved has no step whose
\* request was rejected or timed out.
RejectedStepBlocks ==
    state = "approved" => \A s \in Step : stepState[s] # "rejected"

\* wait_for_approval returns, whoever approves or does not.
WaitReturns == waiter = "waiting" ~> waiter # "waiting"
=============================================================================
