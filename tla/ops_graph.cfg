SPECIFICATION GraphLiveSpec
CONSTANTS
    Tool = {t1}
    Plan <- MCPlan
    AlertCount = {3}
    MaxRounds = 3
    MaxSessions = 2
    MayRaise = {"alert_correlation", "diagnostic", "hitl_gate", "report"}
    MaxErrors = 1
    MCPWired = TRUE
    CanResume = TRUE
INVARIANTS
    GraphTypeOK
    AlertsGetContext
    RoundsBounded
    RemediationNeedsPerson
    ReportIsOwn
    KnowledgeIsConcluded
PROPERTY
    InvocationEnds
CHECK_DEADLOCK FALSE
