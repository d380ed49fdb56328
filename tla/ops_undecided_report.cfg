SPECIFICATION GraphSpec
CONSTANTS
    Tool = {t1}
    Plan <- MCPlan
    AlertCount = {3}
    MaxRounds = 3
    MaxSessions = 1
    MayRaise = {}
    MaxErrors = 0
    MCPWired = TRUE
    CanResume = FALSE
INVARIANT
    HighRiskAwaitsDecision
CHECK_DEADLOCK FALSE
