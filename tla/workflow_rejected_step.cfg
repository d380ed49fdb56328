SPECIFICATION WorkflowSpec
CONSTANTS
    Instance = {gate}
    Request = {r1, r2}
    Person = {p1, p2}
    DevAuto = devauto
    Risk = {"medium", "high", "critical"}
    CallerTimeout = {1, 2}
    HighRiskTimeout = 2
    RedisTTL = 1
    RedisConfigured = FALSE
    RedisCanFail = FALSE
    CanRestart = FALSE
    MaxTime = 3
    Idle = Idle
    Step = {s1, s2}
    Operation <- MCOperation
    OperationScope <- MCScope
    SuggestedTimeout <- MCTimeout
    MaxWait = 1
    NoRequest = NoRequest
INVARIANT
    RejectedStepBlocks
CHECK_DEADLOCK FALSE
