SPECIFICATION LiveSpec
CONSTANTS
    Instance = {i1}
    Request = {r1, r2}
    Person = {p1, p2}
    DevAuto = devauto
    Risk = {"medium", "critical"}
    CallerTimeout = {1}
    HighRiskTimeout = 2
    RedisTTL = 3
    RedisConfigured = TRUE
    RedisCanFail = FALSE
    CanRestart = TRUE
    MaxTime = 4
    Idle = Idle
PROPERTIES
    RefinesLifecycle
    DecisionFinal
    EventuallyDecided
CHECK_DEADLOCK FALSE
