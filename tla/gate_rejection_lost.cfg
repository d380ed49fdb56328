SPECIFICATION Spec
CONSTANTS
    Instance = {i1, i2}
    Request = {r1}
    Person = {p1}
    DevAuto = devauto
    Risk = {"medium"}
    CallerTimeout = {1}
    HighRiskTimeout = 2
    RedisTTL = 9
    RedisConfigured = TRUE
    RedisCanFail = FALSE
    CanRestart = FALSE
    MaxTime = 4
    Idle = Idle
PROPERTY
    RejectionBinds
CHECK_DEADLOCK FALSE
