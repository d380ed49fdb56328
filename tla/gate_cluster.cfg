SPECIFICATION Spec
CONSTANTS
    Instance = {i1, i2}
    Request = {r1}
    Person = {p1, p2}
    DevAuto = devauto
    Risk = {"medium", "critical"}
    CallerTimeout = {1}
    HighRiskTimeout = 2
    RedisTTL = 3
    RedisConfigured = TRUE
    RedisCanFail = TRUE
    CanRestart = TRUE
    MaxTime = 4
    Idle = Idle
INVARIANTS
    TypeOK
    DualControl
    ApprovedInTime
CHECK_DEADLOCK FALSE
