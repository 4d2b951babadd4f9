CONSTANTS
    Calls = {c1, c2, c3}
    MaxAttempts = 3
    FailureThreshold = 2
    HalfOpenMax = 2
    Tenants = {t1}
    NoTenant = NoTenant
    Qps = 2
    Refill = 2
    MaxConcurrent = 1
    IdleTTL = 4
    MaxTime = 8
    Requests = {r1, r2, r3}
    Limit = 2
    Hour = 3
    Amounts = {1, 2}
    MaxClock = 5
    MaxUsage = 4
    Configs <- MCConfigs
    Models = {"m1", "m2"}
    Backoffs <- MCBackoffs
    AttemptTimeout = 1
    ResolveDeadline = 4
    StartDeadline = 5
    MaxBusy = 1
    Required <- MCRequired
CHECK_DEADLOCK FALSE
SPECIFICATION Spec
INVARIANTS ControlsInBounds BreakerIsSound AdmissionIsExact ServiceIsSound
PROPERTIES CallsProgress BudgetIsKept SignalStops
