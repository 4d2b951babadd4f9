CONSTANTS
    Calls = {c1, c2, c3}
    MaxAttempts = 2
    FailureThreshold = 1
    HalfOpenMax = 1
CHECK_DEADLOCK FALSE
SPECIFICATION BreakerSpec
INVARIANT RejectedOnlyByProbes
