SPECIFICATION Spec
SYMMETRY Symmetry
CONSTANTS
    Requests = {r1, r2}
    Accounts = {a1, a2}
    None = None
    Outcomes = {"bad", "rejected", "unauthorized", "banned"}
    BaseCooldown = 1
    MaxBackoffSteps = 1
    MaxRetries = 0
    MaxRetryWait = 1
    RetryBudget = 1
    FailureThreshold = 1
    DegradationThreshold = 1
    ResetTimeout = 1
    HalfOpenRequests = 1
    MaxBackoffMultiplier = 1
    BackoffEscalationCount = 0
    MaxFailures = 1
    MaxCycles = 0
    MaxAge = 1
INVARIANT TypeOK
PROPERTIES ImplementsCircuitBreaker FallbackLeavesACooldown
