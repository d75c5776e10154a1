SPECIFICATION FairSpec
CONSTANTS
    Requests = {r1, r2}
    Accounts = {a1}
    None = None
    Outcomes = {"early", "own_timeout"}
    BaseCooldown = 1
    MaxBackoffSteps = 0
    MaxRetries = 1
    MaxRetryWait = 1
    RetryBudget = 1
    FailureThreshold = 1
    DegradationThreshold = 1
    ResetTimeout = 1
    HalfOpenRequests = 1
    MaxBackoffMultiplier = 1
    BackoffEscalationCount = 0
    MaxFailures = 1
    MaxCycles = 0
    MaxAge = 1
PROPERTIES RequestsEnd OpenIsTriedAgain
