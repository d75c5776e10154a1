SPECIFICATION FairSpec
CONSTANTS
    Calls = {c1, c2, c3}
    Kinds = {rate_limit}
    NoKind = NoKind
    NoRow = NoRow
    FailureThreshold = 3
    DegradationThreshold = 2
    ResetTimeout = 1
    HalfOpenRequests = 2
    MaxBackoffMultiplier = 3
    BackoffEscalationCount = 0
    CooldownByKind <- HintedCooldowns
    KindThresholds <- NoThresholds
    MaxFailures = 5
    MaxCycles = 2
    MaxAge = 3
INVARIANT RowIsCurrent
PROPERTY OpenIsTriedAgain
