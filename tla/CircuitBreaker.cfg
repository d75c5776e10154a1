SPECIFICATION Spec
CONSTANTS
    Calls = {c1, c2, c3}
    Kinds = {rate_limit}
    NoKind = NoKind
    NoRow = NoRow
    FailureThreshold = 3
    DegradationThreshold = 2
    ResetTimeout = 1
    HalfOpenRequests = 2
    MaxBackoffMultiplier = 3
    BackoffEscalationCount = 0
    CooldownByKind <- HintedCooldowns
    KindThresholds <- KindsLimited
    MaxFailures = 5
    MaxCycles = 2
    MaxAge = 3
SYMMETRY CallSymmetry
INVARIANTS TypeOK CountBands ProbeBudget CyclesEndWithOutage
PROPERTY WindowDiesOfIgnored
