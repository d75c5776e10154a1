SPECIFICATION Spec
CONSTANTS
    r1 = r1
    r2 = r2
    r3 = r3
    Requests = {r1, r2, r3}
    N = 2
    Caps = {1}
    DefaultMax = 2
    QueueDepth = 1
    Cooldowns = {1}
    MaxRetries = 1
    MaxAttempts = 2
    Sticking = {r3}
    StickyLimit = 2
    Pins = {0}
    None = None
SYMMETRY RotatingSymmetry
INVARIANTS TypeOK GatesSound TurnsAreEarned
