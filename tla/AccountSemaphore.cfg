SPECIFICATION Spec
CONSTANTS
    Requests = {r1, r2, r3, r4}
    Caps = {1, 2}
    MaxQueueSize = 2
    Cooldowns = {1, 2}
    Resets = TRUE
    NoBlock = NoBlock
SYMMETRY RequestSymmetry
INVARIANTS TypeOK QueueIsWaiters SlotsMatchHolders NoStrandedWaiter IdleGateIsForgotten
PROPERTIES BlockHolds GrantsWithinCap
