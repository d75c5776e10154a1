SPECIFICATION FairSpec
CONSTANTS
    Requests = {r1, r2, r3, r4, r5}
    Caps = {2}
    MaxQueueSize = 3
    Cooldowns = {}
    Resets = FALSE
    NoBlock = NoBlock
PROPERTY ImplementsFairSemaphore
