SPECIFICATION FairSpec
CONSTANTS
    c1 = c1
    c2 = c2
    Callers = {c1, c2}
    None = None
    MaxToken = 3
    MaxTries = 2
    MaxCrashes = 1
INVARIANTS TypeOK OneRefreshPerConnection ReplayNeedsACause
PROPERTIES DeactivatedOnlyDead MutexFreed
CHECK_DEADLOCK FALSE
