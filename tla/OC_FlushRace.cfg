\* Two control loops and a flush between taking the cache and locking it.
CONSTANTS
    l1 = l1
    l2 = l2
    k1 = k1
    k2 = k2
    v1 = v1
    v2 = v2
    notCached = notCached
    none = none
    NotCached = notCached
    None = none
    Loops <- MCTwoLoops
    Keys <- MCKeys
    Versions <- MCVersions
    MaxRuns = 2
    MaxFlush = 1
    MaxErrors = 1
    MaxTouch = 0
SPECIFICATION Spec
CHECK_DEADLOCK FALSE
INVARIANT CacheMatchesServer
