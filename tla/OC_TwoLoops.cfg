\* Two control loops on one CR without flushes: the cache's copies, nil means applied, every call returns.
CONSTANTS
    l1 = l1
    l2 = l2
    k1 = k1
    k2 = k2
    v1 = v1
    v2 = v2
    notCached = notCached
    none = none
    NotCached = notCached
    None = none
    Loops <- MCTwoLoops
    Keys <- MCKeys
    Versions <- MCVersions
    MaxRuns = 2
    MaxFlush = 0
    MaxErrors = 1
    MaxTouch = 0
SPECIFICATION Spec
CHECK_DEADLOCK FALSE
INVARIANT CacheMatchesServer
PROPERTY ManifestAppliedOnNil
PROPERTY ProcessManifestReturns
