\* One control loop, flushes, failed writes and other writers: a nil return means the manifest is applied.
CONSTANTS
    l1 = l1
    l2 = l2
    k1 = k1
    k2 = k2
    v1 = v1
    v2 = v2
    notCached = notCached
    none = none
    NotCached = notCached
    None = none
    Loops <- MCOneLoop
    Keys <- MCKeys
    Versions <- MCVersions
    MaxRuns = 2
    MaxFlush = 2
    MaxErrors = 1
    MaxTouch = 1
SPECIFICATION Spec
CHECK_DEADLOCK FALSE
PROPERTY ManifestAppliedOnNil
