\* GetVersionCompatibleMap against the reference lookup order; Version strings and release tags read back.
CONSTANTS
    none = none
    None = none
    invalid = invalid
    Invalid = invalid
    Embedded <- MCEmbedded
    Versions <- MCVersions
    MaxEntries = 3
    Width = 4
    Words = {rc, beta}
    Dot = dot
    Dash = dash
    V = v
    Release = release
    release = release
    rc = rc
    beta = beta
    dot = dot
    dash = dash
    v = v
    SuffixLen = 3
SPECIFICATION Spec
CHECK_DEADLOCK FALSE
INVARIANT LookupMatchesReference VersionReadsBack TagConvertsToVersion
