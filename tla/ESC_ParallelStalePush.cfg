\* Two workers: a push computed before another worker's Update lands after it.
CONSTANTS
    a1 = a1  a2 = a2  h1 = h1  h2 = h2  s1 = s1  s2 = s2  w1 = w1  w2 = w2
    http = http  grpc = grpc  metrics = metrics  appFoo = appFoo  appBar = appBar  versionV1 = versionV1
    NULL = NULL
    Hosts <- OneHost
    Slices <- TwoSlices
    Addrs <- MCAddrs
    PortNames <- MCPortNames
    PortNums <- MCPortNums
    SvcPorts <- OneHostPorts
    PodIPs <- MCPodIPs
    LatePods <- MCLatePods
    PodLabels <- MCPodLabels
    PodLocality <- MCPodLocality
    Selectors <- MCSelectors
    Objects <- MCObjects
    Workers <- TwoWorkers
    MaxEvents = 4
SPECIFICATION Spec
INVARIANT PushedMatchesCache
CHECK_DEADLOCK FALSE
