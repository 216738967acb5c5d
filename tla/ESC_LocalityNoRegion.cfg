\* A pod on a node with a zone label and no region label: getLocalityFromTopology gives "/zone", spec.md 4 the zone alone.
CONSTANTS
    a1 = a1  a2 = a2  h1 = h1  h2 = h2  s1 = s1  s2 = s2  w1 = w1  w2 = w2
    http = http  grpc = grpc  metrics = metrics  appFoo = appFoo  appBar = appBar  versionV1 = versionV1
    NULL = NULL
    Hosts <- OneHost
    Slices <- TwoSlices
    Addrs <- MCAddrs
    PortNames <- MCPortNames
    PortNums <- MCPortNums
    SvcPorts <- OneHostPorts
    PodIPs <- MCPodIPs
    LatePods <- MCLatePods
    PodLabels <- MCPodLabels
    PodLocality <- MCPodLocality
    Selectors <- MCSelectors
    Objects <- ZoneOnlyObjects
    Workers <- OneWorker
    MaxEvents = 2
SPECIFICATION Spec
INVARIANT LocalityFollowsSpec
CHECK_DEADLOCK FALSE
