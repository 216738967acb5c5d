\* The Citadel chart: EndChart's waits end, a timeout only on a resource that
\* is not ready, and the cleanup after the prune removes the listed secrets.
CONSTANTS
    s1 = s1
    s2 = s2
    s3 = s3
    Secrets <- MCSecrets
    Pruned <- MCPruned
    NewResources <- CitadelChart
    ChartName = "Citadel"
    Steps = 3
    MaxReplicas = 2
    MaxWaitErrors = 1
    MaxRetries = 3
    MaxTransient = 1
    MaxRecreate = 2
SPECIFICATION Spec
CHECK_DEADLOCK FALSE
INVARIANT TypeOK WaitTimesOutOnlyIfNotReady ListedSecretsRemoved
PROPERTY ChartLifecycleCompletes
