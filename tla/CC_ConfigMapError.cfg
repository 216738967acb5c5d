\* cleanCitadelResources reports a ConfigMap error after deleting it.
CONSTANTS
    s1 = s1
    s2 = s2
    s3 = s3
    Secrets <- MCSecrets
    Pruned <- MCPruned
    MaxRetries = 3
    MaxTransient = 1
    MaxRecreate = 2
SPECIFICATION Spec
CHECK_DEADLOCK FALSE
INVARIANT ConfigMapErrorIsReal
