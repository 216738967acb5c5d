\* The webhook reconcile in both modes: fail-close safety, convergence, unregister.
CONSTANTS
    c1 = c1
    c2 = c2
    garbage = garbage
    unreadable = unreadable
    absent = absent
    CAs <- MCCAs
    ValidCAs <- MCValidCAs
    Unreadable = unreadable
    Absent = absent
    Endpoints <- MCEndpoints
    MaxEnv = 3
SPECIFICATION Spec
CONSTRAINT StateConstraint
CHECK_DEADLOCK FALSE
INVARIANT TypeOK FailCloseAfterProof
PROPERTY EventuallyReconciled UnregisterRemovesConfig
