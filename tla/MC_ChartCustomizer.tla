------------------------- MODULE MC_ChartCustomizer -------------------------
(* Model values and charts for checking ChartCustomizer with TLC.         *)
EXTENDS ChartCustomizer

CONSTANTS s1, s2, s3

MCSecrets == {s1, s2, s3}
MCPruned == {s1, s2}

\* Every object the operator applies is unstructured (typed = FALSE).
Workload(k) == [kind |-> k, typed |-> FALSE, type |-> "none", clusterIP |-> "none",
                ingress |-> FALSE]

\* A Service as the chart applies it: the created object carries the
\* ClusterIP the API server assigned, never a LoadBalancer ingress.
Svc(t) == [kind |-> "Service", typed |-> FALSE, type |-> t, clusterIP |-> "ip",
           ingress |-> FALSE]

\* The Citadel chart: the istio-citadel Service and Deployment, created in
\* that order.
CitadelChart == <<Svc("ClusterIP"), Workload("Deployment")>>
=============================================================================
