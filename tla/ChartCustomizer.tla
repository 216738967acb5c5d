--------------------------- MODULE ChartCustomizer ---------------------------
(***************************************************************************)
(* The chart customizers of the operator (operator/pkg/translate/         *)
(* translate_value.go) over one chart's life: IstioDefaultChartCustomizer *)
(* .EndChart waits for the resources the chart created, in the order of   *)
(* waitForResources (StatefulSets, Deployments, DaemonSets, Services),    *)
(* each with an ExponentialBackoff of Steps tries; later the operator     *)
(* prunes the chart's Deployment, and for the Citadel chart                *)
(* CitadelChartCustomizer.ResourceDeleted runs cleanCitadelResources,     *)
(* modelled by CitadelCleanup and composed here by INSTANCE.               *)
(*                                                                         *)
(* A resource is the object the chart applied (NewResourcesByKind): its   *)
(* kind, whether it is a typed *corev1.Service, and for a Service its     *)
(* type, ClusterIP and LoadBalancer ingress.                               *)
(* The API server's copy evolves: a workload's ready pods, a              *)
(* LoadBalancer's ingress assigned by the cloud controller, a deletion by *)
(* someone else. While its Deployment has a ready pod, Citadel writes its *)
(* ConfigMap and secrets.                                                  *)
(***************************************************************************)
EXTENDS Naturals, Sequences, SequencesExt, FiniteSets

CONSTANTS
    NewResources,   \* the objects the chart created, as applied
    ChartName,      \* the chart's name, given to NewChartCustomizer
    Steps,          \* finalizerRemovalBackoffSteps
    MaxReplicas,    \* bound on a workload's ready pods
    MaxWaitErrors,  \* bound on Get errors during the waits
    Secrets, Pruned, MaxRetries, MaxTransient, MaxRecreate

Workloads == {"StatefulSet", "Deployment", "DaemonSet"}

\* waitForResources: the created objects grouped by kind, in the order
\* the kinds are waited for, each kind in creation order.
OfKind(k) == SelectSeq(NewResources, LAMBDA r : r.kind = k)
Order == OfKind("StatefulSet") \o OfKind("Deployment") \o OfKind("DaemonSet")
         \o OfKind("Service")

\* Fault variant: the chart names are matched in lower case.
NewChartCustomizerLowerCase(chartName) ==
    CASE chartName = "citadel" -> "Citadel"
      [] chartName = "kiali"   -> "Kiali"
      [] OTHER                 -> "Default"

\* IstioChartCustomizerFactory.NewChartCustomizer: the Citadel and Kiali
\* charts get customizers of their own, every other chart the default
\* one. All three embed IstioDefaultChartCustomizer, so all wait in
\* EndChart; only the Citadel one overrides ResourceDeleted (the Kiali
\* one overrides BeginResource, whose ConfigMap patch is a no-op).
NewChartCustomizer(chartName) ==
    CASE chartName = "Citadel" -> "Citadel"
      [] chartName = "Kiali"   -> "Kiali"
      [] OTHER                 -> "Default"

Customizer == NewChartCustomizer(ChartName)

N == Len(Order)
Idx == 1..N
IsWorkload(j) == Order[j].kind \in Workloads
IsService(j) == Order[j].kind = "Service"

ASSUME Steps \in Nat \ {0}

VARIABLES
    phase,      \* "endChart", "installed" (EndChart returned), "pruned"
    i,          \* the resource being waited for
    polls,      \* condition calls made in the current wait
    verdict,    \* verdict[j]: how the wait for j ended
    live,       \* live[j]: ready pods of a workload, ingresses of a Service
    gone,       \* resources deleted from the API server
    seen,       \* seen[j]: live[j] at the last poll of j (ghost)
    waitErrors,
    cm, secrets, listed, retryCount, todo, pc, result, transient,
    recreated, rewritten, cmDeleted

cleanupVars == <<cm, secrets, listed, retryCount, todo, pc, result, transient,
                 recreated, rewritten, cmDeleted>>
waitVars == <<phase, i, polls, verdict, live, gone, seen, waitErrors>>
vars == <<waitVars, cleanupVars>>

C == INSTANCE CitadelCleanup

Verdicts == {"none", "ready", "gone", "timeout", "error", "skipped"}

-----------------------------------------------------------------------------

\* The API server assigns a ClusterIP at creation; a LoadBalancer's
\* ingress comes later (live[j] > 0).
LiveReady(j, n) ==
    IF IsService(j)
    THEN Order[j].type # "LoadBalancer" \/ n > 0
    ELSE n > 0

\* serviceReady, evaluated on the Service object it is given.
ServiceReady(svc) ==
    \/ svc.type = "ExternalName"
    \/ /\ svc.clusterIP \in {"None", "ip"}
       /\ svc.type = "LoadBalancer" => svc.ingress

\* unstructured.NestedInt64(status.readyReplicas): a DaemonSet's status
\* has no readyReplicas (it counts numberReady), so it reads 0.
ReadyReplicasOf(j, n) == IF Order[j].kind = "DaemonSet" THEN 0 ELSE n

\* The wait for resource i ended with v after this poll.
Conclude(v) ==
    /\ verdict' = [verdict EXCEPT ![i] = v]
    /\ seen' = [seen EXCEPT ![i] = live[i]]
    /\ i' = i + 1
    /\ polls' = 0

\* One more try, or ErrWaitTimeout after the Steps-th.
Retry ==
    IF polls + 1 = Steps THEN Conclude("timeout")
    ELSE polls' = polls + 1 /\ UNCHANGED <<verdict, seen, i>>

\* Fault variant: the condition reads the object the chart applied, whose
\* status has no ready replicas, instead of getting it again.
PollWorkloadNoGet ==
    /\ phase = "endChart" /\ i <= N /\ IsWorkload(i)
    /\ IF i \in gone THEN Conclude("gone") ELSE Retry
    /\ UNCHANGED <<phase, live, gone, waitErrors, cleanupVars>>

\* waitForDeployment: the condition Gets the object; another error than
\* NotFound ends the backoff with that error, NotFound ends it as done,
\* else it is done when readyReplicas > 0.
PollWorkload ==
    /\ phase = "endChart" /\ i <= N /\ IsWorkload(i)
    /\ \/ /\ waitErrors < MaxWaitErrors
          /\ waitErrors' = waitErrors + 1
          /\ Conclude("error")
       \/ /\ i \in gone
          /\ Conclude("gone")
          /\ UNCHANGED waitErrors
       \/ /\ i \notin gone
          /\ IF ReadyReplicasOf(i, live[i]) > 0 THEN Conclude("ready") ELSE Retry
          /\ UNCHANGED waitErrors
    /\ UNCHANGED <<phase, live, gone, cleanupVars>>

\* waitForService: the object is type-asserted to *corev1.Service. The
\* operator applies *unstructured.Unstructured objects (ProcessObject,
\* rendering.go 229 and 257), for which the assertion fails and the wait
\* ends without a poll. A typed Service would be polled with serviceReady
\* of the object as applied, never read back from the API server.
PollService ==
    /\ phase = "endChart" /\ i <= N /\ IsService(i)
    /\ IF ~Order[i].typed THEN Conclude("skipped")
       ELSE IF ServiceReady(Order[i]) THEN Conclude("ready") ELSE Retry
    /\ UNCHANGED <<phase, live, gone, waitErrors, cleanupVars>>

\* EndChart returns nil once every wait has ended, whatever they ended with.
EndChart ==
    /\ phase = "endChart" /\ i > N
    /\ phase' = "installed"
    /\ UNCHANGED <<i, polls, verdict, live, gone, seen, waitErrors, cleanupVars>>

\* A later reconcile prunes the chart's Deployment: ResourceDeleted; the
\* Citadel customizer then starts cleanCitadelResources (pc = "list").
ResourceDeleted ==
    /\ phase = "installed"
    /\ phase' = "pruned"
    /\ gone' = gone \cup {j \in Idx : Order[j].kind = "Deployment"}
    /\ UNCHANGED <<i, polls, verdict, live, seen, waitErrors, cleanupVars>>

\* The steps of cleanCitadelResources, run by the Citadel customizer's
\* ResourceDeleted for the pruned Deployment.
Cleanup ==
    /\ phase = "pruned" /\ Customizer = "Citadel"
    /\ \/ C!List \/ C!DeleteConfigMap \/ C!EndPass
       \/ \E s \in Secrets : C!DeleteSecret(s)
    /\ UNCHANGED waitVars

\* The terminating Citadel pod writes its ConfigMap or a secret back.
CitadelTerminatingWrites ==
    /\ phase = "pruned" /\ ChartName = "Citadel"
    /\ \/ C!CitadelWritesConfigMap
       \/ \E s \in Secrets : C!CitadelWritesSecret(s)
    /\ UNCHANGED waitVars

-----------------------------------------------------------------------------
(* The API server and the workloads.                                      *)

\* The status of an object in the API server advances: a workload gets
\* one more ready pod, a LoadBalancer Service its ingress.
StatusAdvances(j) ==
    /\ j \notin gone
    /\ \/ IsWorkload(j) /\ live[j] < MaxReplicas
       \/ IsService(j) /\ Order[j].type = "LoadBalancer" /\ live[j] = 0
    /\ live' = [live EXCEPT ![j] = @ + 1]
    /\ UNCHANGED <<phase, i, polls, verdict, gone, seen, waitErrors, cleanupVars>>

WorkloadDeleted(j) ==
    /\ IsWorkload(j) /\ j \notin gone /\ phase # "pruned"
    /\ gone' = gone \cup {j}
    /\ UNCHANGED <<phase, i, polls, verdict, live, seen, waitErrors, cleanupVars>>

\* The running Citadel pod creates the istio-security ConfigMap and its
\* secrets.
CitadelRunningWrites ==
    /\ ChartName = "Citadel" /\ phase # "pruned"
    /\ \E j \in Idx : Order[j].kind = "Deployment" /\ j \notin gone /\ live[j] > 0
    /\ \/ cm' = TRUE /\ UNCHANGED secrets
       \/ \E s \in Secrets : secrets' = secrets \cup {s} /\ UNCHANGED cm
    /\ UNCHANGED <<listed, retryCount, todo, pc, result, transient, recreated,
                   rewritten, cmDeleted, waitVars>>

-----------------------------------------------------------------------------

Init ==
    /\ phase = "endChart"
    /\ i = 1
    /\ polls = 0
    /\ verdict = [j \in Idx |-> "none"]
    /\ live = [j \in Idx |-> 0]
    /\ gone = {}
    /\ seen = [j \in Idx |-> 0]
    /\ waitErrors = 0
    /\ cm = FALSE /\ secrets = {}
    /\ listed = {} /\ retryCount = 1 /\ todo = {} /\ pc = "list" /\ result = "none"
    /\ transient = 0 /\ recreated = 0 /\ rewritten = {} /\ cmDeleted = FALSE

\* The operator's reconcile goroutine: EndChart runs its waits in turn.
Reconcile == PollWorkload \/ PollService \/ EndChart

Next ==
    \/ Reconcile
    \/ ResourceDeleted
    \/ Cleanup
    \/ CitadelTerminatingWrites
    \/ \E j \in Idx : StatusAdvances(j) \/ WorkloadDeleted(j)
    \/ CitadelRunningWrites

\* The reconcile goroutine runs EndChart's waits and ResourceDeleted's
\* cleanup to their end; the API server, the workloads and the Citadel
\* pod are not obliged to act.
Spec == Init /\ [][Next]_vars /\ WF_vars(Reconcile) /\ WF_vars(Cleanup)

-----------------------------------------------------------------------------
(* Properties                                                            *)

TypeOK ==
    /\ phase \in {"endChart", "installed", "pruned"}
    /\ i \in 1..(N + 1) /\ polls \in 0..(Steps - 1)
    /\ verdict \in [Idx -> Verdicts]
    /\ live \in [Idx -> 0..MaxReplicas] /\ gone \subseteq Idx
    /\ waitErrors \in 0..MaxWaitErrors
    /\ C!TypeOK

\* A wait of EndChart gives up (ErrWaitTimeout) only on a resource that
\* was not ready in the API server when it was last polled: a workload
\* with no ready pod, a LoadBalancer Service without an ingress.
WaitTimesOutOnlyIfNotReady ==
    \A j \in Idx : verdict[j] = "timeout" => ~LiveReady(j, seen[j])

\* The chart's life completes: EndChart returns, every wait ending within
\* its Steps tries whatever the API server does; and once the Citadel
\* chart's Deployment is pruned, the customizer NewChartCustomizer chose
\* for it runs cleanCitadelResources to its return, its passes bounded
\* whatever the terminating pod writes back.
ChartLifecycleCompletes ==
    /\ <>(phase # "endChart")
    /\ (phase = "pruned" /\ ChartName = "Citadel") ~> pc = "done"

\* The cleanup after the Citadel Deployment is pruned: every listed
\* secret of a pruned type is gone when cleanCitadelResources returns nil
\* or the ConfigMap error, unless the pod wrote it back afterwards.
ListedSecretsRemoved == C!ListedSecretsRemoved
=============================================================================
