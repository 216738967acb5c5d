-------------------------- MODULE WebhookController --------------------------
(***************************************************************************)
(* The validation webhook controller (pkg/webhooks/validation/controller/ *)
(* controller.go). One worker goroutine drains a rate-limited work queue; *)
(* every request runs reconcileRequest, which decides the failure policy  *)
(* (Ignore until the service endpoint has been ready once and a dry-run   *)
(* create of an invalid Gateway has been rejected, Fail after), loads and *)
(* verifies the CA bundle file and patches the webhook configuration read *)
(* from the informer cache. Requests come from the two informers (the     *)
(* webhook configuration and the service's Endpoints), from the CA file   *)
(* watcher, from the worker itself (AddAfter, AddRateLimited) and from    *)
(* Start.                                                                  *)
(*                                                                         *)
(* Requests are fresh pointers, so the queue never merges two of them and *)
(* carries no data reconcile looks at: the queue is a count of ready      *)
(* requests and a count of requests waiting on a delay.                    *)
(*                                                                         *)
(* The API server holds the configuration cfg; the informer cache holds   *)
(* cfgCache, a copy that lags until the informer syncs. An Update whose   *)
(* object was read from a stale copy fails with Conflict (the resource    *)
(* version no longer matches). A configuration is Absent or one webhook   *)
(* [ca, policy]; the Endpoints object is Absent or its list of subsets,   *)
(* each given by its number of ready addresses.                           *)
(***************************************************************************)
EXTENDS Naturals, Sequences

CONSTANTS
    CAs,         \* possible contents of the CA bundle file
    ValidCAs,    \* contents that decode as a PEM CERTIFICATE and parse as x509
    Unreadable,  \* the CA file cannot be read
    Endpoints,   \* Endpoints objects the service may have (sequences of subsets)
    Absent,      \* no object of that name in the API server
    MaxEnv       \* bound on the changes the environment makes

ASSUME ValidCAs \subseteq CAs /\ MaxEnv \in Nat

Config == [ca : CAs, policy : {"Ignore", "Fail"}]

VARIABLES
    cfg,          \* the ValidatingWebhookConfiguration in the API server
    cfgCache,     \* its copy in the informer's lister
    cfgStale,     \* the API server's object changed since the copy was taken
    endpoint,     \* the service's Endpoints object (informer kept in sync)
    caFile,       \* contents of Options.CAPath
    serverUp,     \* the webhook server answers admission requests
    endpointReadyOnce,
    dryRunOfInvalidConfigRejected,
    queue,        \* requests ready to be taken by the worker
    delayed,      \* requests added with AddAfter or AddRateLimited, not yet due
    env,          \* environment changes so far (bounded by MaxEnv)
    unregister    \* Options.UnregisterValidationWebhook, fixed at startup

vars == <<cfg, cfgCache, cfgStale, endpoint, caFile, serverUp,
          endpointReadyOnce, dryRunOfInvalidConfigRejected, queue, delayed, env,
          unregister>>

ctl == <<endpointReadyOnce, dryRunOfInvalidConfigRejected>>

-----------------------------------------------------------------------------
(* What the reconcile reads.                                              *)

\* isEndpointReady(endpoint): some subset has an address. The lister's
\* Get on an absent object is NotFound: not ready, no error.
IsEndpointReady ==
    /\ endpoint # Absent
    /\ \E i \in 1..Len(endpoint) : endpoint[i] > 0

\* isDryRunOfInvalidConfigRejected: the API server calls the webhook for
\* the dry-run create only when the configuration exists in the server;
\* the call reaches the webhook server only if it is up and serves a
\* certificate of the bundle in the configuration; only then is the error
\* the "denied the request" message.
DryRunRejected ==
    /\ cfg # Absent
    /\ serverUp
    /\ caFile \in ValidCAs
    /\ cfg.ca = caFile

\* loadCABundle and verifyCABundle: the file's contents, or an error.
CABundleLoads == caFile \in ValidCAs

-----------------------------------------------------------------------------
(* reconcileRequest and the helpers it calls. Each helper is an operator *)
(* of the pre-state giving the step's outcome; Reconcile composes them.   *)

\* Fault variant: an unconfirmed dry-run is not retried.
ReadyForFailCloseNoRetry ==
    IF ~endpointReadyOnce /\ ~IsEndpointReady
    THEN [ready |-> FALSE, once |-> FALSE, rejected |-> FALSE, retry |-> 0]
    ELSE IF ~dryRunOfInvalidConfigRejected /\ ~DryRunRejected
    THEN [ready |-> FALSE, once |-> TRUE, rejected |-> FALSE, retry |-> 0]
    ELSE [ready |-> TRUE, once |-> TRUE, rejected |-> TRUE, retry |-> 0]

\* Fault variant: switches to fail-close without the dry-run.
ReadyForFailCloseNoDryRun ==
    IF ~endpointReadyOnce /\ ~IsEndpointReady
    THEN [ready |-> FALSE, once |-> FALSE, rejected |-> FALSE, retry |-> 0]
    ELSE [ready |-> TRUE, once |-> TRUE, rejected |-> dryRunOfInvalidConfigRejected, retry |-> 0]

\* readyForFailClose: [ready, readyOnce', rejected', retry] where retry
\* is the AddAfter(req, time.Second) of an unconfirmed dry-run.
ReadyForFailClose ==
    IF ~endpointReadyOnce /\ ~IsEndpointReady
    THEN [ready |-> FALSE, once |-> FALSE, rejected |-> FALSE, retry |-> 0]
    ELSE IF ~dryRunOfInvalidConfigRejected /\ ~DryRunRejected
    THEN [ready |-> FALSE, once |-> TRUE, rejected |-> FALSE, retry |-> 1]
    ELSE [ready |-> TRUE, once |-> TRUE, rejected |-> TRUE, retry |-> 0]

\* updateValidatingWebhookConfiguration(caBundle, policy): the object is
\* read from the lister; NotFound returns nil; an object that already has
\* the bundle and the policy is left alone; otherwise Update, which fails
\* with Conflict when the copy is stale. [cfg', err].
UpdateValidatingWebhookConfiguration(ca, policy) ==
    LET updated == [ca |-> ca, policy |-> policy] IN
    IF cfgCache = Absent \/ updated = cfgCache
    THEN [cfg |-> cfg, err |-> FALSE]
    ELSE IF cfgStale
    THEN [cfg |-> cfg, err |-> TRUE]
    ELSE [cfg |-> updated, err |-> FALSE]

\* deleteValidatingWebhookConfiguration: Delete in the API server; an
\* object that is already gone is a NotFound error, returned as is.
DeleteValidatingWebhookConfiguration ==
    IF cfg = Absent
    THEN [cfg |-> cfg, err |-> TRUE]
    ELSE [cfg |-> Absent, err |-> FALSE]

\* Fault variant: the error of loadCABundle is ignored and the file's
\* contents, whatever they are, are written as the bundle.
ReconcileIgnoresLoadError ==
    LET r == ReadyForFailClose
        policy == IF r.ready THEN "Fail" ELSE "Ignore"
        u == UpdateValidatingWebhookConfiguration(caFile, policy)
    IN [once |-> r.once, rejected |-> r.rejected, retry |-> r.retry,
        cfg |-> u.cfg, err |-> u.err]

\* Fault variant: the UnregisterValidationWebhook option is not checked.
ReconcileIgnoresUnregister ==
    LET r == ReadyForFailClose
        policy == IF r.ready THEN "Fail" ELSE "Ignore"
        u == IF ~CABundleLoads THEN [cfg |-> cfg, err |-> FALSE]
             ELSE UpdateValidatingWebhookConfiguration(caFile, policy)
    IN [once |-> r.once, rejected |-> r.rejected, retry |-> r.retry,
        cfg |-> u.cfg, err |-> u.err]

\* reconcileRequest: delete in unregister mode; else readiness, CA bundle
\* (a bundle that does not load ends the request with nil: "no point in
\* retrying unless cert file changes"), then the update.
Reconcile ==
    IF unregister
    THEN LET d == DeleteValidatingWebhookConfiguration IN
         [once |-> endpointReadyOnce, rejected |-> dryRunOfInvalidConfigRejected,
          retry |-> 0, cfg |-> d.cfg, err |-> d.err]
    ELSE LET r == ReadyForFailClose
             policy == IF r.ready THEN "Fail" ELSE "Ignore"
             u == IF ~CABundleLoads THEN [cfg |-> cfg, err |-> FALSE]
                  ELSE UpdateValidatingWebhookConfiguration(caFile, policy)
         IN [once |-> r.once, rejected |-> r.rejected, retry |-> r.retry,
             cfg |-> u.cfg, err |-> u.err]

-----------------------------------------------------------------------------
(* The worker.                                                            *)

\* processNextWorkItem: take a request and reconcile it; an error puts it
\* back with AddRateLimited, success Forgets it. A write to the API server
\* leaves the informer's copy stale until it syncs.
ProcessNextWorkItem ==
    /\ queue > 0
    /\ LET r == Reconcile IN
       /\ endpointReadyOnce' = r.once
       /\ dryRunOfInvalidConfigRejected' = r.rejected
       /\ cfg' = r.cfg
       /\ cfgStale' = (cfgStale \/ r.cfg # cfg)
       /\ queue' = queue - 1
       /\ delayed' = delayed + r.retry + (IF r.err THEN 1 ELSE 0)
    /\ UNCHANGED <<cfgCache, endpoint, caFile, serverUp, env, unregister>>

\* A delay (AddAfter's second, the rate limiter's backoff) runs out.
DelayExpires ==
    /\ delayed > 0
    /\ delayed' = delayed - 1
    /\ queue' = queue + 1
    /\ UNCHANGED <<cfg, cfgCache, cfgStale, endpoint, caFile, serverUp, ctl, env,
                   unregister>>

\* The webhook configuration informer catches up with the API server and
\* its handler (makeHandler: the resource version changed) queues a request.
InformerSync ==
    /\ cfgStale
    /\ cfgCache' = cfg
    /\ cfgStale' = FALSE
    /\ queue' = queue + 1
    /\ UNCHANGED <<cfg, endpoint, caFile, serverUp, ctl, delayed, env, unregister>>

-----------------------------------------------------------------------------
(* The environment: at most MaxEnv changes.                               *)

\* The service's Endpoints object changes; the informer's handler queues
\* a request.
EndpointChanges(e) ==
    /\ env < MaxEnv /\ e # endpoint
    /\ endpoint' = e
    /\ queue' = queue + 1
    /\ env' = env + 1
    /\ UNCHANGED <<cfg, cfgCache, cfgStale, caFile, serverUp, ctl, delayed, unregister>>

\* The CA bundle file is rewritten; startFileWatcher queues a request.
CAFileChanges(c) ==
    /\ env < MaxEnv /\ c # caFile
    /\ caFile' = c
    /\ queue' = queue + 1
    /\ env' = env + 1
    /\ UNCHANGED <<cfg, cfgCache, cfgStale, endpoint, serverUp, ctl, delayed,
                   unregister>>

\* The webhook server stops or starts answering.
ServerToggles ==
    /\ env < MaxEnv
    /\ serverUp' = ~serverUp
    /\ env' = env + 1
    /\ UNCHANGED <<cfg, cfgCache, cfgStale, endpoint, caFile, ctl, queue, delayed,
                   unregister>>

\* The installer applies the configuration template (fail-open, with
\* whatever bundle the template holds) or deletes it.
InstallerApplies(c) ==
    /\ env < MaxEnv
    /\ cfg' = [ca |-> c, policy |-> "Ignore"]
    /\ cfgStale' = TRUE
    /\ env' = env + 1
    /\ UNCHANGED <<cfgCache, endpoint, caFile, serverUp, ctl, queue, delayed,
                   unregister>>

InstallerDeletes ==
    /\ env < MaxEnv /\ cfg # Absent
    /\ cfg' = Absent
    /\ cfgStale' = TRUE
    /\ env' = env + 1
    /\ UNCHANGED <<cfgCache, endpoint, caFile, serverUp, ctl, queue, delayed,
                   unregister>>

-----------------------------------------------------------------------------

\* newController and Start: caches synced, the flags false, the initial
\* "kickstart reconciliation" request queued.
Init ==
    /\ cfg \in {Absent} \cup [ca : CAs, policy : {"Ignore"}]
    /\ cfgCache = cfg
    /\ cfgStale = FALSE
    /\ endpoint \in {Absent} \cup Endpoints
    /\ caFile \in CAs \cup {Unreadable}
    /\ serverUp \in BOOLEAN
    /\ endpointReadyOnce = FALSE
    /\ dryRunOfInvalidConfigRejected = FALSE
    /\ queue = 1
    /\ delayed = 0
    /\ env = 0
    /\ unregister \in BOOLEAN

Environment ==
    \/ \E e \in {Absent} \cup Endpoints : EndpointChanges(e)
    \/ \E c \in CAs \cup {Unreadable} : CAFileChanges(c)
    \/ ServerToggles
    \/ \E c \in CAs : InstallerApplies(c)
    \/ InstallerDeletes

Next ==
    \/ ProcessNextWorkItem
    \/ DelayExpires
    \/ InformerSync
    \/ Environment

\* runWorker loops for the life of the process, the work queue's delays
\* run out and the informer keeps watching: each is weakly fair. The
\* environment is not.
Fairness ==
    /\ WF_vars(ProcessNextWorkItem)
    /\ WF_vars(DelayExpires)
    /\ WF_vars(InformerSync)

Spec == Init /\ [][Next]_vars /\ Fairness

-----------------------------------------------------------------------------
(* Properties                                                            *)

TypeOK ==
    /\ cfg \in {Absent} \cup Config
    /\ cfgCache \in {Absent} \cup Config
    /\ cfgStale \in BOOLEAN
    /\ endpoint \in {Absent} \cup Endpoints
    /\ caFile \in CAs \cup {Unreadable}
    /\ serverUp \in BOOLEAN
    /\ endpointReadyOnce \in BOOLEAN
    /\ dryRunOfInvalidConfigRejected \in BOOLEAN
    /\ queue \in Nat /\ delayed \in Nat
    /\ env \in 0..MaxEnv
    /\ unregister \in BOOLEAN

\* The configuration in the API server is fail-closed only once this
\* controller has seen the service endpoint ready and a dry-run of an
\* invalid config rejected (readyForFailClose, lines 367-394), whatever
\* the installer, the informer lag and the conflicts did in between.
FailCloseAfterProof ==
    cfg # Absent /\ cfg.policy = "Fail"
      => endpointReadyOnce /\ dryRunOfInvalidConfigRejected

\* Outside unregister mode, once the environment stops changing, the
\* configuration (when it
\* exists and the CA file holds a valid bundle) eventually carries that
\* bundle for good, and is fail-closed when the server is up and the
\* endpoint ready: the requests dropped without retry (endpoint not
\* ready, CA not loadable, config not in the lister) are all covered by a
\* later informer or file-watcher event.
EventuallyReconciled ==
    ~unregister => <>[](cfg # Absent /\ caFile \in ValidCAs =>
           /\ cfg.ca = caFile
           /\ serverUp /\ IsEndpointReady => cfg.policy = "Fail")

\* In unregister mode the configuration is eventually gone for good.
UnregisterRemovesConfig == unregister => <>[](cfg = Absent)

\* In unregister mode, once the environment stops changing, the work queue
\* eventually drains: once the configuration is deleted a request is
\* Forgotten, not retried forever. (Outside unregister mode the queue may
\* retry readyForFailClose for as long as the dry-run cannot succeed.)
QueueDrains == unregister => <>[](queue = 0 /\ delayed = 0)
=============================================================================
