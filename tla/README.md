# TLA+ models of Istio's endpoint slice controller and its neighbours

This directory holds:

* TLA+ modules of the code under `src/`;
* the TLC configurations that check them;
* `PROJECT.json`, which lists the components, runs, mutants, the map from
  definitions to source lines, the findings and the hazards.

The centre of the project is Pilot's EndpointSlice controller
(`pilot/pkg/serviceregistry/kube/controller/endpointslice.go`), which
`spec.md` describes. Three operator components and the validation webhook
controller are modelled beside it. Paths below are relative to
`src/istio-refs/istio-refs/`.

## 1. The system and how its parts interact

| Part | Source | Module |
|---|---|---|
| Watch layer (informer, queue, workers) | outside `src/` (spec.md 1, 5, 6) | `EndpointSliceController` (environment actions) |
| Event handler `onEvent` / `updateEDS` and the EDS push | endpointslice.go 57-143 | `EndpointSliceController` |
| Endpoint builder (`newEndpointBuilder`, `getLocalityFromTopology`) | endpointslice.go 71-112, 266-288 | `EndpointSliceController` |
| Endpoint slice cache | endpointslice.go 290-322 | `EndpointSliceCache`, refining `SliceContributions` |
| Service instance queries (`GetProxyServiceInstances`, `InstancesByPort`) | endpointslice.go 145-264 | `EndpointSliceController` (operators) |
| Validation webhook controller | pkg/webhooks/validation/controller/controller.go | `WebhookController` |
| Helm reconciler object cache | operator/pkg/helmreconciler/rendering.go | `ObjectCache` |
| Chart customizers (`EndChart` waits, `cleanCitadelResources`) | operator/pkg/translate/translate_value.go 769-953 | `ChartCustomizer`, composing `CitadelCleanup` |
| Version compatibility and the `Version` type | operator/pkg/version/version.go | `VersionCompat`, using `VersionString` |

How the controller's parts interact:

* The watch layer queues one event per change of an EndpointSlice.
* A worker runs `onEvent`, which calls `updateEDS`.
* `updateEDS` builds the endpoints, then `Update`s the cache under its write
  lock. It then reads the merged view with `Get` under the read lock, and
  calls `EDSUpdate` with no lock held.
* spec.md 5 lets workers run in parallel, so the steps of two workers can
  interleave between `Update`, `Get` and `EDSUpdate`.
* The two queries read the informer's slices, not the cache. Yet they must
  agree with what the cache holds.

The other components:

* **Webhook controller.** One worker drains a rate-limited queue. Each
  request reconciles the webhook configuration: it chooses the failure
  policy (Fail only after a successful dry-run), loads the CA bundle and
  patches the configuration read from a lagging informer.
* **Object cache.** `ProcessManifest` keeps a per-CR cache of the objects it
  applied, guarded by a global map lock and a per-CR mutex.
  `FlushObjectCaches` replaces the map.
* **Chart customizers.** `EndChart` waits in turn for the chart's
  StatefulSets, Deployments, DaemonSets and Services, each with a bounded
  backoff. After the Citadel Deployment is pruned, `cleanCitadelResources`
  deletes its ConfigMap and secrets with retries.
* **Versions.** `GetVersionCompatibleMap` picks an entry of `versions.yaml`.
  `NewVersionFromString`, `Version.String`, `UnmarshalYAML`,
  `IsVersionString` and `TagToVersionString` convert versions to and from
  strings.

## 2. Modules

Each module has `Init`, one action per operation, `Next`, `Spec` and its
properties. Each `MC_` module gives model values and small sets to TLC.

### `EndpointSliceController`

Its state:

* the API server's slices (`world`) and the event `queue`;
* `servicesMap` (`services`) and the cache (`endpointsByServiceAndSlice`);
* per worker, `pc`, `task`, `eps` and `view`;
* the last view EDS received per hostname (`pushed`);
* the ghost `skipped`: slices whose last event found no Service;
* the pods `getPodByIP` resolves (`pods`): those of `PodIPs` minus the
  `LatePods`, which `PodArrived` adds later;
* the ghost `podLate`: slices listing the address of a pod that arrived
  after their last event was taken. Nothing re-runs such a slice (the TODO
  at line 88), so its entry keeps the old build: no record for a pod
  target, no locality for another address. `Settled(h, s)` excludes both
  ghosts, and the consistency properties are stated for settled slices.
  Without the `podLate` exclusion, `CacheReflectsWorld` and
  `InstancesByPortCoversCache` fail in the sequential run.

The handler takes four worker steps because the code has four separately
locked sections:

* `TakeEvent` (lines 57-112) is the Service lookup, the early return and
  the build.
* `CacheUpdate` is line 114.
* `CacheGet` and `Push` are the two halves of line 118: the argument is read
  under the read lock, then `EDSUpdate` runs without it.

`BuildEndpoints` keeps every branch of the build:

* the delete check;
* the readiness skip;
* the pod-less skip when `TargetRef` names a Pod;
* one record per address and port.

A record is `[addr, port, name, locality]`. The locality is that of
`newEndpointBuilder`: the pod's `istio-locality` label, else
`getLocalityFromTopology` of the endpoint's topology. A string is a
sequence of chunks, and "/" is a chunk of its own. A Go map is a function
whose DOMAIN is the keys present. `Get`'s random map order is a bag.

The queries are operators over `world`, the services and the pods:

* `InstancesByPort` matches slice ports by name (an unnamed port matches
  every service port) and selects pods by label. Like the update path, it
  builds through `newEndpointBuilder` (line 242), so its records carry the
  same locality.
* `GetProxyServiceInstances` builds with `NewEndpointBuilder` (line 174).
  Its locality comes from the pod's node (outside `src/`), so it is not
  compared.

### `EndpointSliceCache` and `SliceContributions`

`EndpointSliceCache` is the map of maps, with `Update` and `Get` as atomic
steps; the RWMutex makes each call one step. `SliceContributions` is what
the cache promises: each step replaces one slice's contribution. The
refinement mapping is `Contract == INSTANCE SliceContributions` over
`SliceEps`. The controller checks `Cache!Contract!Spec` as a PROPERTY.

### `WebhookController`

Its state:

* the queue, as counts of ready and delayed requests (requests are fresh
  pointers and carry nothing reconcile reads);
* the latched flags `endpointReadyOnce` and `dryRunOfInvalidConfigRejected`;
* the CA file and the Endpoints object;
* the configuration `cfg` and the informer's copy `cfgCache`.

Its actions:

* `ProcessNextWorkItem`: reconcile, with Forget, AddAfter and
  AddRateLimited;
* `DelayExpires` and `InformerSync`;
* the environment: the installer, the CA file, the server coming up or
  down, unregister mode.

### `ObjectCache`

Its state:

* the server's objects and their resourceVersions;
* `objectCaches[crName]` (`current`) and the allocated caches with their
  mutex owners;
* per loop, a program counter, the cache pointer taken, the manifest, the
  changed objects, the Get result and whether `errs` holds an error (the
  call then returns non-nil).

Its actions:

* `Begin`: the lookup under `objectCachesMu`;
* `Lock`: the per-CR mutex and the changed-object scan;
* `ProcessObjectGet`;
* `ProcessObjectWrite`: a Create of the manifest object, or an Update of the
  Get's receiver with the manifest overlaid (`ApplyOverlay`), which keeps
  the resourceVersion that was read;
* `Finish`: the prune and the unlock;
* `FlushObjectCaches`;
* `ExternalTouch`: another writer bumps a resourceVersion.

Fairness: a loop's steps are weakly fair once it has started, and its `Lock`
is strongly fair. `sync.Mutex` switches to starvation mode and hands the
lock to a waiter blocked for over a millisecond. Starting, flushing and
other writers are not fair.

### `ChartCustomizer` and `CitadelCleanup`

`ChartCustomizer` waits over `Order`: the created objects grouped by kind
as `waitForResources` groups them.

* `PollWorkload`: a Get error, NotFound, or `readyReplicas > 0`. A
  DaemonSet's status has no `readyReplicas` field.
* `PollService`: the `*corev1.Service` type assertion, then `serviceReady`
  of the applied object. The operator applies `*unstructured.Unstructured`
  objects (rendering.go 229, 257), so the assertion fails and the wait
  ends at once (verdict `skipped`); the MC module's objects are all
  untyped. Both polls count against `Steps` tries.
* `EndChart`, then `ResourceDeleted`.
* `Cleanup` steps `CitadelCleanup`, which is composed by `INSTANCE`. It is
  enabled only when `NewChartCustomizer(ChartName)`, the factory's switch on
  the chart name, chose the Citadel customizer. The Kiali and default
  customizers do not override `ResourceDeleted`.

The environment makes pods ready, assigns LoadBalancer ingresses, deletes
workloads, and has the Citadel pod write its ConfigMap and secrets, before
the prune and while it terminates (`CitadelTerminatingWrites`).

`CitadelCleanup` models `cleanCitadelResources`: the list, the ConfigMap
and secret deletes, the pass retry loop, and transient errors.

### `VersionCompat` and `VersionString`

`VersionString` holds pure operators over token strings:

* `Split`, `Join`, `GoNewVersion`, `GoNewSemver`;
* `NewVersionFromString`, whose fields are `% 2^Width`;
* `VersionString`, `VersionUnmarshalYAML`, `IsVersionString`;
* `TagToVersionString`.

A token is a number, a word, or `Dot` / `Dash` / `V` / `Release`.

`VersionCompat` has three calls, each taken once with its inputs chosen by
`\E`:

* `GetVersionCompatibleMap`, with `LoadCompatibleMapFile`, `Decode` by
  `UnmarshalYAML`, and the selection loop as the RECURSIVE `Scan`;
* `ReadBackVersion`;
* `ConvertTag`.

## 3. Runs

| Run | cfg | Expect | What it shows | Distinct states |
|---|---|---|---|---|
| sequential | ESC_Sequential | pass | With one worker, once the events are handled, the cache reflects the API server and EDS holds the cache's view. Both queries find every cached endpoint of a matching port. Every record's locality follows spec.md 4. All of these hold for the slices not waiting on a late pod or Service. The cache refines its contract. | 178,516 |
| parallel_stale_push | ESC_ParallelStalePush | violation | With two workers, a view read before another worker's Update is pushed last. | 346,359 |
| locality_missing_region | ESC_LocalityNoRegion | violation | A zone without a region gives "/z1"; spec.md 4 gives "z1". | 150 |
| webhook | WH_Controller | pass | Fail is only written after the proof; the configuration converges; unregister deletes it. | 52,314 |
| webhook_unregister_retries | WH_UnregisterRetries | violation | A NotFound from Delete is retried forever. | 36,804 |
| object_cache_two_loops | OC_TwoLoops | pass | Without flushes, the cache matches the server, a call that returns nil has applied its whole manifest although the other loop applies other manifests, and every ProcessManifest call returns. | 876,783 |
| object_cache_flush | OC_FlushOneLoop | pass | With one loop, flushes, failed writes and other writers, a call that returns nil has applied its whole manifest, cache hits included. | 35,110 |
| object_cache_flush_race | OC_FlushRace | violation | A flush while one loop holds the CR's mutex lets a second loop lock a new cache for the same CR; the new cache holds a stale copy. | 104,950 |
| citadel_chart | CH_Citadel | pass | Every wait ends within its tries and times out only on a resource that is not ready. After the prune, the customizer the factory chose runs the cleanup to its return, and the cleanup removes the listed secrets. | 50,502 |
| citadel_configmap_error | CC_ConfigMapError | violation | A cleanup that deleted the ConfigMap on one pass reports the NotFound of a later pass as a ConfigMap error. | 1,736 |
| version_reference | VC_Reference | pass | The lookup agrees with the reference order for every table of up to 3 entries. Versions read back from their String. A release tag converts to its major.minor.patch. | 469,930 |

Every property of a passing run has a mutant in `PROJECT.json`: a plausible
bug in the mapped code that TLC catches under the run's own configuration.

### Bounds

* **Endpoint slices.** One hostname, two slices, two addresses and four
  events. a1's pod exists from the start; a2's pod arrives later. The three
  slice objects cover the unready, the pod-less (with and without a Pod
  reference, before a2's pod arrives) and the ready branch. Their
  topologies cover all three keys, the region only, and none. Four events
  let a slice be added, updated and deleted, or two slices race.
* **Webhook.** At most 3 environment changes and 4 pending requests; the
  constraint is `StateConstraint`. The bound on pending requests is needed:
  the code lets them multiply (see the observations), and without it TLC
  does not finish. A state constraint cuts behaviours off, so the two
  liveness properties of the `webhook` run are checked only over the
  behaviours that never hold more than 4 requests at once.
* **Object cache.** Two keys, two versions, two loops, two runs per loop,
  one or two flushes.
* **Chart customizers.** `Steps = 3` (so both a retry and the timeout
  happen), two replicas, one Get error, and three passes of the cleanup.
* **Versions.** Width 4 bits, which holds 0, 1 and the largest field value.
  Pre-releases have up to 3 tokens.

### Fairness

* **EndpointSlice workers.** They loop on the queue for the life of the
  process: weak fairness on `Worker(w)`.
* **Webhook.** `runWorker`, the queue's delays and the informer:
  `ProcessNextWorkItem`, `DelayExpires` and `InformerSync` are weakly fair.
* **Object cache.** WF on each started loop's Get, Write and Finish; SF on
  its `Lock` (Go's mutex starvation mode).
* **Chart customizers.** `EndChart` and `ResourceDeleted` run their waits
  and the cleanup synchronously in the reconcile goroutine: WF on
  `Reconcile` and on `Cleanup`.
* The environment is never fair in any module.

### Findings

Each violation run is a finding in `PROJECT.json`:

* **endpointslice.go:118.** The push after the lock can leave EDS behind
  with parallel workers.
* **endpointslice.go:281.** `getLocalityFromTopology` starts with the
  region value even when the key is missing, and adds "/" before a present
  zone or subzone. So a zone without a region gives "/zone", and an empty
  zone gives "region/". spec.md 4 says missing fields are omitted without
  stray separators.
* **controller.go:462.** A NotFound from Delete in unregister mode is
  retried without end.
* **rendering.go:195.** The per-CR mutex lives in the cache that
  `FlushObjectCaches` drops. A flush while one loop holds it lets a second
  loop create and lock a new cache for the same CR, which breaks "one
  control loop per CR".
* **translate_value.go:939.** Once a pass has deleted the ConfigMap, the
  next pass's Delete is NotFound, and the last pass returns it as "error
  deleting ConfigMap". `ConfigMapErrorIsReal` uses the ghost `cmDeleted`,
  so the trace shows a delete that succeeded before the error.

### Observations (not findings)

* **Late pods.** An address whose pod is not yet in the pod cache gets no
  record when its endpoint names a Pod target, and no locality otherwise.
  Nothing rebuilds the slice when the pod arrives (endpointslice.go 88,
  TODO), so the entry is stale until the slice's next event. spec.md 4.3
  calls the skip a soft degradation. The model shows the staleness:
  without the `podLate` exclusion, the sequential run fails.
* **Empty cache entries.** `Update` with an empty list deletes the entry
  and then stores the empty list back (endpointslice.go 305-311). spec.md
  4.2 and P2 say that no dangling empty entry may remain, so the code
  diverges from the spec here. Readers of `Get` cannot see the entry; the
  refinement to `SliceContributions` checks that. The map still keeps one
  entry per slice ever seen. `EndpointSliceCache` keeps the map's domain,
  so the entry is visible in every trace, but no run states the memory
  bound.
* **Webhook retry chains.** Until a dry-run is rejected, every reconcile
  queues a fresh `AddAfter` request (controller.go 386) and goes on to
  update the configuration. An Update error also re-queues the original
  request, so one request becomes two. Requests are distinct pointers, so
  the work queue never merges them. Each event that arrives before the
  switch to fail-close therefore adds a retry chain that lasts until the
  switch. This is the growth that `StateConstraint` bounds (see Bounds).
* **Webhook flags.** `endpointReadyOnce` and `dryRunOfInvalidConfigRejected`
  are never reset. A configuration that the installer re-applies fail-open
  is switched to Fail without a new dry-run, even while the webhook server
  is down. `FailCloseAfterProof` checks that Fail follows one successful
  proof; the latching itself is the code's choice.
* **DaemonSets.** A DaemonSet has no `readyReplicas`, so its wait always
  times out (translate_value.go 862).
* **Services are not waited for.** `waitForService` type-asserts the
  object to `*corev1.Service`; the objects the operator applies are
  unstructured, so the assertion fails and `EndChart` returns before a
  LoadBalancer Service has an ingress (translate_value.go 825-826). No
  comment or spec says `EndChart` waits for Services (line 769 names
  deployments and stateful sets), so this is not stated as a finding.
* **Version strings.** `NewVersionFromString` keeps 3 segments, truncates
  each to uint32, and takes the suffix from the first "-". Strings outside
  `Version.String`'s form do not read back.

## 4. Not modelled, and why

* **Helm rendering, the reverse values translator, profile merging.** These
  are YAML and template rewriting (spec.md 1 puts them out of scope).
  `applyOverlay` is modelled only by what the Update sends.
* **The status updater of the chart customizers.** `BeginReconcile` and
  `EndReconcile` each Get the CR and `Status().Update` it. What a failed
  update leads to (a retry, a status left RECONCILING) is decided by
  `HelmReconciler.Reconcile`, which is not in `src/`.
* **`CompatibilityMapping.MarshalYAML`.** It writes fields the model does
  not carry.
* **The REST client, the gateway store, the filter chain builder and the
  GCP metadata.** These are wrappers around external calls.
* **The virtual service analyzer.** Its control is small: look a host up
  by namespace scope, then by the all-namespaces scope, then by wildcard
  suffix; then check the port. But every key it compares comes from
  helpers outside `src/` (`util.NewScopedFqdn`, `ConvertHostToFQDN`,
  `GetScopeAndFqdn`), and so do the destinations (`getRouteDestinations`).
  spec.md says nothing about any of them. A model would have to guess how
  hosts are expanded and scoped, so none is written. Its map-order hazard
  is listed in `PROJECT.json`.
* **Pod deletion.** Pods only arrive. A pod that goes away while a slice
  still lists it is left out; slice updates normally follow it.
* **Tests and CLI wiring.** They have no behaviour of their own.
