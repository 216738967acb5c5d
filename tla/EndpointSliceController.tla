----------------------- MODULE EndpointSliceController -----------------------
(***************************************************************************)
(* endpointSliceController (pilot/.../controller/endpointslice.go) fed by *)
(* the Kubernetes watch layer and feeding the EDS updater.                *)
(*                                                                         *)
(*  - the watch layer (spec.md 1, 6: outside src/) adds, updates and      *)
(*    deletes EndpointSlice objects and queues one event per change;      *)
(*  - Service metadata (spec.md 3) appears for a hostname at some point;  *)
(*  - a pod created late enters the pod cache getPodByIP reads;           *)
(*  - workers (spec.md 5: parallel, no global sequencer) take events off  *)
(*    the queue and run onEvent/updateEDS: look the service up, build the *)
(*    endpoint list, Update the cache, Get the merged view, EDSUpdate it. *)
(*    Update, Get and EDSUpdate are three separate steps: each Go call    *)
(*    takes and releases its own lock, or none.                           *)
(*                                                                         *)
(* A slice object is a record [eps |-> <<endpoint, ...>>, ports |-> <<port, ...>>], *)
(* an endpoint [addrs |-> <<address, ...>>, ready |-> "true"|"false"|"unset", *)
(* podRef |-> BOOLEAN, topo |-> topology] (podRef: TargetRef.Kind =      *)
(* "Pod"; topology: [region, zone, subzone], NULL for a missing key), a  *)
(* slice port [name, port] with NULL for a nil pointer, an IstioEndpoint *)
(* the record [addr, port, name, locality] (a nil port number is 0, a    *)
(* nil name ""). A string is a sequence of chunks: "" is <<>>, "/" a     *)
(* chunk of its own. The two service-instance queries (lines 145-264)    *)
(* are operators over the informer's slices, the services and the pods.  *)
(***************************************************************************)
EXTENDS Naturals, Sequences, Bags, SequencesExt, Functions

CONSTANTS
    Hosts,      \* service hostnames
    Slices,     \* EndpointSlice names
    Addrs,      \* endpoint IP addresses
    PortNames,  \* port names
    PortNums,   \* port numbers
    SvcPorts,   \* SvcPorts[h]: the Service's ports, [name, port] records
    PodIPs,     \* the addresses of the pods that exist or will
    LatePods,   \* those whose pod is created after the watch started
    PodLabels,  \* PodLabels[a]: the labels of the pod at a
    PodLocality, \* PodLocality[a]: the pod's istio-locality label (<<>>: none)
    Selectors,  \* label collections a by-port query may be given
    Objects,    \* the EndpointSlice objects the watch layer may deliver
    Workers,    \* goroutines processing the event queue
    MaxEvents,  \* bound on the number of watch events in a behaviour
    NULL

ASSUME PodIPs \subseteq Addrs /\ LatePods \subseteq PodIPs /\ Workers # {} /\ MaxEvents \in Nat

Rec == [addr : Addrs, port : PortNums \cup {0}, name : PortNames \cup {""},
        locality : Seq(STRING)]

VARIABLES
    world,      \* world[h][s]: the slice object in the API server, or NULL
    queue,      \* events delivered by the watch layer, not yet taken
    sent,       \* number of events delivered so far (bounded by MaxEvents)
    services,   \* hostnames whose Service is in servicesMap
    endpointsByServiceAndSlice,  \* the endpointSliceCache
    pc,         \* pc[w]: where worker w is in updateEDS
    task,       \* task[w]: the event worker w is processing
    eps,        \* eps[w]: the endpoints worker w built
    view,       \* view[w]: the merged view worker w read with Get
    pushed,     \* pushed[h]: the last view handed to EDSUpdate for h
    skipped,    \* (h, s) whose last taken event found no service (ghost)
    pods,       \* the addresses getPodByIP resolves to a pod now
    podLate     \* (h, s) a pod of whose addresses appeared after its
                \* last event was taken (ghost)

vars == <<world, queue, sent, services, endpointsByServiceAndSlice,
          pc, task, eps, view, pushed, skipped, pods, podLate>>

Cache == INSTANCE EndpointSliceCache

\* A label value as a string: the empty value is no chunk.
Chunk(v) == IF v = "" THEN <<>> ELSE <<v>>

\* Fault variant: the zone is written before the region.
GetLocalityFromTopologyZoneFirst(t) ==
    LET zone == IF t.zone = NULL THEN <<>> ELSE Chunk(t.zone)
        withRegion == IF t.region = NULL THEN zone ELSE zone \o <<"/">> \o Chunk(t.region)
    IN IF t.subzone = NULL THEN withRegion ELSE withRegion \o <<"/">> \o Chunk(t.subzone)

\* getLocalityFromTopology: the region label's value (empty when the key
\* is missing), then "/" and the zone when the zone key is present, then
\* "/" and the subzone when that key is present.
GetLocalityFromTopology(t) ==
    LET region == IF t.region = NULL THEN <<>> ELSE Chunk(t.region)
        withZone == IF t.zone = NULL THEN region ELSE region \o <<"/">> \o Chunk(t.zone)
    IN IF t.subzone = NULL THEN withZone ELSE withZone \o <<"/">> \o Chunk(t.subzone)

\* newEndpointBuilder: a pod without an istio-locality label gets one from
\* the endpoint's topology, and NewEndpointBuilder takes the pod's label;
\* without a pod NewEndpointBuilder (outside src/) sets no locality.
BuilderLocality(e, a) ==
    IF a \notin pods THEN <<>>
    ELSE IF PodLocality[a] # <<>> THEN PodLocality[a]
    ELSE GetLocalityFromTopology(e.topo)

\* The dereferenced *port.Port and *port.Name of a slice port, or the zero
\* value when the pointer is nil.
PortNum(p) == IF p.port = NULL THEN 0 ELSE p.port
PortName(p) == IF p.name = NULL THEN "" ELSE p.name

Event == [kind : {"add", "update", "delete"}, h : Hosts, s : Slices, obj : Objects]


-----------------------------------------------------------------------------
(* updateEDS, lines 71-112: the endpoint list a non-delete event builds. *)

\* Fault variant: the record takes the port's index instead of the port.
AddrRecordsPortIndex(e, a, ports) ==
    IF a \notin pods /\ e.podRef
    THEN <<>>
    ELSE [k \in 1..Len(ports) |-> [addr |-> a, port |-> k, name |-> PortName(ports[k]),
                                   locality |-> BuilderLocality(e, a)]]

\* One address: no records when it has no pod but the endpoint claims a
\* pod target; otherwise one record per slice port, in port order.
AddrRecords(e, a, ports) ==
    IF a \notin pods /\ e.podRef
    THEN <<>>
    ELSE [k \in 1..Len(ports) |->
            [addr |-> a, port |-> PortNum(ports[k]), name |-> PortName(ports[k]),
             locality |-> BuilderLocality(e, a)]]

\* One endpoint: skipped when Conditions.Ready is set to false.
EndpointRecords(e, ports) ==
    IF e.ready = "false"
    THEN <<>>
    ELSE FlattenSeq([j \in 1..Len(e.addrs) |-> AddrRecords(e, e.addrs[j], ports)])

\* Fault variant: the event != model.EventDelete check is missing.
BuildEndpointsOnDelete(ev) ==
    FlattenSeq([i \in 1..Len(ev.obj.eps) |->
                  EndpointRecords(ev.obj.eps[i], ev.obj.ports)])

BuildEndpoints(ev) ==
    IF ev.kind = "delete"
    THEN <<>>
    ELSE FlattenSeq([i \in 1..Len(ev.obj.eps) |->
                       EndpointRecords(ev.obj.eps[i], ev.obj.ports)])

-----------------------------------------------------------------------------
(* The service-instance queries, lines 145-264: pure reads of the         *)
(* informer's slices (world), servicesMap and the pods. Their results are *)
(* sets: the lister's order is that of a map.                              *)

\* getPodByIP(a).Labels, nil when no pod has the address.
LabelsOf(a) == IF a \in pods THEN PodLabels[a] ELSE {}

\* labels.Collection.HasSubsetOf: an empty collection selects everything,
\* else one of its instances is contained in the labels (an empty
\* instance is contained in any).
HasSubsetOf(coll, l) == coll = {} \/ \E i \in coll : i \subseteq l

\* The addresses of every endpoint of a slice object, ready or not.
SliceAddrs(o) == UNION {Range(o.eps[i].addrs) : i \in DOMAIN o.eps}

\* The slices the lister returns for a hostname.
Listed(h) == {s \in Slices : world[h][s] # NULL}

\* Fault variant: the service port is looked up by the slice port's number.
ProxyInstancesOfSliceByNumber(h, s, ips) ==
    LET o == world[h][s] IN
    IF h \notin services THEN {}
    ELSE UNION {{[addr |-> ip, port |-> p.port, name |-> sp.name] :
                   ip \in ips \cap SliceAddrs(o),
                   sp \in {q \in SvcPorts[h] : q.port = p.port}} :
                p \in {q \in Range(o.ports) : q.name # NULL /\ q.port # NULL}}

\* proxyServiceInstances (lines 160-207): nothing when the slice's service
\* is not in servicesMap; a slice port without name or number is skipped,
\* and one whose name the Service has not; otherwise one instance per
\* proxy address that is an address of any endpoint of the slice.
ProxyInstancesOfSlice(h, s, ips) ==
    LET o == world[h][s] IN
    IF h \notin services THEN {}
    ELSE UNION {{[addr |-> ip, port |-> p.port, name |-> sp.name] :
                   ip \in ips \cap SliceAddrs(o),
                   sp \in {q \in SvcPorts[h] : q.name = p.name}} :
                p \in {q \in Range(o.ports) : q.name # NULL /\ q.port # NULL}}

\* GetProxyServiceInstances (lines 145-158): every slice of the proxy's
\* namespace (all hostnames here) is asked for the proxy's addresses.
GetProxyServiceInstances(ips) ==
    UNION {ProxyInstancesOfSlice(hs[1], hs[2], ips) :
             hs \in {x \in Hosts \X Slices : x[2] \in Listed(x[1])}}

\* The by-port instances of one slice object: each address of each
\* endpoint whose pod one selector of coll selects, with each of the
\* matching slice ports, built by newEndpointBuilder.
SliceInstances(o, sp, coll, ports) ==
    UNION {{[addr |-> a, port |-> PortNum(p), name |-> sp.name,
             locality |-> BuilderLocality(o.eps[i], a)] :
              a \in {x \in Range(o.eps[i].addrs) : HasSubsetOf(coll, LabelsOf(x))},
              p \in ports} :
           i \in DOMAIN o.eps}

\* Fault variant: a slice port matches the request by number.
InstancesByPortMatchesNumber(h, n, coll) ==
    IF Listed(h) = {} \/ ~\E q \in SvcPorts[h] : q.port = n THEN {}
    ELSE LET sp == CHOOSE q \in SvcPorts[h] : q.port = n IN
         UNION {SliceInstances(world[h][s], sp, coll,
                               {q \in Range(world[h][s].ports) : q.port = n}) :
                s \in Listed(h)}

\* InstancesByPort (lines 209-264): nothing when the service has no
\* slices or no port numbered n; else, for every address of every
\* endpoint (ready or not) whose pod's labels one selector of coll is a
\* subset of, one instance per slice port that is unnamed or carries the
\* service port's name, with the slice port's number.
InstancesByPort(h, n, coll) ==
    IF Listed(h) = {} \/ ~\E q \in SvcPorts[h] : q.port = n THEN {}
    ELSE LET sp == CHOOSE q \in SvcPorts[h] : q.port = n IN
         UNION {SliceInstances(world[h][s], sp, coll,
                               {q \in Range(world[h][s].ports) : q.name \in {NULL, sp.name}}) :
                s \in Listed(h)}

-----------------------------------------------------------------------------
(* The watch layer and Service metadata (outside src/).                  *)

Deliver(ev) ==
    /\ sent < MaxEvents
    /\ queue' = Append(queue, ev)
    /\ sent' = sent + 1

SliceAdded(h, s, o) ==
    /\ world[h][s] = NULL
    /\ world' = [world EXCEPT ![h][s] = o]
    /\ Deliver([kind |-> "add", h |-> h, s |-> s, obj |-> o])
    /\ UNCHANGED <<services, endpointsByServiceAndSlice, pc, task, eps, view, pushed, skipped,
                   pods, podLate>>

SliceUpdated(h, s, o) ==
    /\ world[h][s] # NULL
    /\ world' = [world EXCEPT ![h][s] = o]
    /\ Deliver([kind |-> "update", h |-> h, s |-> s, obj |-> o])
    /\ UNCHANGED <<services, endpointsByServiceAndSlice, pc, task, eps, view, pushed, skipped,
                   pods, podLate>>

\* A delete event carries the object's last known state.
SliceDeleted(h, s) ==
    /\ world[h][s] # NULL
    /\ world' = [world EXCEPT ![h][s] = NULL]
    /\ Deliver([kind |-> "delete", h |-> h, s |-> s, obj |-> world[h][s]])
    /\ UNCHANGED <<services, endpointsByServiceAndSlice, pc, task, eps, view, pushed, skipped,
                   pods, podLate>>

ServiceAdded(h) ==
    /\ h \notin services
    /\ services' = services \cup {h}
    /\ UNCHANGED <<world, queue, sent, endpointsByServiceAndSlice, pc, task, eps, view, pushed, skipped,
                   pods, podLate>>

\* The pod informer (outside src/) learns of a pod created late. Nothing
\* re-runs updateEDS for the slices listing its address (the TODO at
\* line 88): they are podLate until their next event is taken.
PodArrived(a) ==
    /\ a \in PodIPs \ pods
    /\ pods' = pods \cup {a}
    /\ podLate' = podLate \cup {hs \in Hosts \X Slices :
                                world[hs[1]][hs[2]] # NULL /\ a \in SliceAddrs(world[hs[1]][hs[2]])}
    /\ UNCHANGED <<world, queue, sent, services, endpointsByServiceAndSlice, pc, task, eps,
                   view, pushed, skipped>>

-----------------------------------------------------------------------------
(* A worker running onEvent and updateEDS for one event.                 *)

\* onEvent + updateEDS lines 58-112: take the next event, look the service
\* up under c.RLock; return when it is not populated, else build the list.
TakeEvent(w) ==
    /\ pc[w] = "idle"
    /\ queue # <<>>
    /\ LET ev == Head(queue) IN
       /\ queue' = Tail(queue)
       /\ IF ev.h \in services
          THEN /\ pc' = [pc EXCEPT ![w] = "update"]
               /\ task' = [task EXCEPT ![w] = ev]
               /\ eps' = [eps EXCEPT ![w] = BuildEndpoints(ev)]
               /\ skipped' = skipped \ {<<ev.h, ev.s>>}
               /\ podLate' = podLate \ {<<ev.h, ev.s>>}
          ELSE /\ skipped' = skipped \cup {<<ev.h, ev.s>>}
               /\ UNCHANGED <<pc, task, eps, podLate>>
    /\ UNCHANGED <<world, sent, services, endpointsByServiceAndSlice, view, pushed, pods>>

\* Line 114: esc.endpointCache.Update(hostname, slice.Name, endpoints).
CacheUpdate(w) ==
    /\ pc[w] = "update"
    /\ Cache!Update(task[w].h, task[w].s, eps[w])
    /\ pc' = [pc EXCEPT ![w] = "get"]
    /\ UNCHANGED <<world, queue, sent, services, task, eps, view, pushed, skipped,
                   pods, podLate>>

\* Line 118, argument: esc.endpointCache.Get(hostname).
CacheGet(w) ==
    /\ pc[w] = "get"
    /\ view' = [view EXCEPT ![w] = Cache!Get(task[w].h)]
    /\ pc' = [pc EXCEPT ![w] = "push"]
    /\ UNCHANGED <<world, queue, sent, services, endpointsByServiceAndSlice, task, eps, pushed, skipped,
                   pods, podLate>>

\* Fault variant: EDSUpdate gets the slice's own endpoints, not Get's view.
PushOwnSlice(w) ==
    /\ pc[w] = "push"
    /\ pushed' = [pushed EXCEPT ![task[w].h] = ToBag(eps[w])]
    /\ pc' = [pc EXCEPT ![w] = "idle"]
    /\ UNCHANGED <<world, queue, sent, services, endpointsByServiceAndSlice, task, eps, view, skipped,
                   pods, podLate>>

\* Line 118: xdsUpdater.EDSUpdate(clusterID, hostname, namespace, view).
Push(w) ==
    /\ pc[w] = "push"
    /\ pushed' = [pushed EXCEPT ![task[w].h] = view[w]]
    /\ pc' = [pc EXCEPT ![w] = "idle"]
    /\ UNCHANGED <<world, queue, sent, services, endpointsByServiceAndSlice, task, eps, view, skipped,
                   pods, podLate>>

-----------------------------------------------------------------------------

NoEvent == [kind |-> "add", h |-> CHOOSE h \in Hosts : TRUE,
            s |-> CHOOSE s \in Slices : TRUE, obj |-> CHOOSE o \in Objects : TRUE]

Init ==
    /\ world = [h \in Hosts |-> [s \in Slices |-> NULL]]
    /\ queue = <<>>
    /\ sent = 0
    /\ services = {}
    /\ Cache!Init
    /\ pc = [w \in Workers |-> "idle"]
    /\ task = [w \in Workers |-> NoEvent]
    /\ eps = [w \in Workers |-> <<>>]
    /\ view = [w \in Workers |-> EmptyBag]
    /\ pushed = [h \in Hosts |-> EmptyBag]
    /\ skipped = {}
    /\ pods = PodIPs \ LatePods
    /\ podLate = {}

Environment ==
    \/ \E h \in Hosts, s \in Slices, o \in Objects : SliceAdded(h, s, o) \/ SliceUpdated(h, s, o)
    \/ \E h \in Hosts, s \in Slices : SliceDeleted(h, s)
    \/ \E h \in Hosts : ServiceAdded(h)
    \/ \E a \in Addrs : PodArrived(a)

Worker(w) == TakeEvent(w) \/ CacheUpdate(w) \/ CacheGet(w) \/ Push(w)

Next == Environment \/ \E w \in Workers : Worker(w)

\* Each worker goroutine loops on the queue for as long as the process
\* runs, so none of its steps is postponed forever.
Fairness == \A w \in Workers : WF_vars(Worker(w))

Spec == Init /\ [][Next]_vars /\ Fairness

-----------------------------------------------------------------------------
(* Properties                                                            *)

TypeOK ==
    /\ world \in [Hosts -> [Slices -> Objects \cup {NULL}]]
    /\ queue \in Seq(Event)
    /\ sent \in 0..MaxEvents
    /\ services \subseteq Hosts
    /\ Cache!TypeOK
    /\ pc \in [Workers -> {"idle", "update", "get", "push"}]
    /\ task \in [Workers -> Event]
    /\ eps \in [Workers -> Seq(Rec)]
    /\ skipped \subseteq Hosts \X Slices
    /\ pods \subseteq PodIPs /\ podLate \subseteq Hosts \X Slices

\* The cache entry of (h, s) was built from the slice's last taken event
\* with every pod of its addresses known: neither dropped for want of its
\* Service (lines 66-69) nor built before a pod appeared (line 88). Both
\* are retried only by a later event of the slice.
Settled(h, s) == <<h, s>> \notin skipped /\ <<h, s>> \notin podLate

\* Nothing is queued and every worker is waiting for the next event.
Quiescent == queue = <<>> /\ \A w \in Workers : pc[w] = "idle"

\* The list the current API-server object of (h, s) should contribute.
Expected(h, s) ==
    IF world[h][s] = NULL THEN <<>>
    ELSE BuildEndpoints([kind |-> "update", h |-> h, s |-> s, obj |-> world[h][s]])

\* Once every event has been handled, the cache holds for each slice of a
\* known service the endpoints of the slice's current object (deleted
\* slice: none), as the pods now known build them, unless the slice is
\* not Settled: a later event of the slice rebuilds it in full. Covers
\* the delete path, the build and the cache Update.
CacheReflectsWorld ==
    Quiescent =>
      \A h \in services, s \in Slices :
        Settled(h, s) => Cache!SliceEps(h, s) = Expected(h, s)

\* Once every event has been handled, the last view EDSUpdate received for
\* each hostname is the cache's current merged view: the push of line 118
\* never leaves the EDS layer behind the cache.
PushedMatchesCache ==
    Quiescent => \A h \in Hosts : pushed[h] = Cache!Get(h)

\* The cache, seen through SliceEps, implements the contract: each step
\* replaces at most one slice's contribution (P4 isolation).
CacheImplementsContract == Cache!Contract!Spec

\* Once every event has been handled, a by-port query of a known service
\* (InstancesByPort, lines 209-264) returns every endpoint updateEDS
\* built into the cache for that port (lines 71-112) from a Settled
\* slice, its locality included (a record built before its address's pod
\* appeared has none, the query reads the pod now): a record of the
\* service port's name, or of an unnamed slice port, whose workload one
\* selector selects. The query reads the informer, not the cache, and
\* matches ports by name while the records carry the slice's (target)
\* port numbers, so the two paths must agree on which ports match.
InstancesByPortCoversCache ==
    Quiescent =>
      \A h \in services : \A sp \in SvcPorts[h], coll \in Selectors, s \in Slices :
        Settled(h, s) =>
          \A r \in Range(Cache!SliceEps(h, s)) :
            r.name \in {sp.name, ""} /\ HasSubsetOf(coll, LabelsOf(r.addr))
              => [r EXCEPT !.name = sp.name] \in InstancesByPort(h, sp.port, coll)

\* Once every event has been handled, a proxy at the address of a cached
\* endpoint with a named, numbered port of its service finds that
\* endpoint among its service instances (GetProxyServiceInstances, lines
\* 145-207), with the slice port's number and the service port's name
\* (NewEndpointBuilder there takes the locality from the pod's node, not
\* from the slice, so it is not compared).
ProxyInstancesCoverCache ==
    Quiescent =>
      \A h \in services, s \in Slices :
        Settled(h, s) =>
          \A r \in Range(Cache!SliceEps(h, s)) :
            r.name # "" /\ r.port # 0 /\ (\E sp \in SvcPorts[h] : sp.name = r.name)
              => [addr |-> r.addr, port |-> r.port, name |-> r.name]
                   \in GetProxyServiceInstances({r.addr})

\* spec.md 4 (Endpoint Builder): a record takes the workload's locality
\* label, else region, zone and subzone from the node topology, joined by
\* "/", a missing field omitted. Once every event has been handled, every
\* cached record of a Settled slice and of an address with a pod carries
\* that locality for one of the current slice's endpoints of the address
\* (newEndpointBuilder and getLocalityFromTopology, lines 266-288).
SpecLocality(a, t) ==
    IF PodLocality[a] # <<>> THEN PodLocality[a]
    ELSE LET parts == SelectSeq(<<t.region, t.zone, t.subzone>>,
                                LAMBDA x : x \notin {NULL, ""})
         IN IF parts = <<>> THEN <<>>
            ELSE FoldLeft(LAMBDA acc, x : acc \o <<"/", x>>, <<Head(parts)>>, Tail(parts))

LocalityFollowsSpec ==
    Quiescent =>
      \A h \in services, s \in Slices :
        Settled(h, s) /\ world[h][s] # NULL =>
          \A r \in Range(Cache!SliceEps(h, s)) :
            r.addr \in pods =>
              \E i \in DOMAIN world[h][s].eps :
                /\ r.addr \in Range(world[h][s].eps[i].addrs)
                /\ r.locality = SpecLocality(r.addr, world[h][s].eps[i].topo)

=============================================================================
