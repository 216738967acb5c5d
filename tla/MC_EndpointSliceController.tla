--------------------- MODULE MC_EndpointSliceController ---------------------
(***************************************************************************)
(* Instantiates EndpointSliceController for TLC. Three slice objects      *)
(* cover every branch of the build in updateEDS:                          *)
(*   OnePod      - a1 (has a pod), readiness unset      -> one record      *)
(*   WithNoPod   - a1 ready, a2 without pod target      -> two records     *)
(*   NothingLive - a1 not ready, a2 pod target          -> a record once   *)
(*                 a2's pod exists, none before                            *)
(* The slice ports carry the target port 8080 under the Service port's  *)
(* name, without a name, or with a name the Service has not; the Service *)
(* has ports 80 "http" and 90 "grpc". The pod at a1 is labelled           *)
(* {app=foo, version=v1} and exists from the start; the pod at a2,       *)
(* labelled {app=bar}, is created later. The by-port selectors are the   *)
(* empty collection, {app=foo} and {app=bar}.                             *)
(***************************************************************************)
EXTENDS EndpointSliceController, TLC

CONSTANTS a1, a2, h1, h2, s1, s2, w1, w2, http, grpc, metrics, appFoo, appBar, versionV1

MCAddrs == {a1, a2}
MCPortNames == {http, grpc, metrics}
MCPortNums == {80, 90, 8080}
MCSvcPorts(hosts) == [h \in hosts |-> {[name |-> http, port |-> 80], [name |-> grpc, port |-> 90]}]
MCPodIPs == {a1, a2}
MCLatePods == {a2}
MCPodLabels == [a \in MCPodIPs |-> IF a = a1 THEN {appFoo, versionV1} ELSE {appBar}]
MCSelectors == {{}, {{appFoo}}, {{appBar}}}
MCPodLocality == [a \in MCPodIPs |-> <<>>]

\* Endpoint topologies: all three keys, the region only, none, and a zone
\* without a region.
FullTopo == [region |-> "r1", zone |-> "z1", subzone |-> "sz1"]
RegionOnly == [region |-> "r1", zone |-> NULL, subzone |-> NULL]
NoTopo == [region |-> NULL, zone |-> NULL, subzone |-> NULL]
ZoneOnly == [region |-> NULL, zone |-> "z1", subzone |-> NULL]

Named == [name |-> http, port |-> 8080]
Unnamed == [name |-> NULL, port |-> 8080]
Unknown == [name |-> metrics, port |-> 8080]

OnePod == [eps |-> <<[addrs |-> <<a1>>, ready |-> "unset", podRef |-> TRUE, topo |-> FullTopo]>>,
           ports |-> <<Named>>]
WithNoPod == [eps |-> <<[addrs |-> <<a1>>, ready |-> "true", podRef |-> TRUE, topo |-> RegionOnly],
                        [addrs |-> <<a2>>, ready |-> "true", podRef |-> FALSE, topo |-> RegionOnly]>>,
              ports |-> <<Unnamed, Named>>]
NothingLive == [eps |-> <<[addrs |-> <<a1>>, ready |-> "false", podRef |-> TRUE, topo |-> NoTopo],
                          [addrs |-> <<a2>>, ready |-> "true", podRef |-> TRUE, topo |-> NoTopo]>>,
                ports |-> <<Unknown>>]
MCObjects == {OnePod, WithNoPod, NothingLive}

\* The pod's node has a zone label but no region label.
ZoneOnlyPod == [eps |-> <<[addrs |-> <<a1>>, ready |-> "true", podRef |-> TRUE, topo |-> ZoneOnly]>>,
                ports |-> <<Named>>]
ZoneOnlyObjects == {ZoneOnlyPod}

OneHost == {h1}
OneHostPorts == MCSvcPorts(OneHost)
TwoSlices == {s1, s2}
OneWorker == {w1}
TwoWorkers == {w1, w2}
====
