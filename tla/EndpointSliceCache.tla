------------------------- MODULE EndpointSliceCache -------------------------
(***************************************************************************)
(* endpointSliceCache (pilot/.../controller/endpointslice.go): a map of   *)
(* maps hostname -> slice name -> []*IstioEndpoint behind one RWMutex.    *)
(* Update holds the write lock for its whole body and Get the read lock,  *)
(* so each is one atomic step here. Go maps are modelled as functions    *)
(* whose DOMAIN is the set of keys present, so that an entry holding an   *)
(* empty list is told apart from a missing entry.                         *)
(***************************************************************************)
EXTENDS Sequences, Bags, SequencesExt, Functions

CONSTANTS Hosts, Slices, Rec

VARIABLE endpointsByServiceAndSlice

\* Local name for the map, as the receiver field is used in the code.
m == endpointsByServiceAndSlice

TypeOK ==
    /\ DOMAIN m \subseteq Hosts
    /\ \A h \in DOMAIN m :
         /\ DOMAIN m[h] \subseteq Slices
         /\ \A s \in DOMAIN m[h] : m[h][s] \in Seq(Rec)

\* newEndpointSliceCache: an empty outer map.
Init == endpointsByServiceAndSlice = <<>>

\* Fault variant: an empty list deletes the hostname's whole inner map.
UpdateDropsHost(h, s, eps) ==
    LET deleted == IF eps = <<>> THEN Restrict(m, DOMAIN m \ {h}) ELSE m
        created == IF h \in DOMAIN deleted THEN deleted
                   ELSE deleted @@ (h :> <<>>)
    IN endpointsByServiceAndSlice' = [created EXCEPT ![h] = (s :> eps) @@ @]

\* Update(hostname, slice, endpoints), under e.mu.Lock():
\*   an empty list deletes the slice entry (delete on a missing inner map
\*   is a no-op in Go); the inner map is created on first use; then the
\*   entry is (re)assigned to endpoints, whatever its length.
Update(h, s, eps) ==
    LET deleted == IF eps = <<>> /\ h \in DOMAIN m
                   THEN [m EXCEPT ![h] = Restrict(@, DOMAIN @ \ {s})]
                   ELSE m
        created == IF h \in DOMAIN deleted THEN deleted
                   ELSE deleted @@ (h :> <<>>)
    IN endpointsByServiceAndSlice' = [created EXCEPT ![h] = (s :> eps) @@ @]

\* Get(hostname), under e.mu.RLock(): the concatenation of every slice's
\* list in map iteration order, which Go randomises; as a multiset.
Get(h) ==
    IF h \in DOMAIN m
    THEN FoldFunction(LAMBDA x, y : x (+) y, EmptyBag,
                      [s \in DOMAIN m[h] |-> ToBag(m[h][s])])
    ELSE EmptyBag

\* The records slice s currently contributes to h (nothing when absent).
SliceEps(h, s) ==
    IF h \in DOMAIN m /\ s \in DOMAIN m[h] THEN m[h][s] ELSE <<>>

\* The refinement mapping to the cache contract.
Contract == INSTANCE SliceContributions
              WITH contrib <- [h \in Hosts |-> [s \in Slices |-> SliceEps(h, s)]]
=============================================================================
