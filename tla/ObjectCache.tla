----------------------------- MODULE ObjectCache -----------------------------
(***************************************************************************)
(* The Helm reconciler's object cache (operator/pkg/helmreconciler/       *)
(* rendering.go). objectCaches maps an IstioOperator CR (one here) to an  *)
(* ObjectCache: the last copy of each object the controller applied, and  *)
(* a mutex that lets one control loop at a time process that CR's         *)
(* manifest. ProcessManifest takes or creates the CR's cache under the    *)
(* global objectCachesMu, releases it, then locks the cache; objects that *)
(* differ from their cached copy are written to the API server one at a  *)
(* time (ProcessObject) and cached when the write succeeded; cache keys   *)
(* not in the manifest are pruned. FlushObjectCaches replaces the whole   *)
(* map under objectCachesMu.                                               *)
(*                                                                         *)
(* Objects are keys (obj.Hash(): kind, namespace, name) with a version    *)
(* (their content, compared by obj.Equal). A manifest gives a version to *)
(* some keys. A cache is named by the number of its allocation.           *)
(***************************************************************************)
EXTENDS Naturals, FiniteSets

CONSTANTS
    Loops,        \* control loops that may call ProcessManifest
    Keys,         \* object keys
    Versions,     \* object contents
    NotCached,    \* no copy in the cache / no object in the API server
    None,         \* no cache, no owner
    MaxRuns,      \* bound on ProcessManifest calls per loop
    MaxFlush,     \* bound on FlushObjectCaches calls
    MaxErrors,    \* bound on transient API errors
    MaxTouch      \* bound on resourceVersion bumps by other writers

Manifests == UNION {[D -> Versions] : D \in SUBSET Keys}

Ids == 1..(1 + MaxFlush)

VARIABLES
    server,       \* server[k]: the object's version in the API server
    rv,           \* rv[k]: its resourceVersion
    current,      \* objectCaches[crName]: a cache or None after a flush
    cache,        \* cache[i][k]: the copy cache i holds of k
    allocated,    \* caches allocated so far
    owner,        \* owner[i]: the loop holding cache i's mutex
    pc,           \* pc[l]: "idle", "got" (pointer taken), "apply", "write"
    ptr,          \* ptr[l]: the cache loop l took
    manifest,     \* manifest[l]: the manifest loop l is processing
    changed,      \* changed[l]: changed objects not yet processed
    got,          \* got[l]: what ProcessObject's Get returned
    errs,         \* errs[l]: ProcessManifest's errs is not empty
    runs, flushes, errors, touches

vars == <<server, rv, current, cache, allocated, owner, pc, ptr, manifest, changed,
          got, errs, runs, flushes, errors, touches>>

-----------------------------------------------------------------------------

\* ProcessManifest up to objectCachesMu.Unlock(): parse the manifest, get
\* the CR's cache, creating it when the map has none.
Begin(l, m) ==
    /\ pc[l] = "idle" /\ runs[l] < MaxRuns
    /\ IF current = None
       THEN /\ current' = allocated + 1
            /\ allocated' = allocated + 1
            /\ ptr' = [ptr EXCEPT ![l] = allocated + 1]
       ELSE /\ ptr' = [ptr EXCEPT ![l] = current]
            /\ UNCHANGED <<current, allocated>>
    /\ manifest' = [manifest EXCEPT ![l] = m]
    /\ pc' = [pc EXCEPT ![l] = "got"]
    /\ runs' = [runs EXCEPT ![l] = @ + 1]
    /\ errs' = [errs EXCEPT ![l] = FALSE]
    /\ UNCHANGED <<server, rv, cache, owner, changed, got, flushes, errors, touches>>

\* Fault variant: an object with a copy in the cache counts as unchanged
\* whatever its content (the obj.Equal check dropped).
ChangedKeyOnly(m, c) == {k \in DOMAIN m : c[k] = NotCached}

\* The objects of manifest m that differ from their copy in cache c.
Changed(m, c) == {k \in DOMAIN m : c[k] # m[k]}

\* Fault variant: the per-CR mutex is not taken.
LockNoMutex(l) ==
    /\ pc[l] = "got"
    /\ changed' = [changed EXCEPT ![l] = Changed(manifest[l], cache[ptr[l]])]
    /\ pc' = [pc EXCEPT ![l] = "apply"]
    /\ UNCHANGED <<server, rv, current, cache, allocated, owner, ptr, manifest,
                   got, runs, flushes, errors, touches, errs>>

\* objectCache.mu.Lock(), then the scan for changed objects.
Lock(l) ==
    /\ pc[l] = "got" /\ owner[ptr[l]] = None
    /\ owner' = [owner EXCEPT ![ptr[l]] = l]
    /\ changed' = [changed EXCEPT ![l] = Changed(manifest[l], cache[ptr[l]])]
    /\ pc' = [pc EXCEPT ![l] = "apply"]
    /\ UNCHANGED <<server, rv, current, cache, allocated, ptr, manifest,
                   got, runs, flushes, errors, touches, errs>>

\* ProcessObject up to its Get (lines 257-289): a List is processed item by
\* item (its items are keys of their own here), BeginResource and the
\* apply annotation leave the object's identity alone; the Get returns the
\* object with its resourceVersion, or NotFound, or fails, and the error
\* is collected and the object skipped (lines 229-233).
ProcessObjectGet(l, k) ==
    /\ pc[l] = "apply" /\ k \in changed[l]
    /\ changed' = [changed EXCEPT ![l] = @ \ {k}]
    /\ \/ /\ got' = [got EXCEPT ![l] =
                     [key |-> k, found |-> server[k] # NotCached, rv |-> rv[k],
                      version |-> server[k]]]
          /\ pc' = [pc EXCEPT ![l] = "write"]
          /\ UNCHANGED <<errors, errs>>
       \/ /\ errors < MaxErrors
          /\ errors' = errors + 1
          /\ errs' = [errs EXCEPT ![l] = TRUE]
          /\ UNCHANGED <<got, pc>>
    /\ UNCHANGED <<server, rv, current, cache, allocated, owner, ptr, manifest, runs,
                   flushes, touches>>

\* applyOverlay: a JSON merge patch of the manifest's object over the
\* receiver the Get filled; the manifest's fields replace the receiver's,
\* and what the manifest does not set, its resourceVersion included, is
\* the receiver's.
ApplyOverlay(receiver, overlay) == [receiver EXCEPT !.version = overlay]

\* What ProcessObject sends: the manifest's object for a Create, the
\* overlaid receiver for an Update.
Receiver(l) ==
    IF got[l].found THEN ApplyOverlay(got[l], manifest[l][got[l].key])
    ELSE [got[l] EXCEPT !.version = manifest[l][got[l].key]]

\* The API server accepts the Create of an object the Get did not find
\* only while it still does not exist (else AlreadyExists), and the
\* Update of the overlaid receiver only while the resourceVersion the Get
\* returned is current (else Conflict).
WriteAccepted(g) ==
    IF g.found THEN rv[g.key] = g.rv ELSE server[g.key] = NotCached

\* A successful write: the manifest's version is stored; an Update that
\* changes nothing keeps the resourceVersion.
Written(k, v) ==
    /\ server' = [server EXCEPT ![k] = v]
    /\ rv' = [rv EXCEPT ![k] = IF server[k] = v THEN @ ELSE @ + 1]

\* Fault variant: the cache is updated even when the write failed.
ProcessObjectWriteCachesOnError(l) ==
    /\ pc[l] = "write"
    /\ LET k == got[l].key IN
       /\ \/ /\ WriteAccepted(Receiver(l)) /\ Written(k, Receiver(l).version)
             /\ UNCHANGED <<errors, errs>>
          \/ /\ ~WriteAccepted(Receiver(l)) /\ errs' = [errs EXCEPT ![l] = TRUE]
             /\ UNCHANGED <<server, rv, errors>>
          \/ /\ errors < MaxErrors /\ errors' = errors + 1
             /\ errs' = [errs EXCEPT ![l] = TRUE]
             /\ UNCHANGED <<server, rv>>
       /\ cache' = [cache EXCEPT ![ptr[l]][k] = manifest[l][k]]
    /\ pc' = [pc EXCEPT ![l] = "apply"]
    /\ UNCHANGED <<current, allocated, owner, ptr, manifest, changed, got, runs,
                   flushes, touches>>

\* ProcessObject's Create or Update (lines 290-299), then the loop body
\* (lines 228-237): on success the object is cached; a refused or failed
\* write is collected and leaves the server and the cache alone.
ProcessObjectWrite(l) ==
    /\ pc[l] = "write"
    /\ LET k == got[l].key IN
       \/ /\ WriteAccepted(Receiver(l))
          /\ Written(k, Receiver(l).version)
          /\ cache' = [cache EXCEPT ![ptr[l]][k] = manifest[l][k]]
          /\ UNCHANGED <<errors, errs>>
       \/ /\ ~WriteAccepted(Receiver(l))
          /\ errs' = [errs EXCEPT ![l] = TRUE]
          /\ UNCHANGED <<server, rv, cache, errors>>
       \/ /\ errors < MaxErrors
          /\ errors' = errors + 1
          /\ errs' = [errs EXCEPT ![l] = TRUE]
          /\ UNCHANGED <<server, rv, cache>>
    /\ pc' = [pc EXCEPT ![l] = "apply"]
    /\ UNCHANGED <<current, allocated, owner, ptr, manifest, changed, got, runs,
                   flushes, touches>>

\* Fault variant: the per-CR mutex is not released when the call returns.
FinishNoUnlock(l) ==
    /\ pc[l] = "apply" /\ changed[l] = {}
    /\ cache' = [cache EXCEPT ![ptr[l]] =
                   [k \in Keys |-> IF k \in DOMAIN manifest[l] THEN @[k] ELSE NotCached]]
    /\ pc' = [pc EXCEPT ![l] = "idle"]
    /\ UNCHANGED <<server, rv, current, allocated, owner, ptr, manifest, changed, got, runs,
                   flushes, errors, touches, errs>>

\* The prune of keys not in the manifest, then the deferred Unlock.
Finish(l) ==
    /\ pc[l] = "apply" /\ changed[l] = {}
    /\ cache' = [cache EXCEPT ![ptr[l]] =
                   [k \in Keys |-> IF k \in DOMAIN manifest[l] THEN @[k] ELSE NotCached]]
    /\ owner' = [owner EXCEPT ![ptr[l]] = IF @ = l THEN None ELSE @]
    /\ pc' = [pc EXCEPT ![l] = "idle"]
    /\ UNCHANGED <<server, rv, current, allocated, ptr, manifest, changed, got, runs,
                   flushes, errors, touches, errs>>

\* FlushObjectCaches: the map is replaced by an empty one.
FlushObjectCaches ==
    /\ flushes < MaxFlush
    /\ current' = None
    /\ flushes' = flushes + 1
    /\ UNCHANGED <<server, rv, cache, allocated, owner, pc, ptr, manifest, changed, got,
                   runs, errors, touches, errs>>

\* Another writer (a status update, another controller) changes an object
\* the operator manages without touching the fields in its manifest.
ExternalTouch(k) ==
    /\ touches < MaxTouch /\ server[k] # NotCached
    /\ rv' = [rv EXCEPT ![k] = @ + 1]
    /\ touches' = touches + 1
    /\ UNCHANGED <<server, current, cache, allocated, owner, pc, ptr, manifest, changed,
                   got, runs, flushes, errors, errs>>

-----------------------------------------------------------------------------

Init ==
    /\ server = [k \in Keys |-> NotCached]
    /\ rv = [k \in Keys |-> 0]
    /\ current = None
    /\ cache = [i \in Ids |-> [k \in Keys |-> NotCached]]
    /\ allocated = 0
    /\ owner = [i \in Ids |-> None]
    /\ pc = [l \in Loops |-> "idle"]
    /\ ptr = [l \in Loops |-> None]
    /\ manifest = [l \in Loops |-> [k \in {} |-> NotCached]]
    /\ changed = [l \in Loops |-> {}]
    /\ got = [l \in Loops |-> [key |-> None, found |-> FALSE, rv |-> 0, version |-> NotCached]]
    /\ errs = [l \in Loops |-> FALSE]
    /\ runs = [l \in Loops |-> 0]
    /\ flushes = 0
    /\ errors = 0
    /\ touches = 0

Next ==
    \/ \E l \in Loops :
         \/ \E m \in Manifests : Begin(l, m)
         \/ Lock(l)
         \/ \E k \in Keys : ProcessObjectGet(l, k)
         \/ ProcessObjectWrite(l)
         \/ Finish(l)
    \/ FlushObjectCaches
    \/ \E k \in Keys : ExternalTouch(k)

\* A control loop is a goroutine that runs ProcessManifest to its end once
\* it has started: its steps are weakly fair. sync.Mutex hands the lock
\* to a waiter blocked for more than a millisecond (starvation mode), so a
\* loop waiting for the per-CR mutex is not passed over forever while
\* others take it in turn: the Lock step is strongly fair. Starting a
\* reconcile, flushes and other writers are not obliged to happen.
Fairness ==
    \A l \in Loops :
        /\ SF_vars(Lock(l))
        /\ WF_vars(\E k \in Keys : ProcessObjectGet(l, k))
        /\ WF_vars(ProcessObjectWrite(l))
        /\ WF_vars(Finish(l))

Spec == Init /\ [][Next]_vars /\ Fairness

-----------------------------------------------------------------------------
(* Properties                                                            *)

TypeOK ==
    /\ server \in [Keys -> Versions \cup {NotCached}]
    /\ current \in Ids \cup {None}
    /\ cache \in [Ids -> [Keys -> Versions \cup {NotCached}]]
    /\ owner \in [Ids -> Loops \cup {None}]
    /\ pc \in [Loops -> {"idle", "got", "apply", "write"}]
    /\ \A l \in Loops : changed[l] \subseteq Keys

\* ProcessManifest returns a nil error only when the API server holds
\* every object of its manifest as the manifest gives it: the caller takes
\* nil as "applied". A cache hit skips the write (lines 207-215), so this
\* rests on the cache's copies, on the per-CR mutex keeping other loops'
\* writes out until the return, and on every refused or failed write
\* being collected in errs (lines 228-233).
ManifestAppliedOnNil ==
    [][\A l \in Loops :
         Finish(l) /\ ~errs[l] =>
           \A k \in DOMAIN manifest[l] : server[k] = manifest[l][k]]_vars

\* objectCaches "holds the latest copy of each object applied by the
\* controller" (lines 57-58): when no loop is working on the CR's cache,
\* every copy it holds is what the API server holds, so a cache hit may
\* safely skip the write. Refused and failed writes leave both alone.
CacheMatchesServer ==
    current # None /\ owner[current] = None =>
      \A k \in Keys : cache[current][k] # NotCached => server[k] = cache[current][k]

\* Every ProcessManifest call returns: a loop that took the CR's cache is
\* not left waiting on the per-CR mutex (lines 197-198) behind a holder
\* that never reaches the deferred Unlock, nor starved by the other loops
\* taking it in turn, whatever the flushes and failed writes do.
ProcessManifestReturns == \A l \in Loops : pc[l] # "idle" ~> pc[l] = "idle"
=============================================================================
