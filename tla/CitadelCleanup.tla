--------------------------- MODULE CitadelCleanup ---------------------------
(***************************************************************************)
(* CitadelChartCustomizer.ResourceDeleted and cleanCitadelResources       *)
(* (operator/pkg/translate/translate_value.go): when the operator prunes  *)
(* the Citadel Deployment it deletes the "istio-security" ConfigMap and   *)
(* the secrets Citadel generated. It lists the namespace's secrets once,  *)
(* then makes cleanCitadelResourcesMaxRetries passes; each pass deletes   *)
(* the ConfigMap, then every listed secret of a pruned type. An error is  *)
(* returned only from the last pass.                                       *)
(*                                                                         *)
(* Every API call is one step, so the Citadel pod, still terminating,     *)
(* can write its ConfigMap and secrets back between any two calls. A      *)
(* Delete of an object that exists succeeds or fails transiently (at most *)
(* MaxTransient times in a behaviour); a Delete of an absent object is    *)
(* NotFound.                                                               *)
(***************************************************************************)
EXTENDS Naturals, FiniteSets

CONSTANTS
    Secrets,       \* secret names in the namespace
    Pruned,        \* those whose type is in prunedSecretTypeMap
    MaxRetries,    \* cleanCitadelResourcesMaxRetries
    MaxTransient,  \* bound on transient API errors in a behaviour
    MaxRecreate    \* bound on objects Citadel writes back

ASSUME Pruned \subseteq Secrets /\ MaxRetries \in Nat \ {0}

VARIABLES
    cm,            \* the istio-security ConfigMap exists
    secrets,       \* the secrets that exist
    listed,        \* the secret list taken before the loop
    retryCount,    \* the pass being made
    todo,          \* listed pruned secrets not yet tried in this pass
    pc,            \* "list", "cm", "secrets" or "done"
    result,        \* what cleanCitadelResources returned
    transient,     \* transient errors so far
    recreated,     \* writes by Citadel so far
    rewritten,     \* secrets written back since cleanup last removed them (ghost)
    cmDeleted      \* a Delete of this call removed the ConfigMap, and Citadel
                   \* has not written it back since (ghost)

vars == <<cm, secrets, listed, retryCount, todo, pc, result, transient,
          recreated, rewritten, cmDeleted>>

Results == {"none", "nil", "errList", "errConfigMap", "errSecret"}

-----------------------------------------------------------------------------

\* The secret list of the namespace, or an error ending the call.
List ==
    /\ pc = "list"
    /\ \/ /\ listed' = secrets
          /\ pc' = "cm"
          /\ UNCHANGED result
       \/ /\ pc' = "done"
          /\ result' = "errList"
          /\ UNCHANGED listed
    /\ UNCHANGED <<cm, secrets, retryCount, todo, transient, recreated, rewritten,
                   cmDeleted>>

\* The outcomes of one Delete of an object that exists (exists = TRUE) or
\* not: [gone, err, transient'].
DeleteOutcomes(exists) ==
    IF exists
    THEN {[gone |-> TRUE, err |-> FALSE, t |-> transient]}
         \cup (IF transient < MaxTransient
               THEN {[gone |-> FALSE, err |-> TRUE, t |-> transient + 1]} ELSE {})
    ELSE {[gone |-> TRUE, err |-> TRUE, t |-> transient]}

\* Fault variant: a failed ConfigMap delete skips the pass's secrets.
DeleteConfigMapSkipsSecrets ==
    /\ pc = "cm"
    /\ \E o \in DeleteOutcomes(cm) :
         /\ cm' = ~o.gone
         /\ cmDeleted' = (cmDeleted \/ (cm /\ o.gone))
         /\ transient' = o.t
         /\ IF o.err /\ retryCount = MaxRetries
            THEN pc' = "done" /\ result' = "errConfigMap" /\ UNCHANGED todo
            ELSE IF o.err
            THEN pc' = "secrets" /\ todo' = {} /\ UNCHANGED result
            ELSE pc' = "secrets" /\ todo' = listed \cap Pruned /\ UNCHANGED result
    /\ UNCHANGED <<secrets, listed, retryCount, recreated, rewritten>>

\* Line 939: rClient.Delete(cm); its error is returned on the last pass only.
DeleteConfigMap ==
    /\ pc = "cm"
    /\ \E o \in DeleteOutcomes(cm) :
         /\ cm' = ~o.gone
         /\ cmDeleted' = (cmDeleted \/ (cm /\ o.gone))
         /\ transient' = o.t
         /\ IF o.err /\ retryCount = MaxRetries
            THEN pc' = "done" /\ result' = "errConfigMap" /\ UNCHANGED todo
            ELSE pc' = "secrets" /\ todo' = listed \cap Pruned /\ UNCHANGED result
    /\ UNCHANGED <<secrets, listed, retryCount, recreated, rewritten>>

\* Lines 943-949: delete a listed secret of a pruned type (by name); its
\* error is returned on the last pass only.
DeleteSecret(s) ==
    /\ pc = "secrets" /\ s \in todo
    /\ \E o \in DeleteOutcomes(s \in secrets) :
         /\ secrets' = IF o.gone THEN secrets \ {s} ELSE secrets
         /\ transient' = o.t
         /\ rewritten' = IF o.gone THEN rewritten \ {s} ELSE rewritten
         /\ IF o.err /\ retryCount = MaxRetries
            THEN pc' = "done" /\ result' = "errSecret" /\ UNCHANGED todo
            ELSE todo' = todo \ {s} /\ UNCHANGED <<pc, result>>
    /\ UNCHANGED <<cm, listed, retryCount, recreated, cmDeleted>>

\* Fault variant: the loop bound is off by one.
EndPassOffByOne ==
    /\ pc = "secrets" /\ todo = {}
    /\ IF retryCount > MaxRetries
       THEN pc' = "done" /\ result' = "nil" /\ UNCHANGED retryCount
       ELSE pc' = "cm" /\ retryCount' = retryCount + 1 /\ UNCHANGED result
    /\ UNCHANGED <<cm, secrets, listed, todo, transient, recreated, rewritten,
                   cmDeleted>>

\* End of a pass: the next one, or nil after the last.
EndPass ==
    /\ pc = "secrets" /\ todo = {}
    /\ IF retryCount = MaxRetries
       THEN pc' = "done" /\ result' = "nil" /\ UNCHANGED retryCount
       ELSE pc' = "cm" /\ retryCount' = retryCount + 1 /\ UNCHANGED result
    /\ UNCHANGED <<cm, secrets, listed, todo, transient, recreated, rewritten,
                   cmDeleted>>

\* The terminating Citadel pod writes its ConfigMap or a secret back.
CitadelWritesConfigMap ==
    /\ recreated < MaxRecreate /\ ~cm
    /\ cm' = TRUE
    /\ cmDeleted' = FALSE
    /\ recreated' = recreated + 1
    /\ UNCHANGED <<secrets, listed, retryCount, todo, pc, result, transient, rewritten>>

CitadelWritesSecret(s) ==
    /\ recreated < MaxRecreate /\ s \notin secrets
    /\ secrets' = secrets \cup {s}
    /\ rewritten' = rewritten \cup {s}
    /\ recreated' = recreated + 1
    /\ UNCHANGED <<cm, listed, retryCount, todo, pc, result, transient, cmDeleted>>

-----------------------------------------------------------------------------

\* ResourceDeleted of the Citadel Deployment: the ConfigMap and any set of
\* secrets exist; cleanCitadelResources starts with the list.
Init ==
    /\ cm \in BOOLEAN
    /\ secrets \in SUBSET Secrets
    /\ listed = {}
    /\ retryCount = 1
    /\ todo = {}
    /\ pc = "list"
    /\ result = "none"
    /\ transient = 0
    /\ recreated = 0
    /\ rewritten = {}
    /\ cmDeleted = FALSE

Next ==
    \/ List \/ DeleteConfigMap \/ EndPass
    \/ \E s \in Secrets : DeleteSecret(s)
    \/ CitadelWritesConfigMap
    \/ \E s \in Secrets : CitadelWritesSecret(s)

Spec == Init /\ [][Next]_vars

-----------------------------------------------------------------------------
(* Properties                                                            *)

TypeOK ==
    /\ cm \in BOOLEAN
    /\ secrets \subseteq Secrets /\ listed \subseteq Secrets
    /\ retryCount \in 1..MaxRetries
    /\ todo \subseteq listed \cap Pruned
    /\ pc \in {"list", "cm", "secrets", "done"}
    /\ result \in Results
    /\ transient \in 0..MaxTransient
    /\ recreated \in 0..MaxRecreate
    /\ rewritten \subseteq Secrets
    /\ cmDeleted \in BOOLEAN

\* When cleanCitadelResources has returned nil or the ConfigMap error,
\* every listed secret of a pruned type is gone, unless Citadel wrote it
\* back after the cleanup last removed it: the retry passes absorb the
\* transient errors of the API server, and the ConfigMap errors of the
\* passes before the last do not stop the secrets' deletes.
ListedSecretsRemoved ==
    pc = "done" /\ result \in {"nil", "errConfigMap"} =>
      \A s \in listed \cap Pruned \cap secrets : s \in rewritten

\* cleanCitadelResources reports "error deleting ConfigMap" only when it
\* could not remove the ConfigMap: never after one of its own passes
\* deleted it (and the terminating pod did not write it back), since a
\* cleanup that removed everything is a success (lines 938-941: every
\* pass deletes the ConfigMap again and the last pass returns its error).
ConfigMapErrorIsReal ==
    pc = "done" /\ result = "errConfigMap" => ~cmDeleted
=============================================================================
