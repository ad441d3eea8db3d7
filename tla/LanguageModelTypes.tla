------------------------- MODULE LanguageModelTypes -------------------------
(***************************************************************************)
(* The LanguageModel API object, its source and the workload objects the   *)
(* controller derives from it (api/v1alpha1, and the build functions of    *)
(* internal/controller).  One LanguageModel is modelled: object names are  *)
(* derived from its name, so a workload object is identified by its kind.  *)
(***************************************************************************)
EXTENDS Integers

CONSTANTS
    Specs,          \* the spec values a user may give the LanguageModel
    Revisions,      \* the revisions a source artifact may carry
    BadRevisions    \* those whose size or memory metadata does not parse

DeploymentTypes == {"Default", "KubernetesDeployment", "KnativeService"}
CacheStrategies == {"None", "PV"}

\* The fields of LanguageModelSpec that steer control.  A duration is 0 or
\* positive; crossNS says that sourceRef.namespace is another namespace.
SpecType == [dep : DeploymentTypes, cache : CacheStrategies,
             prune : BOOLEAN, suspend : BOOLEAN, crossNS : BOOLEAN,
             interval : Nat, retryInterval : Nat]

ASSUME SpecsAssumption == Specs \subseteq SpecType /\ Specs # {}
ASSUME RevisionsAssumption ==
    Revisions \subseteq Nat \ {0} /\ BadRevisions \subseteq Revisions

GetRequeueAfter(spec) == spec.interval

\* The retry interval falls back to the reconciliation interval.
GetRetryInterval(spec) ==
    IF spec.retryInterval > 0 THEN spec.retryInterval ELSE GetRequeueAfter(spec)

-----------------------------------------------------------------------------
(* Workload objects *)

Kinds == {"Deployment", "Service", "PersistentVolumeClaim", "KnativeService"}

\* The objects of a plain Kubernetes deployment; usePvc adds the volume claim
\* the model is cached in.
BuildKubernetes(usePvc) ==
    {"Deployment", "Service"} \cup (IF usePvc THEN {"PersistentVolumeClaim"} ELSE {})

BuildKnative == {"KnativeService"}

Build(spec) ==
    IF spec.dep = "KnativeService" THEN BuildKnative
    ELSE BuildKubernetes(spec.cache = "PV")

\* buildKubernetes parses the quantities in the artifact metadata and fails
\* when one is malformed; buildKnative ignores the metadata.
BuildFails(spec, rev) == spec.dep # "KnativeService" /\ rev \in BadRevisions

\* What a workload object was last applied for: the engine settings and the
\* artifact revision (rev 0: not applied by the controller).
Contents == [dep : DeploymentTypes, cache : CacheStrategies, rev : Nat]
NoContent == [dep |-> "Default", cache |-> "None", rev |-> 0]
ContentOf(spec, rev) == [dep |-> spec.dep, cache |-> spec.cache, rev |-> rev]

\* owner: the owner labels name this LanguageModel ("lm"), or do not
\* ("other"), or there is no such object ("absent").  note: the annotation
\* ai.contrib.fluxcd.io/prune or /reconcile with the value "disabled", or /ssa
\* with the value "Ignore", on the object.
Notes == {"none", "prune", "reconcile", "ssa"}
Objects == [owner : {"absent", "lm", "other"}, content : Contents, note : Notes]
NoObject == [owner |-> "absent", content |-> NoContent, note |-> "none"]
ForeignObject == [owner |-> "other", content |-> NoContent, note |-> "none"]

\* What the selectors exclude from ApplyAll, and from DeleteAll.
NotApplied == {"reconcile", "ssa"}
NotDeleted == {"prune", "reconcile"}

-----------------------------------------------------------------------------
(* The source: found is FALSE when the object does not exist, rev is 0     *)
(* while it has no artifact.                                               *)

Sources == [found : {TRUE}, rev : Revisions \cup {0}]
               \cup [found : {FALSE}, rev : {0}]

-----------------------------------------------------------------------------
(* The LanguageModel object.  A condition is one value: the reason of the  *)
(* Ready condition fixes its status, and the Reconciling value tells its   *)
(* progress messages apart.  "none" is a condition that is not set.        *)

FailedReasons == {"ArtifactFailed", "AccessDenied", "ReconciliationFailed",
                  "PruneFailed", "HealthCheckFailed"}
ReadyValues == {"none", "Progressing", "ReconciliationSucceeded"} \cup FailedReasons
ReconcilingValues == {"none", "Fetching", "Building", "Detecting", "Checking",
                      "ProgressingWithRetry"}
HealthyValues == {"none", "Unknown", "True", "False"}

LanguageModels ==
    [exists : BOOLEAN, deleting : BOOLEAN, fin : BOOLEAN, uid : Nat, gen : Nat,
     spec : Specs, asked : Nat,
     ready : ReadyValues, reconciling : ReconcilingValues,
     healthy : HealthyValues,
     observed : Int, inv : SUBSET Kinds, attempted : Nat, applied : Nat,
     handled : Nat]

\* A LanguageModel as the API server stores it on creation (the default of
\* the status is observedGeneration -1).
NewLanguageModel(spec, uid) ==
    [exists |-> TRUE, deleting |-> FALSE, fin |-> FALSE, uid |-> uid, gen |-> 1,
     spec |-> spec, asked |-> 0,
     ready |-> "none", reconciling |-> "none", healthy |-> "none",
     observed |-> -1, inv |-> {}, attempted |-> 0, applied |-> 0, handled |-> 0]

Absent == [NewLanguageModel(CHOOSE s \in Specs : TRUE, 0)
               EXCEPT !.exists = FALSE, !.gen = 0]

IsTrue(lm) == lm.ready = "ReconciliationSucceeded"
IsFalse(lm) == lm.ready \in FailedReasons
=============================================================================
