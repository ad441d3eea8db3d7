---------------------- MODULE LanguageModelReconciler ----------------------
(***************************************************************************)
(* The reconciler of internal/controller/languagemodel_controller.go, run  *)
(* for one LanguageModel against the API server, through an informer cache *)
(* that may lag, next to users who edit, delete and recreate the object,   *)
(* sources that move, and failures of any call.  Every request that writes *)
(* outside the process is a step of its own, those of one patch included,  *)
(* so everything else can happen between two writes.                       *)
(***************************************************************************)
EXTENDS LanguageModelTypes

CONSTANTS
    NoCrossNamespaceRefs,  \* the --no-cross-namespace-refs flag
    Faults,                \* the kinds of failure that may happen
    MaxFaults,             \* how many of them in one behaviour
    Changes,               \* the kinds of change the surroundings may make
    MaxChanges             \* how many of them in one behaviour

\* "stale" lets a reconciliation start from a cache that lags; it is not
\* counted, since a lagging cache is no failure.
FaultKinds == {"get", "source", "patch", "impersonate", "client", "apply",
               "prune", "health", "crash", "stale"}
ChangeKinds == {"create", "edit", "delete", "request", "source", "account",
                "drift", "prune", "reconcile", "ssa"}

ASSUME ReconcilerAssumption ==
    /\ NoCrossNamespaceRefs \in BOOLEAN
    /\ Faults \subseteq FaultKinds /\ MaxFaults \in Nat
    /\ Changes \subseteq ChangeKinds /\ MaxChanges \in Nat

VARIABLES
    api,      \* the LanguageModel in the API server
    cache,    \* the informer's copy, which r.Get and the index read
    live,     \* the workload objects in the cluster
    source,   \* the referenced source as the informer has it
    account,  \* the service account to impersonate exists
    queued,   \* the key is in the work queue
    timer,    \* a delayed or rate-limited add of the key is pending
    pc,       \* where Reconcile is
    obj,      \* Reconcile's working copy of the object
    before,   \* the serial patcher's base
    art,      \* the revision of the artifact being reconciled
    todo,     \* objects that ApplyAll or DeleteAll has still to visit
    failed,   \* DeleteAll has met an error
    sent,     \* the parts of the patch under way that have been written
    result,   \* what Reconcile returns
    faults,   \* failures still allowed (bound MaxFaults)
    changes   \* outside changes still allowed (bound MaxChanges)

cluster == <<api, live>>
world == <<source, account, changes>>
run == <<art, todo, failed, sent>>
vars == <<api, cache, live, source, account, queued, timer, pc, obj, before,
          art, todo, failed, sent, result, faults, changes>>

Stages == {"idle", "finalize", "deleteAll", "getSource", "fetching", "building",
           "build", "detecting", "apply", "prune", "checkHealth", "wait",
           "healthy", "succeed", "finalizeStatus"}
Results == {"done", "requeue", "retry", "interval", "error"}

Init ==
    /\ api \in {NewLanguageModel(s, MaxChanges + 1) : s \in Specs}
    /\ cache = api
    /\ live = [k \in Kinds |-> NoObject]
    /\ source \in Sources
    /\ account = TRUE
    /\ queued = TRUE
    /\ timer = FALSE
    /\ pc = "idle"
    /\ obj = Absent
    /\ before = Absent
    /\ art = 0
    /\ todo = {}
    /\ failed = FALSE
    /\ sent = {}
    /\ result = "done"
    /\ faults = MaxFaults
    /\ changes = MaxChanges

\* A step in which a call of the given kind fails.
Fault(kind) ==
    /\ kind \in Faults
    /\ faults > 0
    /\ faults' = faults - 1

-----------------------------------------------------------------------------
(***************************************************************************)
(* r.patch.  The serial patcher sends what differs between its base and    *)
(* the working copy, in up to three requests: the conditions (through the  *)
(* cache, under a resource version lock), then the finalizers, then the    *)
(* rest of the status, which the status subresource keeps apart.  A field  *)
(* without a difference keeps what the server has, whoever wrote it.       *)
(***************************************************************************)

PatchParts == {"conditions", "finalizers", "status"}

Part(lm, part) ==
    CASE part = "conditions" -> <<lm.ready, lm.reconciling, lm.healthy>>
      [] part = "finalizers" -> <<lm.fin>>
      [] OTHER -> <<lm.observed, lm.inv, lm.attempted, lm.applied, lm.handled>>

\* The requests that a patch of o has still to make.
Unsent(o) == {p \in PatchParts \ sent : Part(o, p) # Part(before, p)}

Changed(base, new, server) == IF new = base THEN server ELSE new

PatchConditions(o, server) ==
    [server EXCEPT !.ready = Changed(before.ready, o.ready, @),
                   !.reconciling = Changed(before.reconciling, o.reconciling, @),
                   !.healthy = Changed(before.healthy, o.healthy, @)]

\* The server drops a deleted object with its last finalizer.
PatchFinalizers(o, server) ==
    LET fin == Changed(before.fin, o.fin, server.fin)
    IN  IF server.deleting /\ ~fin THEN Absent ELSE [server EXCEPT !.fin = fin]

PatchStatus(o, server) ==
    IF ~server.exists THEN server
    ELSE [server EXCEPT !.observed = Changed(before.observed, o.observed, @),
                        !.inv = Changed(before.inv, o.inv, @),
                        !.attempted = Changed(before.attempted, o.attempted, @),
                        !.applied = Changed(before.applied, o.applied, @),
                        !.handled = Changed(before.handled, o.handled, @)]

\* The object after the given parts of a patch have been written.
Patched(o, parts) ==
    LET c == IF "conditions" \in parts THEN PatchConditions(o, api) ELSE api
        f == IF "finalizers" \in parts THEN PatchFinalizers(o, c) ELSE c
    IN  IF "status" \in parts THEN PatchStatus(o, f) ELSE f

\* The conditions are merged into the cached object and sent under its
\* resource version: the write goes through once the cache is current.
ConditionsCanBeWritten(o) == "conditions" \in Unsent(o) => cache = api

\* A request that others follow.  None names the identity of the object: they
\* reach whatever object has the name by then.
PatchSends(o) ==
    LET part == IF "conditions" \in Unsent(o) THEN "conditions" ELSE "finalizers"
    IN
    /\ api.exists
    /\ part \in Unsent(o) /\ Unsent(o) # {part}
    /\ ConditionsCanBeWritten(o)
    /\ api' = Patched(o, {part})
    /\ sent' = sent \cup {part}
    /\ UNCHANGED faults

\* The last request.  NotFound is no error for an object under deletion, and a
\* patch without differences makes no call.
PatchSucceeds(o) ==
    /\ \/ /\ api.exists
          /\ \E last \in PatchParts : Unsent(o) \subseteq {last}
          /\ ConditionsCanBeWritten(o)
          /\ api' = Patched(o, PatchParts \ sent)
       \/ ~api.exists /\ (o.deleting \/ Unsent(o) = {}) /\ api' = api
    /\ sent' = {}
    /\ UNCHANGED faults

\* A request fails.  Those that follow are made nevertheless, in the same
\* step; the errors are returned together.
PatchFails(o) ==
    /\ \/ /\ api.exists
          /\ Fault("patch")
          /\ \E parts \in SUBSET Unsent(o) :
                /\ parts # Unsent(o)
                /\ "conditions" \in parts => cache = api
                /\ api' = Patched(o, parts)
       \/ ~api.exists /\ ~o.deleting /\ Unsent(o) # {} /\ api' = api /\ UNCHANGED faults
    /\ sent' = {}

\* Reconcile returns r with the working copy o; the deferred finalizeStatus
\* comes next.
Return(o, r) ==
    /\ obj' = o
    /\ result' = r
    /\ pc' = "finalizeStatus"

\* A patch of o inside Reconcile: on to the next request, to the next stage,
\* or out with the copy e and a requeue after the retry interval.
Patch(o, next, e) ==
    /\ \/ PatchSends(o) /\ UNCHANGED <<before, obj, pc, result>>
       \/ PatchSucceeds(o) /\ before' = o /\ obj' = o /\ pc' = next /\ UNCHANGED result
       \/ PatchFails(o) /\ before' = before /\ Return(e, "retry")
    /\ UNCHANGED <<cache, live, world, queued, timer, art, todo, failed>>

-----------------------------------------------------------------------------
(* Reconcile: the read and the early returns *)

\* A worker takes the key off the queue and reads the object from the cache.
\* One worker has the key at a time: an add in the meantime stays queued.
Get ==
    /\ pc = "idle"
    /\ queued
    /\ "stale" \in Faults \/ cache = api
    /\ queued' = FALSE
    /\ UNCHANGED <<cluster, cache, world, timer, run, faults>>

\* An error of the read is returned before anything else, the deferred
\* finalizeStatus included, and retried with backoff.
GetFails ==
    /\ pc = "idle"
    /\ queued
    /\ Fault("get")
    /\ queued' = FALSE
    /\ timer' = TRUE
    /\ UNCHANGED <<cluster, cache, world, pc, obj, before, run, result>>

ReconcileNotFound ==
    /\ Get
    /\ ~cache.exists
    /\ UNCHANGED <<pc, obj, before, result>>

\* Mutant: the deletion timestamp is not looked at.
ReconcileDeletionOfAnything ==
    /\ Get
    /\ cache.exists
    /\ obj' = cache /\ before' = cache
    /\ pc' = "finalize"
    /\ UNCHANGED result

ReconcileDeletion ==
    /\ Get
    /\ cache.exists /\ cache.deleting
    /\ obj' = cache /\ before' = cache
    /\ pc' = "finalize"
    /\ UNCHANGED result

AddFinalizer ==
    /\ Get
    /\ cache.exists /\ ~cache.deleting /\ ~cache.fin
    /\ before' = cache
    /\ Return([cache EXCEPT !.fin = TRUE], "requeue")

SkipSuspended ==
    /\ Get
    /\ cache.exists /\ ~cache.deleting /\ cache.fin /\ cache.spec.suspend
    /\ before' = cache
    /\ Return(cache, "done")

\* Mutant: the finalizer is not added first.
StartReconcileUnprotected ==
    /\ Get
    /\ cache.exists /\ ~cache.deleting /\ ~cache.spec.suspend
    /\ obj' = cache /\ before' = cache
    /\ pc' = "getSource"
    /\ UNCHANGED result

StartReconcile ==
    /\ Get
    /\ cache.exists /\ ~cache.deleting /\ cache.fin /\ ~cache.spec.suspend
    /\ obj' = cache /\ before' = cache
    /\ pc' = "getSource"
    /\ UNCHANGED result

\* Mutant: a failure leaves the Ready condition of the working copy alone.
MarkNothing(reason) == obj

MarkNotReady(reason) == [obj EXCEPT !.ready = reason]

\* getSource looks nowhere when the reference leaves the namespace and the
\* flag forbids it.
AccessDenied(spec) == NoCrossNamespaceRefs /\ spec.crossNS

GetSource ==
    LET denied == AccessDenied(obj.spec)
    IN
    /\ pc = "getSource"
    /\ \/ /\ denied
          /\ Return(MarkNotReady("AccessDenied"), "retry")
          /\ UNCHANGED <<art, faults>>
       \/ /\ ~denied /\ source.rev = 0      \* no such source, or no artifact
          /\ Return(MarkNotReady("ArtifactFailed"), "retry")
          /\ UNCHANGED <<art, faults>>
       \/ /\ ~denied /\ Fault("source")
          /\ Return(MarkNotReady("ArtifactFailed"), "error")
          /\ UNCHANGED art
       \/ /\ ~denied /\ source.rev # 0
          /\ art' = source.rev
          /\ pc' = "fetching"
          /\ UNCHANGED <<obj, result, faults>>
    /\ UNCHANGED <<cluster, cache, world, queued, timer, before, todo, failed, sent>>

-----------------------------------------------------------------------------
(* reconcile: progress, build, apply, prune, health *)

\* Mutant: Ready keeps its old value while the run is in progress.
ReportFetchingStillReady ==
    LET o == [obj EXCEPT !.reconciling = "Fetching"]
    IN
    /\ pc = "fetching"
    /\ Patch(o, "building", o)

ReportFetching ==
    LET o == [obj EXCEPT !.ready = "Progressing", !.reconciling = "Fetching"]
    IN
    /\ pc = "fetching"
    /\ Patch(o, "building", o)

\* The snapshot oldInventory needs no variable: it is obj.inv, which nothing
\* changes until the new inventory is recorded.
ReportBuilding ==
    LET o == [obj EXCEPT !.attempted = art, !.reconciling = "Building"]
    IN
    /\ pc = "building"
    /\ Patch(o, "build", o)

\* The impersonating client, then the manifests.
BuildManifests ==
    /\ pc = "build"
    /\ \/ /\ Fault("client")
          /\ Return(MarkNotReady("ReconciliationFailed"), "retry")
          /\ UNCHANGED todo
       \/ /\ BuildFails(obj.spec, art)
          /\ Return(MarkNotReady("ReconciliationFailed"), "retry")
          /\ UNCHANGED <<todo, faults>>
       \/ /\ ~BuildFails(obj.spec, art)
          /\ todo' = Build(obj.spec)
          /\ pc' = "detecting"
          /\ UNCHANGED <<obj, result, faults>>
    /\ UNCHANGED <<cluster, cache, world, queued, timer, before, art, failed,
                   sent>>

ReportDetecting ==
    LET o == [obj EXCEPT !.reconciling = "Detecting"]
    IN
    /\ pc = "detecting"
    /\ Patch(o, "apply", o)

\* ApplyAll writes the objects one by one, with the owner labels on them; one
\* that is annotated against reconciliation is skipped.  The order is the
\* library's: any order is allowed.
ApplyObject(k) ==
    /\ pc = "apply"
    /\ k \in todo
    /\ todo' = todo \ {k}
    /\ live' = IF live[k].note \in NotApplied THEN live
               ELSE [live EXCEPT ![k].owner = "lm",
                                 ![k].content = ContentOf(obj.spec, art)]
    /\ UNCHANGED <<api, cache, world, queued, timer, pc, obj, before, art,
                   failed, sent, result, faults>>

\* An error ends ApplyAll: what is already applied stays, in no inventory.
ApplyFails ==
    /\ pc = "apply"
    /\ todo # {}
    /\ Fault("apply")
    /\ Return(MarkNotReady("ReconciliationFailed"), "retry")
    /\ UNCHANGED <<cluster, cache, world, queued, timer, before, run>>

\* The new inventory replaces the old one before the stale objects are pruned.
SetInventory(new, stale) ==
    /\ pc = "apply"
    /\ todo = {}
    /\ obj' = [obj EXCEPT !.inv = new]
    /\ IF obj.spec.prune
          THEN todo' = stale /\ pc' = "prune"
          ELSE todo' = {} /\ pc' = "checkHealth"
    /\ failed' = FALSE
    /\ UNCHANGED <<cluster, cache, world, queued, timer, before, art, sent, result,
                   faults>>

\* Mutants: the inventory is replaced only where there was one; the arguments
\* of Diff are swapped.
RecordInventoryIfAny ==
    LET new == IF obj.inv = {} THEN {} ELSE Build(obj.spec)
    IN  SetInventory(new, obj.inv \ new)
RecordInventorySwapped == SetInventory(Build(obj.spec), Build(obj.spec) \ obj.inv)

\* The inventory holds every entry of the change set, the skipped ones too;
\* Diff finds what the old inventory had beyond it.
RecordInventory == SetInventory(Build(obj.spec), obj.inv \ Build(obj.spec))

\* DeleteAll visits every object, whether an earlier one failed or not; it
\* skips one without the owner labels or with an exclusion annotation.
DeleteObject(k) ==
    /\ pc \in {"prune", "deleteAll"}
    /\ k \in todo
    /\ todo' = todo \ {k}
    /\ \/ /\ live' = IF live[k].owner = "lm" /\ live[k].note \notin NotDeleted
                        THEN [live EXCEPT ![k] = NoObject] ELSE live
          /\ UNCHANGED <<failed, faults>>
       \/ /\ Fault("prune")
          /\ failed' = TRUE
          /\ UNCHANGED live
    /\ UNCHANGED <<api, cache, world, queued, timer, pc, obj, before, art,
                   sent, result>>

PruneReturns ==
    /\ pc = "prune"
    /\ todo = {}
    /\ IF failed THEN Return(MarkNotReady("PruneFailed"), "retry")
                 ELSE pc' = "checkHealth" /\ UNCHANGED <<obj, result>>
    /\ UNCHANGED <<cluster, cache, world, queued, timer, before, run, faults>>

CheckHealth ==
    LET o == [obj EXCEPT !.reconciling = "Checking", !.healthy = "Unknown"]
    IN
    /\ pc = "checkHealth"
    /\ Patch(o, "wait", [o EXCEPT !.ready = "HealthCheckFailed"])

\* WaitForSet needs every applied object present and current before the
\* timeout.
WaitForSet ==
    /\ pc = "wait"
    /\ \/ /\ \A k \in obj.inv : live[k].owner # "absent"
          /\ obj' = [obj EXCEPT !.healthy = "True"]
          /\ pc' = "healthy"
          /\ UNCHANGED <<result, faults>>
       \/ /\ \/ Fault("health")
             \/ (\E k \in obj.inv : live[k].owner = "absent") /\ UNCHANGED faults
          /\ Return([obj EXCEPT !.ready = "HealthCheckFailed", !.healthy = "False"], "retry")
    /\ UNCHANGED <<cluster, cache, world, queued, timer, before, run>>

ReportHealthy ==
    /\ pc = "healthy"
    /\ Patch(obj, "succeed", MarkNotReady("HealthCheckFailed"))

Succeed ==
    /\ pc = "succeed"
    /\ Return([obj EXCEPT !.applied = art, !.ready = "ReconciliationSucceeded"],
              "interval")
    /\ UNCHANGED <<cluster, cache, world, queued, timer, before, run, faults>>

-----------------------------------------------------------------------------
(* finalize: the object is under deletion *)

RemoveFinalizer == Return([obj EXCEPT !.fin = FALSE], "done")

\* An error of the client or of DeleteAll keeps the finalizer, and is retried
\* with backoff.  An account that cannot be read counts as one that is gone.
GetClientFails == Return(obj, "error")

Finalize ==
    LET collects == obj.spec.prune /\ ~obj.spec.suspend /\ obj.inv # {}
    IN
    /\ pc = "finalize"
    /\ \/ /\ ~collects \/ ~account
          /\ RemoveFinalizer
          /\ UNCHANGED <<todo, failed, faults>>
       \/ /\ collects /\ account /\ Fault("impersonate")
          /\ RemoveFinalizer
          /\ UNCHANGED <<todo, failed>>
       \/ /\ collects /\ account /\ Fault("client")
          /\ GetClientFails
          /\ UNCHANGED <<todo, failed>>
       \/ /\ collects /\ account
          /\ todo' = obj.inv
          /\ failed' = FALSE
          /\ pc' = "deleteAll"
          /\ UNCHANGED <<obj, result, faults>>
    /\ UNCHANGED <<cluster, cache, world, queued, timer, before, art, sent>>

\* Mutant: a failed garbage collection is not returned as an error.
DeleteAllGivesUp == Return(obj, "done")

DeleteAllFails == Return(obj, "error")

DeleteAllReturns ==
    /\ pc = "deleteAll"
    /\ todo = {}
    /\ IF failed THEN DeleteAllFails ELSE RemoveFinalizer
    /\ UNCHANGED <<cluster, cache, world, queued, timer, before, run, faults>>

-----------------------------------------------------------------------------
(* finalizeStatus, and what the work queue makes of the result *)

\* Mutant: only a success acknowledges the reconcile request.
HandledOnSuccess(o) == IF o.asked # 0 /\ IsTrue(o) THEN o.asked ELSE o.handled

Handled(o) == IF o.asked # 0 THEN o.asked ELSE o.handled

\* Mutant: the retry reason is set on the Ready condition.
FinalizedOnReady(o) ==
    [o EXCEPT !.handled = Handled(o),
              !.observed = IF IsTrue(o) THEN o.gen ELSE @,
              !.ready = IF IsFalse(o) THEN "ProgressingWithRetry" ELSE @]

Finalized(o) ==
    [o EXCEPT !.handled = Handled(o),
              !.observed = IF IsTrue(o) THEN o.gen ELSE @,
              !.reconciling = CASE IsTrue(o) -> "none"
                                [] IsFalse(o) /\ @ # "none" -> "ProgressingWithRetry"
                                [] OTHER -> @]

\* Mutant: a failed run does not ask for another one.
RequeuesOnSuccess(o, r) ==
    \/ r \in {"requeue", "error"}
    \/ r = "interval" /\ GetRequeueAfter(o.spec) > 0

\* A RequeueAfter of zero asks for nothing.
Requeues(o, r) ==
    \/ r \in {"requeue", "error"}
    \/ r = "retry" /\ GetRetryInterval(o.spec) > 0
    \/ r = "interval" /\ GetRequeueAfter(o.spec) > 0

\* The worker is done with the key and keeps nothing of this run.
Forget ==
    /\ pc' = "idle"
    /\ obj' = Absent /\ before' = Absent
    /\ art' = 0 /\ todo' = {} /\ failed' = FALSE /\ sent' = {}
    /\ result' = "done"

FinalizeStatus ==
    LET o == Finalized(obj)
    IN
    /\ pc = "finalizeStatus"
    /\ \/ PatchSends(o) /\ UNCHANGED <<timer, pc, obj, before, art, todo, failed, result>>
       \/ PatchSucceeds(o) /\ timer' = (timer \/ Requeues(o, result)) /\ Forget
       \/ PatchFails(o) /\ timer' = TRUE /\ Forget
    /\ UNCHANGED <<cache, live, world, queued>>

TimerFires ==
    /\ timer
    /\ timer' = FALSE
    /\ queued' = TRUE
    /\ UNCHANGED <<cluster, cache, world, pc, obj, before, run, result, faults>>

-----------------------------------------------------------------------------
(* Watches *)

\* Mutant: a new generation does not pass the predicates.
ObjectEventIgnoresSpec(was, is) ==
    \/ was.exists # is.exists
    \/ was.uid # is.uid
    \/ was.asked # is.asked

\* Creations, deletions, new generations and new reconcile requests pass the
\* predicates; a mere status change does not.
ObjectEvent(was, is) ==
    \/ was.exists # is.exists
    \/ was.uid # is.uid
    \/ was.gen # is.gen
    \/ was.asked # is.asked

\* The informer catches up with the server and delivers its events.
SyncCache ==
    /\ cache # api
    /\ cache' = api
    /\ queued' = (queued \/ ObjectEvent(cache, api))
    /\ UNCHANGED <<cluster, world, timer, pc, obj, before, run, result, faults>>

\* SourceRevisionChangePredicate and requestsForRevisionChangeOf: an artifact
\* that appears or changes its revision, or goes with its source; losing the
\* artifact alone is no event.
SourceEvent(was, is) ==
    \/ is.rev # 0 /\ is.rev # was.rev
    \/ was.rev # 0 /\ ~is.found

-----------------------------------------------------------------------------
(* The surroundings *)

Change(kind) ==
    /\ kind \in Changes
    /\ changes > 0
    /\ changes' = changes - 1

ChangeOfApi ==
    UNCHANGED <<cache, live, source, account, queued, timer, pc, obj, before,
                run, result, faults>>

UserCreates ==
    /\ Change("create")
    /\ ~api.exists
    /\ \E s \in Specs : api' = NewLanguageModel(s, changes)
    /\ ChangeOfApi

\* The server counts spec changes in the generation.
UserEdits ==
    /\ Change("edit")
    /\ api.exists
    /\ \E s \in Specs \ {api.spec} : api' = [api EXCEPT !.spec = s, !.gen = @ + 1]
    /\ ChangeOfApi

\* A deletion is a new generation too, and is final at once for an object
\* without finalizers.
UserDeletes ==
    /\ Change("delete")
    /\ api.exists /\ ~api.deleting
    /\ api' = IF api.fin THEN [api EXCEPT !.deleting = TRUE, !.gen = @ + 1]
                         ELSE Absent
    /\ ChangeOfApi

\* A new value of the reconcile.fluxcd.io/requestedAt annotation.
UserRequests ==
    /\ Change("request")
    /\ api.exists
    /\ api' = [api EXCEPT !.asked = @ + 1]
    /\ ChangeOfApi

SourceChanges ==
    /\ Change("source")
    /\ \E s \in Sources \ {source} :
          /\ source' = s
          /\ queued' = (queued \/ (cache.exists /\ SourceEvent(source, s)))
    /\ UNCHANGED <<cluster, cache, account, timer, pc, obj, before, run, result, faults>>

AccountChanges ==
    /\ Change("account")
    /\ account' = ~account
    /\ UNCHANGED <<cluster, cache, source, queued, timer, pc, obj, before, run,
                   result, faults>>

ChangeOfObjects ==
    UNCHANGED <<api, cache, source, account, queued, timer, pc, obj, before,
                run, result, faults>>

\* Someone deletes a workload object, or puts one of their own in its place.
ObjectDrifts ==
    /\ Change("drift")
    /\ \E k \in Kinds, o \in {NoObject, ForeignObject} :
          live[k] # o /\ live' = [live EXCEPT ![k] = o]
    /\ ChangeOfObjects

\* Someone annotates a workload object against pruning, reconciliation or
\* application.
ObjectIsAnnotated ==
    /\ \E note \in Notes \ {"none"} :
          /\ Change(note)
          /\ \E k \in Kinds :
                /\ live[k].owner # "absent" /\ live[k].note = "none"
                /\ live' = [live EXCEPT ![k].note = note]
    /\ ChangeOfObjects

\* The process dies at any point; the next one lists the objects afresh,
\* which enqueues each of them.
Restart ==
    /\ Fault("crash")
    /\ Forget
    /\ cache' = api
    /\ queued' = api.exists
    /\ timer' = FALSE
    /\ UNCHANGED <<cluster, world>>

-----------------------------------------------------------------------------
Worker ==
    \/ GetFails \/ ReconcileNotFound \/ ReconcileDeletion \/ AddFinalizer
    \/ SkipSuspended \/ StartReconcile \/ GetSource
    \/ ReportFetching \/ ReportBuilding \/ BuildManifests \/ ReportDetecting
    \/ (\E k \in Kinds : ApplyObject(k)) \/ ApplyFails \/ RecordInventory
    \/ (\E k \in Kinds : DeleteObject(k)) \/ PruneReturns
    \/ CheckHealth \/ WaitForSet \/ ReportHealthy \/ Succeed
    \/ Finalize \/ DeleteAllReturns
    \/ FinalizeStatus

Surroundings ==
    \/ UserCreates \/ UserEdits \/ UserDeletes \/ UserRequests
    \/ SourceChanges \/ AccountChanges \/ ObjectDrifts \/ ObjectIsAnnotated

Next == Worker \/ TimerFires \/ SyncCache \/ Surroundings \/ Restart

Spec == Init /\ [][Next]_vars

\* A worker goroutine keeps running, a pending timer fires, and the watch
\* delivers: nothing is assumed of users, sources or failures.
Fairness == WF_vars(Worker) /\ WF_vars(TimerFires) /\ WF_vars(SyncCache)

FairSpec == Spec /\ Fairness

-----------------------------------------------------------------------------
(* Properties *)

\* Every variable stays within its type.
TypeOK ==
    /\ api \in LanguageModels /\ cache \in LanguageModels
    /\ live \in [Kinds -> Objects]
    /\ source \in Sources
    /\ account \in BOOLEAN /\ queued \in BOOLEAN /\ timer \in BOOLEAN
    /\ pc \in Stages
    /\ obj \in LanguageModels /\ before \in LanguageModels
    /\ art \in Nat /\ todo \subseteq Kinds /\ failed \in BOOLEAN
    /\ sent \subseteq {"conditions", "finalizers"}
    /\ result \in Results
    /\ faults \in Nat /\ changes \in Nat

\* "Add finalizer first if it doesn't exist to avoid the race condition
\* between init and delete": whatever a lagging cache, a crash, or a deletion
\* and recreation in the middle of a run do, the controller writes a workload
\* object only while the stored LanguageModel exists and holds the finalizer,
\* so that a deletion cannot complete without a finalize pass after the write.
AppliesUnderFinalizer ==
    [][\A k \in Kinds : live'[k].content # live[k].content /\ live'[k].owner = "lm"
          => api.exists /\ api.fin]_vars

\* The collection that finalize runs never takes down the workload of a
\* LanguageModel that is not being deleted: the stored object is under
\* deletion, is gone, or is a successor the controller has not adopted yet.
FinalizeSparesSuccessor ==
    pc = "deleteAll" => api.deleting \/ ~api.fin

\* The workload objects the controller last wrote for lm are those its spec
\* and its last attempted revision call for.
Deployed(lm) ==
    \A k \in Build(lm.spec) :
        \/ live[k].note \in NotApplied
        \/ live[k].owner = "lm" /\ live[k].content = ContentOf(lm.spec, lm.attempted)

\* A stored object that is Ready for its own generation, neither suspended
\* nor under deletion, is deployed as its spec says at its last attempted
\* revision, in every state: also in the middle of the next run, after a
\* partly failed status patch and after a crash.
ReadyMeansDeployed ==
    api.exists /\ ~api.deleting /\ ~api.spec.suspend
        /\ IsTrue(api) /\ api.observed = api.gen => Deployed(api)

\* "ObservedGeneration is the last reconciled generation", suspended or not.
ObservedMeansReconciled ==
    api.exists /\ ~api.deleting
        /\ IsTrue(api) /\ api.observed = api.gen => Deployed(api)

Owned(k) == live[k].owner = "lm" /\ live[k].note \notin NotDeleted

\* While no reconciliation runs, every workload object the controller owns is
\* in the stored inventory, and so within reach of the garbage collection.
InventoryComplete ==
    pc = "idle" => \A k \in Kinds : Owned(k) => k \in api.inv

\* "Run garbage collection for stale resources that do not have pruning
\* disabled": a LanguageModel with pruning that is Ready for its generation
\* has, between two patches, no workload object beyond those its spec calls
\* for.  (In the middle of one, a successor of a deleted object may be Ready
\* next to an observedGeneration that its predecessor's last patch left it.)
ReadyMeansCollected ==
    sent = {} /\ api.exists /\ api.spec.prune /\ ~api.spec.suspend /\ ~api.deleting
        /\ IsTrue(api) /\ api.observed = api.gen
        => \A k \in Kinds : Owned(k) => k \in Build(api.spec)

\* A run from a copy that lags may find Ready in progress there, and then has
\* nothing to send that takes a stored success away while it deploys the next
\* revision.  But it does not leave it so: between two runs, an object that is
\* Ready for its generation owns nothing of another spec or revision than the
\* last attempted one.
ReadyMeansCurrent ==
    pc = "idle" /\ api.exists /\ ~api.spec.suspend /\ ~api.deleting
        /\ IsTrue(api) /\ api.observed = api.gen
        => \A k \in Kinds : Owned(k) /\ live[k].note \notin NotApplied =>
               live[k].content = ContentOf(api.spec, api.attempted)

\* "Prune managed resources if the object is under deletion": when the stored
\* object disappears, no workload object of it is left.
NothingLeftBehind ==
    [][api.exists /\ ~api'.exists => \A k \in Kinds : ~Owned(k)]_vars

-----------------------------------------------------------------------------
(* Liveness *)

\* Once the surroundings rest, the cluster runs what the spec and the source
\* call for, whatever failed before.
WorkloadWanted ==
    /\ api.exists /\ ~api.deleting /\ ~api.spec.suspend
    /\ source.rev # 0 /\ ~BuildFails(api.spec, source.rev)
    /\ ~AccessDenied(api.spec)

Converges ==
    <>[](WorkloadWanted =>
            \A k \in Build(api.spec) :
                \/ live[k].note \in NotApplied
                \/ live[k].owner = "lm"
                   /\ live[k].content = ContentOf(api.spec, source.rev))

\* A deletion completes, even when collecting the workload fails at first.
DeletionCompletes == api.deleting ~> ~api.deleting

\* A reconcile request is acknowledged unless the object goes away.
RequestsAreHandled == (api.asked # api.handled) ~> (api.asked = api.handled)

\* "Broadcast the reconciliation failure and requeue at the specified retry
\* interval": a stored failure is followed by another run, unless the object
\* is suspended or deleted first.
FailuresAreRetried ==
    (pc = "idle" /\ api.exists /\ ~api.spec.suspend /\ IsFalse(api))
        ~> (pc # "idle" \/ ~api.exists \/ api.spec.suspend)
=============================================================================
