# A TLA+ model of the language model controller

The repository is a Kubernetes controller in the style of the Flux controllers.
A `LanguageModel` object names a source (an OCI repository, Git repository or
bucket that source-controller downloads) and an engine; the controller turns it
into a Deployment and a Service (with a volume claim when the model is cached),
or into a Knative Service, and keeps the cluster that way.

## Inventory of the system

| Part | State it keeps | Operations | What makes it correct |
|---|---|---|---|
| Reconciler, `internal/controller/languagemodel_controller.go` | none of its own between runs: everything is in the object's status, in the cluster and in the work queue; within a run a working copy and the patcher's base | `Reconcile`, `reconcile`, `finalize`, `finalizeStatus`, `patch`, `getSource`, `build*`, `apply`, `checkHealth`, `prune` | Ready tells the truth; what it created it can find again and delete; it converges, retries and completes deletions |
| API types, `api/v1alpha1` | spec, conditions, `observedGeneration`, attempted and applied revision, inventory, last handled request | `GetRetryInterval`, `GetRequeueAfter`, `GetTimeout`, defaults | intervals mean what they say |
| Inventory, `internal/inventory` | the list of object references, with versions, in the status | `AddChangeSet`, `List`, `Diff` | the difference of two inventories is what has to go, and nothing else goes |
| Watches, `source_predicate.go`, `languagemodel_indexers.go`, `SetupWithManager` | indexes from sources to objects, pending events | predicates, `requestsForRevisionChangeOf`, `indexBy` | no revision is lost, whatever the order of syncs, events and edits |
| Manifest builders, `chat_format.go`, `metadata.go` | none | `buildKubernetes`, `buildKnative`, `roundGigaQuantity`, `GetTimeout` | requests cover what the artifact needs and stay admissible; some CPU is left |
| Job status reader, `internal/statusreaders` | none | `jobConditions` | a finished Job is current, a failed one failed |
| Process, `cmd/main.go` | informer caches, work queue | start, leader election | a restart loses nothing that matters |

The parts meet in a few places only. Users write the spec and the deletion
timestamp, the controller writes finalizers and status, both to the API server.
The controller *reads* through an informer cache that may be behind its own last
write. Events on the object and on its source put its key into a work queue;
one worker at a time has the key; the result of a run puts the key back at once,
after an interval, or with backoff. The workload objects are written by
server-side apply, one object per request, and deleted the same way.

What is hard is not in any single function: a run makes up to six status patches
of up to three requests each and two loops of requests to the cluster; each may
fail, the process may die between any two of them, and a user may edit, delete
and recreate the object in the meantime. The hazards in `PROJECT.json` list the
places.

## Modules

* `LanguageModelTypes` has the values: the part of a spec that steers control,
  the stored object, the source, the workload objects, which objects `build`
  returns and when it fails. One LanguageModel is modelled; the names of its
  objects derive from its name, so a workload object is its kind. The identity
  `uid` tells a recreated object from its predecessor.
* `LanguageModelReconciler` is the state machine. `pc` is where `Reconcile` is,
  `obj` its working copy, `before` the patcher's base, `sent` the requests of
  the patch under way that have been made, `art` the revision being
  reconciled, `todo` what `ApplyAll` or `DeleteAll` still has to visit. The
  surroundings are `api` (the stored object), `cache` (the informer's copy),
  `live` (workload objects), `source`, `account` (the service account to
  impersonate), `queued` and `timer`.
* `Lifecycle` is what the reconciler promises, without caches, queues, patches or
  runs: an object is adopted before anything is created for it, an adopted object
  goes only through a finalization, and a finalization leaves nothing (or, if
  `Forgetful`, may leave objects). `ReconcilerLifecycle` is the refinement
  mapping: `phase` is read off the stored object, `owned` off the owner labels in
  the cluster. `MayForget` names the specs, changes and failures under which the
  code leaves objects on purpose or by accident; the lifecycle is the strict one
  whenever none of them can happen.
* `SourceWatch` is how a revision reaches the LanguageModels: `stored` and
  `source` are the server's objects, `cached` and `seen` the informers' copies,
  `objectEvents` and `sourceEvents` what the handlers have not seen yet, `dirty`
  the queue, `job` the workers, `timer` the delayed adds. A copy changes before
  its event is handled, and the informers do not wait for each other, so
  `requestsForRevisionChangeOf` looks an event up in an index that is older or
  newer than it. `missed` is a history variable: keys whose event an error of the
  list dropped. What a run does to the cluster is one step here.
* `Manifests` has what the builders compute: requests, limits, threads, the
  volume and the health check's wait. Bytes are counted in blocks of 512, of
  which 10^9 and 2^30 bytes are whole numbers, CPU in thousandths, the safety
  factors in fifths. The code multiplies by the float 1.20; its error is below
  the rounding of the product, so a whole product stays whole.
* `Inventory` has `inventory.go` on lists of identifiers with versions, malformed
  ones among them, and the use that successive runs of `reconcile` and `finalize`
  make of it. Here the calls succeed and the entries count, there they fail and
  the inventory is a set.
* `JobStatus` has `jobConditions` next to a Job controller that adds conditions
  one at a time, among them one the reader does not know and that turns false
  again, and a poller. No built object is a Job, so no health check reaches the
  reader, but `main` registers it all the same.
* `MCReconciler`, `MCSourceWatch`, `MCManifests` and `MCInventory` give the
  constants small values; the `.cfg` files choose among them and name the
  properties.
* The modules ending in `_proofs` have the theorems: one beside each of
  `LanguageModelReconciler`, `ReconcilerLifecycle`, `SourceWatch`, `Manifests`,
  `Inventory` and `JobStatus`, and two more about the reconciler,
  `GarbageCollection_proofs` and `Readiness_proofs`.

In `LanguageModelReconciler` every request that writes to the outside is a step
of its own, the requests of one patch included; code between two writes is one
step with the write before or after it. The actions follow the source from top
to bottom: `GetFails`, `ReconcileNotFound`, `ReconcileDeletion`, `AddFinalizer`,
`SkipSuspended` and `StartReconcile` are the ways out of the head of
`Reconcile`; `GetSource` its error cases; `ReportFetching` to `Succeed` are
`reconcile`; `Finalize`, `DeleteObject` and `DeleteAllReturns` are `finalize`;
`FinalizeStatus` is the deferred function and what the work queue makes of the
result. Definitions commented "Mutant" are plausible mistakes in the definition
after them; no action uses them.

Library behaviour is modelled from how the controller uses it:

* A patch sends the difference between base and working copy: conditions (under
  the resource version of the cached copy, so they wait for a current cache),
  then finalizers, then status, each in a request of its own (`PatchSends`, and
  `PatchSucceeds` for the last). A field without a difference keeps what the
  server has. The requests name no identity: one that comes late reaches
  whatever object has the name by then. A request that fails does not stop the
  next ones; they are in the same step with it (`PatchFails`), which is the only
  place where requests are not told apart.
* The server drops an object under deletion with its last finalizer, counts spec
  changes and the deletion in the generation, and answers NotFound for an object
  that is gone, which `patch` forgives only to an object under deletion.
* `ApplyAll` and `DeleteAll` visit objects one by one, in any order. The first
  stops at an error, the second goes on. The owner labels and the annotations of
  the objects in the cluster are honoured as the options say: `reconcile:
  disabled` and `ssa: Ignore` keep an object from being applied, `reconcile:
  disabled` and `prune: disabled` from being deleted. (The selectors for
  `ssa: IfNotPresent` and `force: enabled` are looked up on the object that is
  built, and no built object has annotations.)
* `CanImpersonate` says no for every error of reading the service account, so
  `finalize` lets go of the object then too (the failure `impersonate`).
* `RequeueAfter: 0` asks for nothing.

What a workload object was last applied *for* (engine settings and revision)
stands for its content.

Left out of the control flow: the branch for `fetch.FileNotFoundError` (nothing
in `reconcile` fetches), the stages of `apply` for cluster definitions and class
objects (no built object is one), `Force` and immutable fields (an apply that
fails for them is an apply error), panics, events and metrics, and the time an
object takes to terminate.

## Runs

`Faults` and `Changes` name what may go wrong and what may change outside,
`MaxFaults` and `MaxChanges` bound how often in one behaviour (`MaxEdits` in
`Inventory`); these are the only bounds, and they make every counter finite.
Deadlock is checked only in `manifests`, `inventory` and `job_status`; elsewhere, with the object deleted, or
suspended, or with nothing left to change, the system rightly rests.

| Run | Allowed to happen | Shows |
|---|---|---|
| `finalizer_safety` | lagging cache, one failure of any kind or crash, two changes of any kind but a request; four specs | `TypeOK`; the workload is written only under the finalizer (`AppliesUnderFinalizer`); `finalize` spares an object that is not under deletion (`FinalizeSparesSuccessor`); the forgetful lifecycle is implemented (`ImplementsLifecycle`) |
| `ready_means_deployed` | current copies, one failure or crash, two changes but no recreation, volume cache, a denied cross-namespace source, an artifact with malformed metadata | a stored Ready for the current generation is true of the cluster in every state (`ReadyMeansDeployed`) |
| `garbage_collection` | lagging cache, a failing read, source, client or health check, drift, three changes, two revisions | the inventory has every owned object (`InventoryComplete`), a Ready object has no stale ones (`ReadyMeansCollected`) nor, between two runs, one of another spec or revision (`ReadyMeansCurrent`), a deletion leaves nothing (`NothingLeftBehind`), the strict lifecycle is implemented (`ImplementsLifecycle`) |
| `convergence` | lagging cache, one failure or crash, two changes, suspension, a source that loses and regains its artifact; fairness | `Converges`, `DeletionCompletes`, `RequestsAreHandled`, `FailuresAreRetried` |
| `source_watch` | one LanguageModel that may refer to two sources, two workers, two changes, two failures (list, source, run) or crashes; fairness | with nothing under way the current revision of the current source is deployed (`NoLostRevision`); after dropped events too it gets there (`RevisionsArrive`) |
| `manifests` | every mix of missing, small and large amounts with artifacts of either suffix at a boundary, in exponent form or malformed | requests and volume cover the artifact (`RequestsCover`), stay below the limits (`StaysAdmissible`), threads leave CPU (`ThreadsLeaveCpu`) |
| `inventory` | every change set of up to three objects in two versions in any order, pruning on or off, deletion, recreation, two edits of the status by others | the collected are the stale (`DeletesOnlyStale`), the recorded stay (`RecordedStaysLive`), the rest is known (`NothingUntracked`) |
| `job_status` | five pods to succeed, seven failures to fail, one suspension, polls at any moment | only a completed Job is current (`CurrentMeansCompleted`), no verdict is taken back (`VerdictIsFinal`), every end is learnt of (`VerdictArrives`) |

The bounds are enough for the cases that matter: two changes are a deletion and
a recreation in the middle of one run, or an edit and a source that moves; three
add an edit of the successor. One failure at any call, in combination with them,
reaches every error path, and the retry after it is the interesting part.

`ready_means_deployed` starts every run from a current copy. From a lagging one
the property fails for the duration of the run: the copy already says
"in progress", so the progress patch has nothing to send and the stored Ready
stays True while the new revision is applied. `ReadyMeansCurrent`, which
`garbage_collection` checks with a lagging cache, says that the run does not
leave it so (a crash in the middle of it would). Nor does `ready_means_deployed`
create the object again: the last status request of a run on the deleted object
can reach its successor and leave it an `observedGeneration` of, say, 2; when the
successor is edited during its first run, which sends Ready before its own
`observedGeneration` of 1, the two meet for the time between the two requests.
For the same reason `ReadyMeansCollected` speaks of the states between two
patches. `garbage_collection` leaves out
failing applies, prunes and status patches and crashes, because the code does
not survive them (first two findings below); it does hold under a lagging cache.

`source_watch` has one LanguageModel, since keys meet only in the queue and two
of them leave room for a single change within TLC's reach; `NoRevisionIsLost` is
proved for any number. Two changes are an edit of the reference around a
revision that moves; the initial states are all combinations of objects and
sources. In `manifests` 10Gi rounds up to eleven units of 10^9 bytes, and
3G and a block to four.

Fairness is weak fairness of workers, pending timers and informers: goroutines
are scheduled, timers fire, watches deliver. In `SourceWatch` a key in the queue
is taken under strong fairness, because the queue is first in, first out, and a
key therefore gets a worker although the workers may be busy again and again. In
`JobStatus` only the poller is weakly fair. Nothing is assumed of users, sources,
pods or failures; changes and failures are only bounded in number.
`convergence` has a single revision, so that the lagging cache stays within TLC's
reach; revisions that move are `source_watch`'s.

### Disagreements the runs exhibit

* `prune_failure_forgets`: the new inventory replaces the old one before the
  stale objects are deleted (line 582 of the controller). If deleting one fails,
  the retry knows nothing of it any more and reports Ready.
* `apply_failure_forgets`: an apply error returns without an inventory (line
  567), although some objects may exist. A deletion before the next success
  finds nothing to collect.
* `suspend_observes`: `finalizeStatus` copies the generation of a suspended
  object whose Ready is still True, so a spec that was changed and suspended in
  one update counts as observed.
* `zero_interval_never_retries`: the schema admits `0s`, and a failed run then
  asks for no other.

Seen while modelling, without a run: the claim for a cached model is 10Gi
whatever the model's size (a `TODO` on line 686; `RequestsCover` speaks of the
other volumes only);
`GetTimeout` defaults to the interval less 30 seconds and at least 30, where the
field's comment says "Defaults to 'Interval' duration."; `buildKubernetes`
replaces the user's CPU limit by the request; `buildKnative` ignores the
metadata; objects that become stale while pruning is off stay when it is turned
on again (`kept` in `Inventory`), since they have left the inventory.

## Proofs

`LanguageModelReconciler_proofs` proves, for every set of specs and revisions,
all kinds and any number of failures and changes:

* `TypeCorrect`: `Spec => []TypeOK`;
* `FinalizerInvariant`: the inductive invariant below;
* `FinalizeIsSafe`: `Spec => []FinalizeSparesSuccessor`;
* `ApplyIsProtected`: `Spec => AppliesUnderFinalizer`.

The assumptions are those on the constants (`SpecsAssumption`,
`RevisionsAssumption`, `ReconcilerAssumption`), which TLC evaluates in every run.

Neither safety property is inductive, since a run acts on a copy the cache gave
it some time ago. `FinalizerInv` says what that copy still tells: a cached
finalizer without a deletion means that the stored object has the finalizer
(only this controller removes it, and only in a run that saw a deletion); a
cached deletion means that a stored object with the finalizer is under deletion
too (a successor gets its finalizer only from a run that saw it alive); a run
past the early returns therefore works under a stored finalizer, and a run of
`finalize` on an object that is under deletion, or gone, or not adopted. The
proof has one lemma for what a patch does to the finalizer (`PatchedFinalizer`,
`PatchFinalizer`) and one per group of actions. The module also has the lemmas
the next three modules share: what a request of a patch, or a patch that fails
in part, writes to the other fields (`PatchFields`), and what the progress patches, the stages
without a write and the users do (`RunPatch`, `StageMove`, `UserMove`).

`GarbageCollection_proofs` proves, where `MayForget` is false,

* `InventoryIsComplete`: `Spec => []InventoryComplete`;
* `DeletionLeavesNothing`: `Spec => NothingLeftBehind`;
* `ReadyIsCollected`: `Spec => []ReadyMeansCollected`.

`~MayForget` says of the constants that every spec prunes and none is suspended,
that the service account stays and can be read, that applies, prunes and patches
do not fail and that the process does not die. Each of these is a way in which the code leaves
objects on purpose or can lose track of them (the first two findings are
examples). The cache may lag, sources, clients and health checks may fail,
objects may drift and be annotated, users may create, edit and delete.

The inventory exists four times: stored, cached, in the patcher's base and in the
working copy. `CollectInv` (`CollectInvariant`) says which of them are complete
at which stage: the stored one everywhere but between the first apply and the
patch in `checkHealth`; while pruning, the working copy together with what is
left to prune; and when `finalize` drops the finalizer, nothing is owned. The
crucial conjunct is `CachedInventory`: a cached copy of the same object lags
behind the stored inventory only while the run that wrote it has yet to patch
the conditions (`"conditions" \notin sent`), and that request waits for the cache
because it carries a resource version. So no later run, and no `finalize`, starts from an old inventory.
`CollectedInv` (`CollectedInvariant`) adds the generations: a run reports the
generation it read, which may be an old one, but never a later one than the
cache has seen, so Ready for the stored generation comes from a run with the
stored spec. `Halfway` names the exception: a run that has sent its successful
conditions and not yet the status that carries their observed generation. Only
there does Ready stand beside the observed generation of an earlier run, which is
why `ReadyMeansCollected` speaks of the states in which no patch is half sent.

`ReconcilerLifecycle_proofs` proves `LifecycleIsImplemented`:
`Spec => ImplementsLifecycle`, without further assumptions. Initial states map to
initial states; each action is shown to move `Phase` and `OwnedKinds` as one step
of `Lifecycle` or not at all, from `TypeCorrect` and `FinalizerInvariant`: the
step that removes the last finalizer is a `Finish` because the stored object is
under deletion, an applied object is a `Write` because the finalizer is stored.
Where `MayForget` is false, a `Finish` also has to find nothing owned, which is
`CollectInvariant`.

`Readiness_proofs` proves `ReadyIsDeployed`: `Spec => []ReadyMeansDeployed`, for
runs that start from a current copy (`"stale" \notin Faults`), workloads that do
not drift (`"drift" \notin Changes`) and an object that is not created again
(`"create" \notin Changes`).
Everything else may happen, patches that fail in part and crashes included.
The exclusions are needed: an object that somebody deletes is missing until the
next run, and with a lagging copy or a recreation the property is false (see
Runs). `ReadyInv`
(`ReadyInvariant`) says that the run alone writes Ready and the attempted
revision and knows what is stored of them, request by request; that Ready is no
longer true once the
revision is written and while objects are applied and pruned; what is deployed
at each stage; and that a run which ends with Ready true has deployed what its
copy asks for, and a failed one that left Ready true has attempted no revision.

`SourceWatch_proofs` proves `WatchTyped` and `NoRevisionIsLost`, for any number of LanguageModels, sources, workers, failures
and changes. `NoLostRevision` speaks of states in which nothing is under way; the
inductive `WatchInv` accounts for all others: whatever the *copies* ask for is
`Pending` (an event, a key in the queue), or `Working` (a worker has the object
as cached, and has yet to read the source or has read it as it is in the cache),
or `Settled` (nobody works on it; it is deployed or waits for its retry). A copy
that changes makes an event (`RevisionsMakeEvents`), an event becomes a key, a
key a worker; a worker's result counts because the queue gives no other worker
the key (the lemma `KeysAreExclusive`).

`Manifests_proofs` proves `RequestsAlwaysCover`, `AlwaysAdmissible`,
`ThreadsAlwaysLeaveCpu` and `ManifestsTyped` for all amounts: `ManifestsInv` says
that what is built is what the builder returns, and `RoundGigaCovers` that
rounding up to units of 10^9 and printing in either unit covers the input.

`Inventory_proofs` proves `InventoryTyped`, `NothingWantedIsDeleted`,
`NothingIsLost` and `OnlyStaleIsDeleted` for all identifiers, versions and change
sets. `DiffIsSetDifference` reduces `Diff` to the difference of the identifiers;
`InventoryInv` adds to the properties that an inventory nobody else has written
parses, so that `Diff` does not fail after the new inventory took its place.

`JobStatus_proofs` proves `CurrentIsCompleted` and `VerdictStays` for every number
of pods and every backoff limit. `JobInv` adds that at most one condition
decides, that a true `Complete` means that the pods have succeeded, and that the
last verdict is still what the conditions say.

The assumptions of these four are those on the constants (`WatchAssumption`,
`ManifestsAssumption`, `InventoryAssumption`, `JobAssumption`).

Every invariant and action property of the passing runs has a theorem, but for
`ReadyMeansCurrent`, which is only model-checked so far. Only model-checked are
also the properties that need fairness, which is out of the prover's reach: `Converges`, `DeletionCompletes`, `RequestsAreHandled`,
`FailuresAreRetried`, `RevisionsArrive` and `VerdictArrives`.

## Not modelled

* Events, metrics, logging: they only inform outside observers, nothing reads
  them back.
* `generate_configmap.go`, which only its own test calls, and
  `ReferenceToObjMetadataSet`, which nothing calls.
* The error of `jobConditions` for a status that does not convert: the conditions
  of a Job come typed from the API server.
* The layout of the manifests: names, labels, probes, environment, and the table
  in `chat_format.go`, a map from one string to another.
* Flags, probes, profiling and leader election in `cmd/main.go`: set-up of
  libraries. Two processes at once are excluded by leader election.
* Generated deep copies.
* The time a workload object takes to terminate, panics (`RecoverPanic` turns one
  into an error of the run), and intervals of zero in `SourceWatch`, where every
  timer fires (`zero_interval_never_retries` shows what they do).

## Plan

What is left: a proof of `ReadyMeansCurrent`, what can still be said of the
inventory after a failure, where the theorems above exclude it; and the safety facts that the liveness properties rest on, such as that a
pending request, failure or deletion always has a key, a timer or a run behind
it, which the prover can reach where the liveness itself is out of it.
