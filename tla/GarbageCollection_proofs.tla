---------------------- MODULE GarbageCollection_proofs ----------------------
(***************************************************************************)
(* What the garbage collection can reach, for every set of specs and       *)
(* revisions and any number of failures and changes, where a run never     *)
(* loses track of the objects it applied (~MayForget): every spec prunes   *)
(* and none is suspended, the service account stays, and no run is cut off *)
(* between applying objects and storing the inventory.  The cache may lag, *)
(* objects may drift and be annotated, sources, clients and health checks  *)
(* may fail.                                                               *)
(***************************************************************************)
EXTENDS ReconcilerLifecycle, LanguageModelReconciler_proofs

OwnedWithin(S) == \A k \in Kinds : Owned(k) => k \in S

\* The stored inventory is complete except between the first object a run
\* applies and the patch that stores the new inventory.
StoredInventory ==
    /\ ~api.fin => OwnedWithin({})
    /\ pc \notin {"apply", "prune", "checkHealth"} => OwnedWithin(api.inv)

\* A cached copy of the same object lags behind the stored inventory only
\* until the next patch of the conditions, which the resource version holds
\* back until the cache has caught up.
CachedInventory ==
    cache.fin /\ api.fin =>
        \/ cache.inv = api.inv
        \/ /\ "conditions" \notin sent
           /\ \/ pc \in {"wait", "healthy"}
              \/ pc = "finalizeStatus" /\ obj.ready # before.ready

\* What a run knows of the inventory at each stage.
RunInventory ==
    /\ pc \in RunStages => before.inv = api.inv
    /\ pc \notin {"prune", "checkHealth"} => obj.inv = before.inv
    /\ pc \in {"detecting", "apply"} => todo \subseteq Build(obj.spec)
    /\ pc = "apply" => OwnedWithin(obj.inv \cup Build(obj.spec))
    /\ pc \in {"prune", "checkHealth", "wait", "healthy", "succeed"}
          => obj.inv = Build(obj.spec)
    /\ pc = "prune" => OwnedWithin(obj.inv \cup todo)
    /\ pc = "checkHealth" => OwnedWithin(obj.inv)

\* The conditions of a run after its first report differ from those the last
\* patches write.
RunConditions ==
    /\ pc \in RunStages \ {"getSource", "fetching"}
          => obj.ready = "Progressing" /\ before.ready = "Progressing"
    /\ pc \in {"wait", "healthy"} => before.healthy = "Unknown"
    /\ pc = "healthy" => obj.healthy = "True"

\* A finalization collects everything before it drops the finalizer.
FinalizeInventory ==
    /\ pc \in {"finalize", "deleteAll"} => obj.fin
    /\ pc = "finalize" => OwnedWithin(obj.inv)
    /\ pc = "deleteAll" => OwnedWithin(todo)
    /\ pc = "finalizeStatus" /\ obj.deleting /\ ~obj.fin => OwnedWithin({})

CollectInv ==
    /\ account /\ ~failed
    /\ StoredInventory /\ CachedInventory
    /\ RunInventory /\ RunConditions /\ FinalizeInventory

-----------------------------------------------------------------------------
\* What a run that never forgets may rely on.
LEMMA NeverForgets ==
    ASSUME ~MayForget
    PROVE  /\ \A s \in Specs : s.prune /\ ~s.suspend
           /\ "account" \notin Changes
           /\ "patch" \notin Faults /\ "impersonate" \notin Faults /\ "apply" \notin Faults
           /\ "prune" \notin Faults /\ "crash" \notin Faults
  BY DEF MayForget

\* Nothing is owned at first, and the invariant holds.
LEMMA InitCollect == Init => CollectInv
<1> SUFFICES ASSUME Init PROVE CollectInv
  OBVIOUS
<1>1. \A k \in Kinds : ~Owned(k)
  BY DEF Init, Owned, NoObject
<1>2. pc = "idle" /\ obj = before /\ cache = api /\ account /\ ~failed
  BY DEF Init
<1>3. pc \notin RunStages
  BY <1>2 DEF RunStages
<1> QED BY <1>1, <1>2, <1>3 DEF CollectInv, StoredInventory, CachedInventory, RunInventory,
           RunConditions, FinalizeInventory, OwnedWithin

\* A step that leaves the object, the run and the workload alone.
LEMMA StutterKeepsCollectInv ==
    ASSUME CollectInv, 
           UNCHANGED <<api, cache, live, account, pc, obj, before, todo, failed, sent>>
    PROVE  CollectInv'
  BY DEF CollectInv, StoredInventory, CachedInventory, RunInventory, RunConditions,
         FinalizeInventory, OwnedWithin, Owned

\* The read at the start of Reconcile and the early returns.
LEMMA GetKeepsCollectInv ==
    ASSUME TypeOK, FinalizerInv, CollectInv,
           GetFails \/ ReconcileNotFound \/ ReconcileDeletion \/ AddFinalizer
              \/ SkipSuspended \/ StartReconcile
    PROVE  CollectInv'
<1>1. /\ UNCHANGED <<api, cache, live, account, todo, failed, sent>>
      /\ cache \in LanguageModels /\ pc = "idle"
  BY DEF GetFails, ReconcileNotFound, ReconcileDeletion, AddFinalizer, SkipSuspended,
         StartReconcile, Get, cluster, world, run, TypeOK
<1>2. CASE GetFails \/ ReconcileNotFound
  BY <1>1, <1>2, StutterKeepsCollectInv DEF GetFails, ReconcileNotFound
<1>3. StoredInventory' /\ OwnedWithin(api.inv) /\ (cache.fin /\ api.fin => cache.inv = api.inv)
      /\ (~api.fin => OwnedWithin({}))
  BY <1>1 DEF CollectInv, StoredInventory, CachedInventory, OwnedWithin, Owned
<1>4. CachedInventory'
  BY <1>1, <1>3 DEF CachedInventory
<1>5. CASE ReconcileDeletion
  <2>1. obj' = cache /\ before' = cache /\ pc' = "finalize" /\ cache.fin
    BY <1>5 DEF ReconcileDeletion, FinalizerInv, Storable
  <2>2. OwnedWithin(cache.inv)'
    BY <1>1, <1>3, <2>1 DEF OwnedWithin, Owned
  <2>3. pc' \notin RunStages
    BY <2>1 DEF RunStages
  <2> QED BY <1>1, <1>3, <1>4, <2>1, <2>2, <2>3
          DEF CollectInv, RunInventory, RunConditions, FinalizeInventory, OwnedWithin
<1>6. CASE AddFinalizer \/ SkipSuspended
  <2>1. /\ before' = cache /\ pc' = "finalizeStatus"
        /\ obj' = cache \/ obj' = [cache EXCEPT !.fin = TRUE]
        /\ ~cache.deleting
    BY <1>6 DEF AddFinalizer, SkipSuspended, Return
  <2>2. obj'.inv = cache.inv /\ obj'.deleting = cache.deleting
    BY <1>1, <2>1 DEF LanguageModels
  <2>3. pc' \notin RunStages
    BY <2>1 DEF RunStages
  <2> QED BY <1>1, <1>3, <1>4, <2>1, <2>2, <2>3
          DEF CollectInv, RunInventory, RunConditions, FinalizeInventory
<1>7. CASE StartReconcile
  <2>1. obj' = cache /\ before' = cache /\ pc' = "getSource" /\ cache.fin /\ ~cache.deleting
    BY <1>7 DEF StartReconcile
  <2>2. api.fin
    BY <2>1 DEF FinalizerInv
  <2> QED BY <1>1, <1>3, <1>4, <2>1, <2>2
          DEF CollectInv, RunInventory, RunConditions, FinalizeInventory
<1> QED BY <1>2, <1>5, <1>6, <1>7

\* The stages that write nothing outside.
LEMMA StageKeepsCollectInv ==
    ASSUME TypeOK, FinalizerInv, CollectInv, ~MayForget,
           GetSource \/ BuildManifests \/ ApplyFails \/ PruneReturns \/ WaitForSet \/ Succeed
    PROVE  CollectInv'
<1>1. StageMoves
  BY StageMove
<1>2. "apply" \notin Faults /\ ~failed
  BY NeverForgets DEF CollectInv
<1>3. UNCHANGED <<api, live, cache, before, account, sent>> /\ obj'.inv = obj.inv
      /\ obj'.spec = obj.spec /\ obj'.deleting = obj.deleting
  BY <1>1 DEF StageMoves
<1>4. pc \in RunStages
  BY <1>1 DEF StageMoves, RunStages
<1>5. ~obj.deleting
  BY <1>4 DEF FinalizerInv
<1>6. StoredInventory'
  BY <1>1, <1>2, <1>3 DEF CollectInv, StoredInventory, RunInventory, StageMoves, OwnedWithin, Owned
<1>7. CachedInventory'
  BY <1>1, <1>2, <1>3 DEF CollectInv, CachedInventory, RunConditions, RunStages, StageMoves,
     IsTrue, IsFalse, FailedReasons
<1>8. RunInventory'
  BY <1>1, <1>2, <1>3 DEF CollectInv, StoredInventory, RunInventory, RunStages, StageMoves, OwnedWithin, Owned
<1>9. RunConditions'
  BY <1>1, <1>2, <1>3 DEF CollectInv, RunConditions, RunStages, StageMoves
<1>10. FinalizeInventory'
  BY <1>1, <1>5 DEF FinalizeInventory, StageMoves
<1>11. account' /\ ~failed'
  BY <1>1, <1>2, <1>3 DEF CollectInv, StageMoves
<1> QED BY <1>6, <1>7, <1>8, <1>9, <1>10, <1>11 DEF CollectInv

\* The progress patches, the one that stores the new inventory among them.
LEMMA ReportKeepsCollectInv ==
    ASSUME TypeOK, FinalizerInv, CollectInv, ~MayForget,
           ReportFetching \/ ReportBuilding \/ ReportDetecting \/ CheckHealth \/ ReportHealthy
    PROVE  CollectInv'
<1>1. PICK o \in LanguageModels, e \in LanguageModels :
         \E next : Patch(o, next, e) /\ ReportsWith(o, e, next)
  BY RunPatch
<1>2. PICK next : Patch(o, next, e) /\ ReportsWith(o, e, next)
  BY <1>1
<1>3. pc \in RunStages /\ pc' # "idle"
  BY <1>2 DEF ReportsWith, RunStages, Patch, Return
<1>4. api.exists /\ api.fin /\ before.fin /\ obj.fin /\ ~obj.deleting
  BY <1>3 DEF FinalizerInv, Storable
<1>5. ~PatchFails(o)
  BY <1>4, NeverForgets DEF PatchFails, Fault
<1>6. \/ PatchSends(o) /\ UNCHANGED <<before, obj, pc>>
      \/ PatchSucceeds(o) /\ before' = o /\ obj' = o /\ pc' = next
  BY <1>2, <1>5 DEF Patch
<1>7. UNCHANGED <<cache, live, account, todo, failed>>
  BY <1>2 DEF Patch, world
<1>8. ~PatchEnds(o)
  BY <1>2, <1>4 DEF PatchEnds, ReportsWith, Changed
<1>9. /\ PatchWrites(o, api')
      /\ PatchSends(o) => PatchKeepsStatus(api')
      /\ PatchSucceeds(o) => PatchWritesStatus(o, api')
  BY <1>4, <1>6, <1>8, PatchFields
<1>10. /\ o.spec = obj.spec /\ o.inv = obj.inv /\ before.inv = api.inv
       /\ api'.fin
  BY <1>2, <1>3, <1>4, <1>9
     DEF ReportsWith, CollectInv, RunInventory, PatchWrites, Writes
<1>11. /\ PatchSends(o) => api'.inv = api.inv
       /\ PatchSucceeds(o) => api'.inv = o.inv
  BY <1>9, <1>10 DEF PatchKeepsStatus, PatchWritesStatus, Changed
<1>12. "conditions" \notin sent /\ o.healthy # before.healthy => cache = api
  <2>1. o.healthy # before.healthy => Part(o, "conditions") # Part(before, "conditions")
    BY DEF Part
  <2> QED BY <1>4, <1>6, <2>1
          DEF PatchSends, PatchSucceeds, ConditionsCanBeWritten, Unsent, PatchParts
<1>13. CASE PatchSends(o) /\ UNCHANGED <<before, obj, pc>>
  <2>1. CachedInventory'
    <3>1. CASE cache.fin => cache.inv = api.inv
      BY <1>7, <1>11, <1>13, <3>1 DEF CachedInventory
    <3>2. CASE ~(cache.fin => cache.inv = api.inv)
      <4>1. pc = "healthy" /\ "conditions" \notin sent
        BY <1>2, <1>4, <3>2 DEF CollectInv, CachedInventory, ReportsWith
      <4>2. cache = api
        BY <1>2, <1>12, <4>1 DEF ReportsWith, CollectInv, RunConditions
      <4> QED BY <3>2, <4>2
    <3> QED BY <3>1, <3>2
  <2>2. StoredInventory'
    BY <1>4, <1>7, <1>10, <1>11, <1>13
       DEF CollectInv, StoredInventory, OwnedWithin, Owned
  <2>3. RunInventory' /\ RunConditions' /\ FinalizeInventory'
    BY <1>7, <1>11, <1>13
       DEF CollectInv, RunInventory, RunConditions, FinalizeInventory, OwnedWithin, Owned
  <2> QED BY <1>7, <2>1, <2>2, <2>3 DEF CollectInv
<1>14. CASE PatchSucceeds(o) /\ before' = o /\ obj' = o /\ pc' = next
  <2>1. StoredInventory'
    BY <1>2, <1>7, <1>10, <1>11, <1>14
       DEF CollectInv, StoredInventory, RunInventory, ReportsWith, OwnedWithin, Owned
  <2>2. CachedInventory'
    <3>1. CASE pc = "checkHealth"
      <4>1. sent' = {} /\ pc' = "wait"
        BY <1>2, <1>14, <3>1 DEF ReportsWith, PatchSucceeds
      <4> QED BY <4>1 DEF CachedInventory
    <3>2. CASE pc = "healthy"
      <4>1. o.healthy # before.healthy
        BY <1>2, <3>2 DEF ReportsWith, CollectInv, RunConditions
      <4>2. cache.fin => cache.inv = api.inv
        BY <1>4, <1>12, <3>2, <4>1 DEF CollectInv, CachedInventory
      <4> QED BY <1>7, <1>10, <1>11, <1>14, <3>2, <4>2 DEF CollectInv, RunInventory, CachedInventory
    <3>3. CASE pc \in {"fetching", "building", "detecting"}
      <4>1. cache.fin => cache.inv = api.inv
        BY <1>4, <3>3 DEF CollectInv, CachedInventory
      <4>2. obj.inv = before.inv
        BY <3>3 DEF CollectInv, RunInventory
      <4> QED BY <1>7, <1>10, <1>11, <1>14, <4>1, <4>2 DEF CachedInventory
    <3> QED BY <1>2, <3>1, <3>2, <3>3 DEF ReportsWith
  <2>3. RunInventory'
    BY <1>2, <1>7, <1>10, <1>11, <1>14
       DEF CollectInv, StoredInventory, RunInventory, ReportsWith, OwnedWithin, Owned
  <2>4. RunConditions'
    <3>1. o.ready = "Progressing"
      BY <1>2, <1>3 DEF ReportsWith, CollectInv, RunConditions
    <3> QED BY <1>2, <1>14, <3>1 DEF ReportsWith, RunConditions
  <2>5. FinalizeInventory'
    BY <1>2, <1>14 DEF ReportsWith, FinalizeInventory
  <2> QED BY <1>7, <2>1, <2>2, <2>3, <2>4, <2>5 DEF CollectInv
<1> QED BY <1>6, <1>13, <1>14

\* ApplyAll writes only objects of the new inventory.
LEMMA ApplyKeepsCollectInv ==
    ASSUME TypeOK, FinalizerInv, CollectInv, NEW k \in Kinds, ApplyObject(k)
    PROVE  CollectInv'
<1>1. /\ UNCHANGED <<api, cache, account, pc, obj, before, failed, sent>> /\ pc = "apply"
      /\ todo' = todo \ {k} /\ k \in todo
  BY DEF ApplyObject, world
<1>2. api.fin
  BY <1>1 DEF FinalizerInv, RunStages
<1>3. \A j \in Kinds \ {k} : live'[j] = live[j]
  BY DEF ApplyObject, TypeOK
<1>4. \A j \in Kinds : Owned(j)' => Owned(j) \/ j = k
  BY <1>3 DEF Owned
<1>5. k \in Build(obj.spec) /\ todo' \subseteq Build(obj.spec)
  BY <1>1 DEF CollectInv, RunInventory
<1>6. OwnedWithin(obj.inv \cup Build(obj.spec))'
  BY <1>1, <1>4, <1>5 DEF CollectInv, RunInventory, OwnedWithin
<1>7. StoredInventory' /\ CachedInventory' /\ RunConditions' /\ FinalizeInventory'
  BY <1>1, <1>2 DEF CollectInv, StoredInventory, CachedInventory, RunConditions, FinalizeInventory
<1>8. RunInventory'
  BY <1>1, <1>5, <1>6 DEF CollectInv, RunInventory
<1> QED BY <1>1, <1>7, <1>8 DEF CollectInv

\* The new inventory replaces the old one; what only the old one had is
\* left to prune.
LEMMA RecordKeepsCollectInv ==
    ASSUME TypeOK, FinalizerInv, CollectInv, ~MayForget, RecordInventory
    PROVE  CollectInv'
<1>0. obj \in LanguageModels /\ obj.spec.prune
  BY NeverForgets DEF TypeOK, LanguageModels
<1>1. /\ UNCHANGED <<api, cache, live, account, before, sent>>
      /\ pc = "apply" /\ pc' = "prune"
      /\ obj' = [obj EXCEPT !.inv = Build(obj.spec)] /\ ~failed'
      /\ todo' = obj.inv \ Build(obj.spec)
  BY <1>0 DEF RecordInventory, SetInventory, cluster, world
<1>2. obj'.inv = Build(obj.spec) /\ obj'.spec = obj.spec /\ obj'.ready = obj.ready
  BY <1>0, <1>1 DEF LanguageModels
<1>3. api.fin
  BY <1>1 DEF FinalizerInv, RunStages
<1>4. OwnedWithin(obj.inv \cup Build(obj.spec))
  BY <1>1 DEF CollectInv, RunInventory
<1>5. OwnedWithin(obj.inv \cup todo)'
  BY <1>1, <1>2, <1>4 DEF OwnedWithin, Owned
<1>6. StoredInventory' /\ CachedInventory' /\ RunConditions' /\ FinalizeInventory'
  BY <1>1, <1>2, <1>3
     DEF CollectInv, StoredInventory, CachedInventory, RunConditions, FinalizeInventory, RunStages
<1>7. RunInventory'
  BY <1>1, <1>2, <1>5 DEF CollectInv, RunInventory, RunStages
<1> QED BY <1>1, <1>6, <1>7 DEF CollectInv

\* Deletions by the controller or anyone else, takeovers and annotations.
LEMMA LossKeepsCollectInv ==
    ASSUME TypeOK, CollectInv, ~MayForget,
           (\E k \in Kinds : DeleteObject(k)) \/ ObjectDrifts \/ ObjectIsAnnotated
    PROVE  CollectInv'
<1>1. \A j \in Kinds : Owned(j)' => Owned(j)
  BY NothingGained
<1>2. UNCHANGED <<api, cache, account, pc, obj, before, sent>>
  BY DEF DeleteObject, ObjectDrifts, ObjectIsAnnotated, ChangeOfObjects, world, run
<1>3. CASE ObjectDrifts \/ ObjectIsAnnotated
  <2>1. UNCHANGED <<todo, failed>>
    BY <1>3 DEF ObjectDrifts, ObjectIsAnnotated, ChangeOfObjects, run
  <2> QED BY <1>1, <1>2, <2>1 DEF CollectInv, StoredInventory, CachedInventory, RunInventory,
          RunConditions, FinalizeInventory, OwnedWithin
<1>4. ASSUME NEW k \in Kinds, DeleteObject(k) PROVE CollectInv'
  <2>1. pc \in {"prune", "deleteAll"} /\ todo' = todo \ {k} /\ failed' = failed
        /\ live' = IF live[k].owner = "lm" /\ live[k].note \notin NotDeleted
                   THEN [live EXCEPT ![k] = NoObject] ELSE live
    BY <1>4, NeverForgets DEF DeleteObject, Fault
  <2>2. ~Owned(k)'
    <3>1. CASE Owned(k)
      <4>1. live'[k] = NoObject
        BY <2>1, <3>1 DEF Owned, TypeOK
      <4> QED BY <4>1 DEF Owned, NoObject
    <3>2. CASE ~Owned(k)
      BY <1>1, <3>2
    <3> QED BY <3>1, <3>2
  <2>3. pc = "prune" => OwnedWithin(obj.inv \cup todo)'
    BY <1>1, <1>2, <2>1, <2>2 DEF CollectInv, RunInventory, OwnedWithin
  <2>4. pc = "deleteAll" => OwnedWithin(todo)'
    BY <1>1, <1>2, <2>1, <2>2 DEF CollectInv, FinalizeInventory, OwnedWithin
  <2>5. RunInventory' /\ FinalizeInventory'
    BY <1>2, <2>1, <2>3, <2>4 DEF CollectInv, RunInventory, FinalizeInventory
  <2>6. StoredInventory' /\ CachedInventory' /\ RunConditions'
    BY <1>1, <1>2 DEF CollectInv, StoredInventory, CachedInventory, RunConditions, OwnedWithin
  <2> QED BY <1>2, <2>1, <2>5, <2>6 DEF CollectInv
<1> QED BY <1>3, <1>4

\* finalize and its collection: the finalizer is dropped with nothing left.
LEMMA FinalizeKeepsCollectInv ==
    ASSUME TypeOK, FinalizerInv, CollectInv, ~MayForget, Finalize \/ DeleteAllReturns
    PROVE  CollectInv'
<1>0. obj \in LanguageModels /\ obj.spec.prune /\ ~obj.spec.suspend
  BY NeverForgets DEF TypeOK, LanguageModels
<1> DEFINE released == [obj EXCEPT !.fin = FALSE]
<1>1. UNCHANGED <<api, cache, live, account, before, sent>>
  BY DEF Finalize, DeleteAllReturns, cluster, world, run
<1>2. account /\ ~failed
  BY DEF CollectInv
<1>3. \/ /\ pc = "finalize" /\ obj.inv = {} /\ pc' = "finalizeStatus" /\ failed' = failed
         /\ obj' = released
      \/ /\ pc = "finalize" /\ pc' = "finalizeStatus" /\ obj' = obj /\ failed' = failed
      \/ /\ pc = "finalize" /\ pc' = "deleteAll" /\ obj' = obj /\ todo' = obj.inv /\ ~failed'
      \/ /\ pc = "deleteAll" /\ todo = {} /\ pc' = "finalizeStatus" /\ failed' = failed
         /\ obj' = released
  BY <1>0, <1>2, NeverForgets DEF Finalize, Fault, DeleteAllReturns, RemoveFinalizer, GetClientFails,
     DeleteAllFails, Return, run
<1>4. released.inv = obj.inv
  BY <1>0 DEF LanguageModels
<1> HIDE DEF released
<1>5. obj'.inv = obj.inv
  BY <1>3, <1>4
<1>6. StoredInventory'
  BY <1>1, <1>3 DEF CollectInv, StoredInventory, OwnedWithin, Owned
<1>7. CachedInventory'
  BY <1>1, <1>3 DEF CollectInv, CachedInventory
<1>8. RunInventory' /\ RunConditions'
  BY <1>1, <1>3, <1>5 DEF CollectInv, RunInventory, RunConditions, RunStages
<1>9. FinalizeInventory'
  <2>1. CASE pc' = "deleteAll"
    BY <1>1, <1>3, <2>1 DEF CollectInv, FinalizeInventory, OwnedWithin, Owned
  <2>2. CASE pc' = "finalizeStatus" /\ obj' = obj
    <3>1. pc \in {"finalize", "deleteAll"}
      BY <1>3
    <3> QED BY <1>1, <1>3, <2>2, <3>1 DEF CollectInv, FinalizeInventory, OwnedWithin, Owned
  <2>3. CASE pc' = "finalizeStatus" /\ obj' = released
             /\ \/ pc = "finalize" /\ obj.inv = {}
                \/ pc = "deleteAll" /\ todo = {}
    BY <1>1, <2>3 DEF CollectInv, FinalizeInventory, OwnedWithin, Owned
  <2> QED BY <1>3, <2>1, <2>2, <2>3
<1> QED BY <1>1, <1>2, <1>3, <1>6, <1>7, <1>8, <1>9 DEF CollectInv

\* What a request of finalizeStatus does to an object that is there: it ends
\* the object, with nothing left of it, or leaves its inventory as it is.
LEMMA FinalizeStatusPatch ==
    ASSUME TypeOK, FinalizerInv, CollectInv, ~MayForget, FinalizeStatus, api.exists
    PROVE  /\ \/ api' = Absent /\ ~api'.exists /\ ~api'.fin /\ OwnedWithin({})
              \/ api'.exists /\ api'.inv = api.inv
           /\ api.fin /\ ~api'.fin => OwnedWithin({})
           /\ "conditions" \notin sent /\ obj.ready # before.ready => cache = api
<1> DEFINE o == Finalized(obj)
<1>1. pc = "finalizeStatus" /\ (PatchSends(o) \/ PatchSucceeds(o) \/ PatchFails(o))
  BY DEF FinalizeStatus
<1>2. /\ o \in LanguageModels /\ o.fin = obj.fin /\ o.ready = obj.ready /\ o.inv = obj.inv
  BY FinalizedFields DEF TypeOK
<1> HIDE DEF o
<1>3. PatchSends(o) \/ PatchSucceeds(o)
  BY <1>1, NeverForgets DEF PatchFails, Fault
<1>4. obj.inv = before.inv /\ (~obj.fin => obj.deleting)
  BY <1>1 DEF CollectInv, RunInventory, FinalizerInv
<1>5. ~obj.fin => OwnedWithin({})
  BY <1>1, <1>4 DEF CollectInv, FinalizeInventory
<1>6. PatchEnds(o) => ~obj.fin
  BY <1>2 DEF PatchEnds, Changed, FinalizerInv, Storable
<1>7. PatchWrites(o, api') => api'.exists /\ api'.inv = api.inv
  BY <1>2, <1>4 DEF PatchWrites, Writes
<1>8. PatchWrites(o, api') /\ api.fin /\ ~api'.fin => ~obj.fin
  BY <1>2 DEF PatchWrites, Writes
<1>9. "conditions" \notin sent /\ obj.ready # before.ready => cache = api
  <2>1. obj.ready # before.ready => Part(o, "conditions") # Part(before, "conditions")
    BY <1>2 DEF Part
  <2> QED BY <1>3, <2>1
          DEF PatchSends, PatchSucceeds, ConditionsCanBeWritten, Unsent, PatchParts
<1>10. \/ PatchEnds(o) /\ api' = Absent /\ ~api'.exists /\ ~api'.fin
       \/ PatchWrites(o, api')
  BY <1>2, <1>3, PatchFields
<1> QED BY <1>5, <1>6, <1>7, <1>8, <1>9, <1>10

\* The deferred patch: it drops the finalizer only when nothing is left.
LEMMA FinalizeStatusKeepsCollectInv ==
    ASSUME TypeOK, FinalizerInv, CollectInv, ~MayForget, FinalizeStatus
    PROVE  CollectInv'
<1>1. /\ pc = "finalizeStatus" /\ UNCHANGED <<cache, live, account>> /\ ~failed'
      /\ \/ pc' = "idle" /\ obj' = before'
         \/ UNCHANGED <<pc, obj, before>>
  BY DEF FinalizeStatus, Forget, world, CollectInv
<1>2. \A S : OwnedWithin(S) <=> OwnedWithin(S)'
  BY <1>1 DEF OwnedWithin, Owned
<1>3. OwnedWithin(api.inv) /\ (~api.fin => OwnedWithin({}))
  BY <1>1 DEF CollectInv, StoredInventory
<1>4. ~api.exists => api' = api
  BY DEF FinalizeStatus, PatchSends, PatchSucceeds, PatchFails
<1>5. ~api.exists => ~api.fin
  BY DEF FinalizerInv, Storable
<1>6. StoredInventory'
  <2>1. CASE ~api.exists
    BY <1>1, <1>3, <1>4, <2>1 DEF StoredInventory, OwnedWithin, Owned
  <2>2. CASE api.exists
    <3>1. ~api'.fin => OwnedWithin({})
      BY <1>3, <2>2, FinalizeStatusPatch
    <3>2. OwnedWithin(api'.inv)
      BY <1>3, <2>2, FinalizeStatusPatch DEF OwnedWithin
    <3> QED BY <1>1, <3>1, <3>2 DEF StoredInventory, OwnedWithin, Owned
  <2> QED BY <2>1, <2>2
<1>7. ASSUME cache.fin, api'.fin PROVE cache.inv = api'.inv
  <2>1. api.fin
    <3>1. CASE obj.deleting
      <4>1. before.fin /\ (\/ PatchSends(Finalized(obj)) \/ PatchSucceeds(Finalized(obj))
                           \/ PatchFails(Finalized(obj)))
        BY <1>1, <3>1 DEF FinalizerInv, RunsFinalize, FinalizeStatus
      <4> QED BY <1>7, <4>1, PatchFinalizer, FinalizedFields DEF FinalizerInv, TypeOK
    <3>2. CASE ~obj.deleting
      BY <1>1, <1>7, <3>2 DEF FinalizerInv, SeesDeletion, Storable
    <3> QED BY <3>1, <3>2
  <2>2. api.exists
    BY <1>5, <2>1
  <2>3. api'.inv = api.inv
    BY <1>7, <2>2, FinalizeStatusPatch
  <2>4. cache.inv = api.inv
    BY <1>1, <1>7, <2>1, <2>2, FinalizeStatusPatch DEF CollectInv, CachedInventory
  <2> QED BY <2>3, <2>4
<1>8. CachedInventory'
  BY <1>1, <1>7 DEF CachedInventory
<1>9. CASE pc' = "idle" /\ obj' = before'
  <2>1. RunInventory' /\ RunConditions' /\ FinalizeInventory'
    BY <1>9 DEF RunInventory, RunConditions, FinalizeInventory, RunStages
  <2> QED BY <1>1, <1>6, <1>8, <2>1 DEF CollectInv
<1>10. CASE UNCHANGED <<pc, obj, before>>
  <2>1. RunInventory' /\ RunConditions' /\ FinalizeInventory'
    BY <1>1, <1>2, <1>10 DEF CollectInv, RunInventory, RunConditions, FinalizeInventory, RunStages
  <2> QED BY <1>1, <1>6, <1>8, <2>1 DEF CollectInv
<1> QED BY <1>1, <1>9, <1>10

\* Users hold neither the finalizer nor the inventory.
LEMMA UserKeepsCollectInv ==
    ASSUME TypeOK, FinalizerInv, CollectInv,
           UserCreates \/ UserEdits \/ UserDeletes \/ UserRequests
    PROVE  CollectInv'
<1>1. UNCHANGED <<cache, live, account, pc, obj, before, todo, failed, sent>>
  BY DEF UserCreates, UserEdits, UserDeletes, UserRequests, ChangeOfApi, run
<1>2. UserMoves
  BY UserMove
<1>3. \/ api'.inv = api.inv /\ api'.fin = api.fin
      \/ ~api.fin /\ ~api'.fin
  BY <1>2, AbsentFields DEF UserMoves, FinalizerInv, Storable
<1>4. CASE api'.inv = api.inv /\ api'.fin = api.fin
  BY <1>1, <1>4 DEF CollectInv, StoredInventory, CachedInventory, RunInventory,
     RunConditions, FinalizeInventory, OwnedWithin, Owned
<1>5. CASE ~api.fin /\ ~api'.fin
  <2>1. pc \notin RunStages
    BY <1>5 DEF FinalizerInv
  <2>2. OwnedWithin({})
    BY <1>5 DEF CollectInv, StoredInventory
  <2> QED BY <1>1, <1>5, <2>1, <2>2 DEF CollectInv, StoredInventory, CachedInventory,
          RunInventory, RunConditions, FinalizeInventory, OwnedWithin, Owned
<1> QED BY <1>3, <1>4, <1>5

\* While nothing is forgotten, what the runs, the cache and the stored object
\* know of the inventory stays consistent.
THEOREM CollectInvariant ==
    ASSUME ~MayForget
    PROVE  Spec => []CollectInv
<1>1. TypeOK /\ FinalizerInv /\ CollectInv /\ [Next]_vars => CollectInv'
  <2> SUFFICES ASSUME TypeOK, FinalizerInv, CollectInv, [Next]_vars PROVE CollectInv'
    OBVIOUS
  <2>1. CASE TimerFires \/ SourceChanges
    BY <2>1, StutterKeepsCollectInv DEF TimerFires, SourceChanges, cluster, world, run
  <2>2. CASE SyncCache
    <3>1. cache' = api /\ UNCHANGED <<api, live, account, pc, obj, before, todo, failed, sent>>
      BY <2>2 DEF SyncCache, cluster, world, run
    <3> QED BY <3>1 DEF CollectInv, StoredInventory, CachedInventory, RunInventory,
            RunConditions, FinalizeInventory, OwnedWithin, Owned
  <2>3. ~AccountChanges /\ ~Restart
    BY NeverForgets DEF AccountChanges, Change, Restart, Fault
  <2>4. CASE UNCHANGED vars
    BY <2>4, StutterKeepsCollectInv DEF vars
  <2> QED
    BY <2>1, <2>2, <2>3, <2>4, GetKeepsCollectInv, StageKeepsCollectInv,
       ReportKeepsCollectInv, ApplyKeepsCollectInv, RecordKeepsCollectInv,
       LossKeepsCollectInv, FinalizeKeepsCollectInv, FinalizeStatusKeepsCollectInv,
       UserKeepsCollectInv
       DEF Next, Worker, Surroundings
<1> QED BY <1>1, InitCollect, TypeCorrect, FinalizerInvariant, PTL DEF Spec

\* Between two runs the stored inventory holds every object the controller
\* owns, although runs start from a cache that lags.
THEOREM InventoryIsComplete ==
    ASSUME ~MayForget
    PROVE  Spec => []InventoryComplete
<1>1. CollectInv => InventoryComplete
  BY DEF CollectInv, StoredInventory, OwnedWithin, InventoryComplete
<1> QED BY <1>1, CollectInvariant, PTL

\* A LanguageModel is gone only when none of its objects is left.
THEOREM DeletionLeavesNothing ==
    ASSUME ~MayForget
    PROVE  Spec => NothingLeftBehind
<1> DEFINE A == api.exists /\ ~api'.exists => \A k \in Kinds : ~Owned(k)
<1>1. TypeOK /\ FinalizerInv /\ CollectInv /\ [Next]_vars => [A]_vars
  <2> SUFFICES ASSUME TypeOK, FinalizerInv, CollectInv, Next, api.exists, ~api'.exists
               PROVE  \A k \in Kinds : ~Owned(k)
    OBVIOUS
  <2> SUFFICES OwnedWithin({})
    BY DEF OwnedWithin
  <2>1. CASE UserCreates \/ UserEdits \/ UserDeletes \/ UserRequests
    BY <2>1, UserMove DEF UserMoves, CollectInv, StoredInventory
  <2>2. CASE FinalizeStatus
    BY <2>2, FinalizeStatusPatch
  <2>3. CASE \/ ReportFetching \/ ReportBuilding \/ ReportDetecting
             \/ CheckHealth \/ ReportHealthy
    <3>1. PICK o \in LanguageModels, e \in LanguageModels :
             \E next : Patch(o, next, e) /\ ReportsWith(o, e, next)
      BY <2>3, RunPatch
    <3>2. PICK next : Patch(o, next, e) /\ ReportsWith(o, e, next)
      BY <3>1
    <3>3. PatchSends(o) \/ PatchSucceeds(o) \/ PatchFails(o)
      BY <3>2 DEF Patch
    <3>4. pc \in RunStages
      BY <3>2 DEF ReportsWith, RunStages
    <3>5. ~PatchEnds(o)
      BY <3>2, <3>4 DEF FinalizerInv, ReportsWith, PatchEnds, Changed
    <3> QED BY <3>3, <3>5, PatchFields DEF PatchWrites
  <2>4. CASE api' = api
    BY <2>4
  <2>5. CASE \/ GetFails \/ ReconcileNotFound \/ ReconcileDeletion \/ AddFinalizer
             \/ SkipSuspended \/ StartReconcile \/ GetSource
             \/ BuildManifests \/ ApplyFails \/ RecordInventory \/ PruneReturns
             \/ WaitForSet \/ Succeed \/ Finalize \/ DeleteAllReturns
             \/ (\E k \in Kinds : ApplyObject(k)) \/ (\E k \in Kinds : DeleteObject(k))
    BY <2>4, <2>5 DEF GetFails, ReconcileNotFound, ReconcileDeletion, AddFinalizer, SkipSuspended,
       StartReconcile, Get, GetSource, BuildManifests, ApplyFails, RecordInventory,
       SetInventory, PruneReturns, WaitForSet, Succeed, Finalize, DeleteAllReturns,
       ApplyObject, DeleteObject, cluster
  <2>6. CASE \/ TimerFires \/ SyncCache \/ Restart \/ SourceChanges \/ AccountChanges
             \/ ObjectDrifts \/ ObjectIsAnnotated
    BY <2>4, <2>6 DEF TimerFires, SyncCache, Restart, SourceChanges, AccountChanges,
       ObjectDrifts, ObjectIsAnnotated, ChangeOfObjects, cluster
  <2> QED BY <2>1, <2>2, <2>3, <2>5, <2>6 DEF Next, Worker, Surroundings
<1>2. [][A]_vars => NothingLeftBehind
  BY DEF NothingLeftBehind
<1> QED BY <1>1, <1>2, TypeCorrect, FinalizerInvariant, CollectInvariant, PTL DEF Spec

-----------------------------------------------------------------------------
(***************************************************************************)
(* Ready for a generation means collected for it.  The controller reports  *)
(* the generation of the copy it read, which may be an old one; the        *)
(* invariant bounds what has been reported by what the cache has seen.     *)
(***************************************************************************)

\* A run has stored Ready true and has still to store the generation.
Halfway ==
    pc = "finalizeStatus" /\ "conditions" \in sent /\ ~obj.deleting /\ IsTrue(obj)

\* Only an object the cache knows to be adopted is Ready, and for no later
\* generation than the cache has.
ReadyIsSeen ==
    /\ IsTrue(api) => api.fin /\ cache.fin /\ (Halfway \/ api.observed <= cache.gen)
    /\ IsTrue(cache) => cache.fin

\* A cached copy of the same object is an earlier one.
CacheIsEarlier ==
    api.fin /\ cache.fin =>
        /\ cache.gen <= api.gen
        /\ cache.gen = api.gen => cache.spec = api.spec
        /\ cache.observed = api.observed \/ api.observed <= cache.gen

\* So is the working copy of a run.
RunIsEarlier ==
    /\ pc # "idle" /\ before.fin /\ api.fin =>
          /\ cache.fin /\ obj.gen <= cache.gen
          /\ obj.gen = api.gen => obj.spec = api.spec
          /\ before.observed = api.observed \/ api.observed <= obj.gen
          /\ IsTrue(api) => Halfway \/ api.observed <= obj.gen
    /\ pc # "idle" => obj.observed = before.observed

\* A run ends with Ready true only after it has pruned.
SuccessIsCollected ==
    /\ pc = "finalizeStatus" /\ ~obj.deleting /\ before.fin => api.fin
    /\ pc \in {"finalize", "deleteAll"} => obj.ready = before.ready
    /\ pc = "finalizeStatus" /\ (obj.deleting \/ ~before.fin) => obj.ready = before.ready
    /\ pc = "finalizeStatus" /\ ~obj.deleting /\ IsTrue(obj)
          => before.fin /\ OwnedWithin(Build(obj.spec))

Collected ==
    IsTrue(api) /\ ~api.deleting /\ api.observed = api.gen /\ ~Halfway
        => OwnedWithin(Build(api.spec))

CollectedInv ==
    ReadyIsSeen /\ CacheIsEarlier /\ RunIsEarlier /\ SuccessIsCollected /\ Collected

\* Generations are numbers.
LEMMA GenerationType ==
    ASSUME NEW o \in LanguageModels
    PROVE  o.gen \in Nat /\ o.observed \in Int /\ o.fin \in BOOLEAN
  BY DEF LanguageModels

\* Nothing is Ready at first.
LEMMA InitCollected == Init => CollectedInv
<1> SUFFICES ASSUME Init PROVE CollectedInv
  OBVIOUS
<1>1. PICK s \in Specs : api = NewLanguageModel(s, MaxChanges + 1)
  BY DEF Init
<1>2. ~IsTrue(api) /\ ~api.fin
  BY <1>1 DEF NewLanguageModel, IsTrue
<1>3. cache = api /\ pc = "idle"
  BY DEF Init
<1> QED BY <1>2, <1>3 DEF CollectedInv, ReadyIsSeen, CacheIsEarlier, RunIsEarlier,
           SuccessIsCollected, Collected, Halfway

\* A step that leaves the objects and the run alone, and gains no workload.
LEMMA StutterKeepsCollectedInv ==
    ASSUME CollectedInv, UNCHANGED <<api, cache, pc, obj, before, sent>>,
           \A k \in Kinds : Owned(k)' => Owned(k)
    PROVE  CollectedInv'
  BY DEF CollectedInv, ReadyIsSeen, CacheIsEarlier, RunIsEarlier, SuccessIsCollected,
         Collected, Halfway, OwnedWithin, IsTrue

\* The read at the start of Reconcile and the early returns.
LEMMA GetKeepsCollectedInv ==
    ASSUME TypeOK, FinalizerInv, CollectedInv, ~MayForget,
           GetFails \/ ReconcileNotFound \/ ReconcileDeletion \/ AddFinalizer
              \/ SkipSuspended \/ StartReconcile
    PROVE  CollectedInv'
<1>1. UNCHANGED <<api, cache, live, sent>> /\ cache \in LanguageModels
      /\ pc = "idle"
  BY DEF GetFails, ReconcileNotFound, ReconcileDeletion, AddFinalizer, SkipSuspended,
         StartReconcile, Get, cluster, run, TypeOK
<1>2. CASE GetFails \/ ReconcileNotFound
  BY <1>1, <1>2, StutterKeepsCollectedInv DEF GetFails, ReconcileNotFound, Owned
<1>3. ~SkipSuspended
  BY <1>1, NeverForgets DEF SkipSuspended, LanguageModels
<1>0. ~Halfway
  BY <1>1 DEF Halfway
<1>4. ReadyIsSeen' /\ CacheIsEarlier' /\ Collected'
  BY <1>0, <1>1 DEF CollectedInv, ReadyIsSeen, CacheIsEarlier, Collected, OwnedWithin, Owned, IsTrue
<1>5. /\ cache.gen \in Nat /\ api.gen \in Nat /\ api.observed \in Int
  BY GenerationType DEF TypeOK
<1>6. CASE ReconcileDeletion \/ StartReconcile
  <2>1. obj' = cache /\ before' = cache /\ cache.fin /\ pc' \in {"finalize", "getSource"}
    BY <1>6 DEF ReconcileDeletion, StartReconcile, FinalizerInv, Storable
  <2>2. RunIsEarlier'
    BY <1>0, <1>1, <1>5, <2>1 DEF CollectedInv, ReadyIsSeen, CacheIsEarlier, RunIsEarlier, IsTrue
  <2>3. SuccessIsCollected'
    BY <2>1 DEF SuccessIsCollected
  <2> QED BY <1>4, <2>2, <2>3 DEF CollectedInv
<1>7. CASE AddFinalizer
  <2> DEFINE o == [cache EXCEPT !.fin = TRUE]
  <2>1. before' = cache /\ pc' = "finalizeStatus" /\ obj' = o /\ ~cache.fin
    BY <1>7 DEF AddFinalizer, Return
  <2>2. o.ready = cache.ready /\ o.observed = cache.observed
    BY <1>1 DEF LanguageModels
  <2> HIDE DEF o
  <2>3. ~IsTrue(o)
    BY <2>1, <2>2 DEF CollectedInv, ReadyIsSeen, IsTrue
  <2>4. RunIsEarlier' /\ SuccessIsCollected'
    BY <2>1, <2>2, <2>3 DEF RunIsEarlier, SuccessIsCollected, IsTrue
  <2> QED BY <1>4, <2>4 DEF CollectedInv
<1> QED BY <1>2, <1>3, <1>6, <1>7

\* The stages that write nothing outside: Ready is true only at the end of a
\* run that has pruned.
LEMMA StageKeepsCollectedInv ==
    ASSUME TypeOK, FinalizerInv, CollectInv, CollectedInv,
           GetSource \/ BuildManifests \/ ApplyFails \/ PruneReturns \/ WaitForSet \/ Succeed
    PROVE  CollectedInv'
<1>1. StageMoves
  BY StageMove
<1>2. /\ UNCHANGED <<api, cache, live, before>> /\ pc \in RunStages /\ pc' # "idle"
      /\ pc' \notin {"finalize", "deleteAll"} /\ pc # "idle"
      /\ obj'.spec = obj.spec /\ obj'.gen = obj.gen /\ obj'.observed = obj.observed
      /\ obj'.deleting = obj.deleting
  BY <1>1 DEF StageMoves, RunStages
<1>0. ~Halfway
  BY <1>2 DEF Halfway, RunStages
<1>3. api.fin /\ before.fin /\ ~obj.deleting
  BY <1>2 DEF FinalizerInv
<1>4. pc' = "finalizeStatus" /\ IsTrue(obj') => pc = "succeed"
  BY <1>1 DEF StageMoves, IsTrue, IsFalse, FailedReasons
<1>5. pc = "succeed" => OwnedWithin(Build(obj.spec))
  BY DEF CollectInv, StoredInventory, RunInventory, RunStages
<1>6. SuccessIsCollected'
  BY <1>2, <1>3, <1>4, <1>5 DEF SuccessIsCollected, OwnedWithin, Owned
<1>7. ReadyIsSeen' /\ CacheIsEarlier' /\ Collected'
  BY <1>0, <1>2 DEF CollectedInv, ReadyIsSeen, CacheIsEarlier, Collected, OwnedWithin, Owned, IsTrue
<1>8. RunIsEarlier'
  BY <1>0, <1>2 DEF CollectedInv, RunIsEarlier, IsTrue
<1> QED BY <1>6, <1>7, <1>8 DEF CollectedInv

\* The progress patches make nothing Ready and report no generation.
LEMMA ReportKeepsCollectedInv ==
    ASSUME TypeOK, FinalizerInv, CollectInv, CollectedInv, ~MayForget,
           ReportFetching \/ ReportBuilding \/ ReportDetecting \/ CheckHealth \/ ReportHealthy
    PROVE  CollectedInv'
<1>1. PICK o \in LanguageModels, e \in LanguageModels :
         \E next : Patch(o, next, e) /\ ReportsWith(o, e, next)
  BY RunPatch
<1>2. PICK next : Patch(o, next, e) /\ ReportsWith(o, e, next)
  BY <1>1
<1>3. pc \in RunStages /\ pc # "idle"
  BY <1>2 DEF ReportsWith, RunStages
<1>4. api.exists /\ api.fin /\ before.fin /\ obj.fin
  BY <1>3 DEF FinalizerInv, Storable
<1>5. ~PatchFails(o)
  BY <1>4, NeverForgets DEF PatchFails, Fault
<1>6. /\ UNCHANGED <<cache, live>>
      /\ \/ PatchSends(o) /\ UNCHANGED <<before, obj, pc>>
         \/ PatchSucceeds(o) /\ before' = o /\ obj' = o /\ pc' = next
  BY <1>2, <1>5 DEF Patch
<1>7. ~PatchEnds(o) /\ ~Halfway
  BY <1>2, <1>3, <1>4 DEF PatchEnds, ReportsWith, Changed, Halfway, RunStages
<1>8. PatchWrites(o, api')
  BY <1>4, <1>6, <1>7, PatchFields
<1>9. o.ready = "Progressing" /\ o.observed = before.observed /\ o.fin
      /\ o.gen = obj.gen /\ o.spec = obj.spec /\ obj.observed = before.observed
  BY <1>2, <1>3, <1>4 DEF ReportsWith, CollectInv, RunConditions, CollectedInv, RunIsEarlier
<1>10. /\ api'.observed = api.observed /\ api'.gen = api.gen /\ api'.spec = api.spec
       /\ api'.fin /\ api'.deleting = api.deleting
       /\ IsTrue(api') => IsTrue(api)
  BY <1>4, <1>8, <1>9 DEF PatchWrites, Writes, IsTrue
<1>11. ReadyIsSeen' /\ CacheIsEarlier'
  BY <1>4, <1>6, <1>7, <1>10 DEF CollectedInv, ReadyIsSeen, CacheIsEarlier, IsTrue
<1>12. Collected'
  BY <1>6, <1>7, <1>10 DEF CollectedInv, Collected, OwnedWithin, Owned
<1>13. RunIsEarlier'
  BY <1>3, <1>4, <1>6, <1>7, <1>9, <1>10 DEF CollectedInv, RunIsEarlier
<1>14. SuccessIsCollected'
  BY <1>2, <1>6 DEF ReportsWith, SuccessIsCollected
<1> QED BY <1>11, <1>12, <1>13, <1>14 DEF CollectedInv

\* A run that writes while the stored object is Ready for its generation has
\* read that generation.
LEMMA ApplyKeepsCollectedInv ==
    ASSUME TypeOK, FinalizerInv, CollectInv, CollectedInv, NEW k \in Kinds, ApplyObject(k)
    PROVE  CollectedInv'
<1>1. UNCHANGED <<api, cache, pc, obj, before>> /\ pc = "apply" /\ k \in todo
  BY DEF ApplyObject
<1>0. ~Halfway
  BY <1>1 DEF Halfway
<1>2. api.fin /\ before.fin
  BY <1>1 DEF FinalizerInv, RunStages
<1>3. \A j \in Kinds \ {k} : live'[j] = live[j]
  BY DEF ApplyObject, TypeOK
<1>4. \A j \in Kinds : Owned(j)' => Owned(j) \/ j = k
  BY <1>3 DEF Owned
<1>5. k \in Build(obj.spec)
  BY <1>1 DEF CollectInv, RunInventory
<1>6. /\ cache.gen \in Nat /\ api.gen \in Nat /\ api.observed \in Int /\ obj.gen \in Nat
  BY GenerationType DEF TypeOK
<1>7. IsTrue(api) /\ api.observed = api.gen => obj.spec = api.spec
  BY <1>0, <1>1, <1>2, <1>6 DEF CollectedInv, CacheIsEarlier, RunIsEarlier
<1>8. Collected'
  BY <1>0, <1>1, <1>4, <1>5, <1>7 DEF CollectedInv, Collected, OwnedWithin, IsTrue
<1>9. ReadyIsSeen' /\ CacheIsEarlier' /\ RunIsEarlier'
  BY <1>0, <1>1 DEF CollectedInv, ReadyIsSeen, CacheIsEarlier, RunIsEarlier, IsTrue
<1>10. SuccessIsCollected'
  BY <1>1 DEF SuccessIsCollected
<1> QED BY <1>8, <1>9, <1>10 DEF CollectedInv

\* Recording the inventory, and the stages of finalize.
LEMMA FinalizeKeepsCollectedInv ==
    ASSUME TypeOK, FinalizerInv, CollectedInv,
           RecordInventory \/ Finalize \/ DeleteAllReturns
    PROVE  CollectedInv'
<1>0. obj \in LanguageModels
  BY DEF TypeOK
<1> DEFINE released == [obj EXCEPT !.fin = FALSE]
           recorded == [obj EXCEPT !.inv = Build(obj.spec)]
           Same(o) == /\ o.spec = obj.spec /\ o.gen = obj.gen /\ o.observed = obj.observed
                      /\ o.ready = obj.ready /\ o.deleting = obj.deleting
<1>1. /\ UNCHANGED <<api, cache, live, before>>
      /\ pc \in {"apply", "finalize", "deleteAll"} /\ pc' # "idle"
      /\ pc = "apply" => pc' \in {"prune", "checkHealth"}
      /\ pc # "apply" => pc' \in {"finalize", "deleteAll", "finalizeStatus"}
      /\ obj' = obj \/ obj' = released \/ obj' = recorded
  BY DEF RecordInventory, SetInventory, Finalize, DeleteAllReturns, RemoveFinalizer,
         GetClientFails, DeleteAllFails, Return, cluster
<1>8. ~Halfway
  BY <1>1 DEF Halfway
<1>2. Same(released) /\ Same(recorded)
  BY <1>0 DEF LanguageModels
<1> HIDE DEF released, recorded
<1>3. Same(obj')
  BY <1>1, <1>2
<1>4. ReadyIsSeen' /\ CacheIsEarlier' /\ Collected'
  BY <1>1, <1>8 DEF CollectedInv, ReadyIsSeen, CacheIsEarlier, Collected, OwnedWithin, Owned, IsTrue
<1>5. RunIsEarlier'
  BY <1>1, <1>3, <1>8 DEF CollectedInv, RunIsEarlier, IsTrue
<1>6. CASE pc = "apply"
  <2>1. SuccessIsCollected'
    BY <1>1, <1>6 DEF SuccessIsCollected
  <2> QED BY <1>4, <1>5, <2>1 DEF CollectedInv
<1>7. CASE pc # "apply"
  <2>1. obj.deleting /\ obj.ready = before.ready
    BY <1>1, <1>7 DEF FinalizerInv, RunsFinalize, CollectedInv, SuccessIsCollected
  <2>2. SuccessIsCollected'
    BY <1>1, <1>3, <2>1 DEF SuccessIsCollected
  <2> QED BY <1>4, <1>5, <2>2 DEF CollectedInv
<1> QED BY <1>6, <1>7

\* What a request of finalizeStatus does to the status it reports: the last
\* one ends the run, another leaves the generation to the last one.
LEMMA FinalizeStatusReports ==
    ASSUME TypeOK, FinalizerInv, CollectedInv, ~MayForget, FinalizeStatus, api.exists
    PROVE  /\ \/ obj.deleting /\ ~obj.fin /\ api' = Absent
              \/ /\ api'.gen = api.gen /\ api'.spec = api.spec
                 /\ api'.deleting = api.deleting
                 /\ api'.ready = api.ready \/ (obj.ready # before.ready /\ api'.ready = obj.ready)
                 /\ Storable(api')
                 /\ obj.fin /\ api.fin => api'.fin
                 /\ before.fin /\ api'.fin => api.fin
                 /\ \/ /\ UNCHANGED <<pc, obj, before>> /\ sent \subseteq sent'
                       /\ api'.observed = api.observed
                       /\ "conditions" \notin sent' => api'.ready = api.ready
                    \/ /\ pc' = "idle"
                       /\ api'.observed = Changed(before.observed, Finalized(obj).observed,
                                                  api.observed)
<1> DEFINE o == Finalized(obj)
<1>1. /\ pc = "finalizeStatus"
      /\ \/ PatchSends(o) /\ UNCHANGED <<pc, obj, before>>
         \/ PatchSucceeds(o) /\ pc' = "idle"
         \/ PatchFails(o)
  BY DEF FinalizeStatus, Forget
<1>2. o \in LanguageModels /\ o.fin = obj.fin /\ o.ready = obj.ready
  BY FinalizedFields DEF TypeOK
<1> HIDE DEF o
<1>3. ~PatchFails(o)
  BY NeverForgets DEF PatchFails, Fault
<1>4. \/ PatchEnds(o) /\ api' = Absent
      \/ /\ PatchWrites(o, api')
         /\ PatchSucceeds(o) => PatchWritesStatus(o, api')
         /\ PatchSends(o) => PatchKeepsStatus(api')
  BY <1>1, <1>2, <1>3, PatchFields
<1>5. PatchEnds(o) => ~obj.fin /\ obj.deleting
  BY <1>1, <1>2 DEF PatchEnds, Changed, FinalizerInv, Storable
<1>6. /\ Storable(api')
      /\ obj.fin /\ api.fin => api'.fin
      /\ before.fin /\ api'.fin => api.fin
  BY <1>1, <1>2, PatchFinalizer DEF FinalizerInv
<1>7. PatchSends(o) => /\ sent \subseteq sent'
                       /\ "conditions" \notin sent' =>
                             (api' = Absent /\ PatchEnds(o)) \/ api'.ready = api.ready
  <2> SUFFICES ASSUME PatchSends(o)
               PROVE  /\ sent \subseteq sent'
                      /\ "conditions" \notin sent' =>
                            (api' = Absent /\ PatchEnds(o)) \/ api'.ready = api.ready
    OBVIOUS
  <2>1. PICK part \in {"conditions", "finalizers"} :
           api' = Patched(o, {part}) /\ sent' = sent \cup {part}
    BY DEF PatchSends
  <2>2. "conditions" \notin sent' => "conditions" \notin {part}
    BY <2>1
  <2>3. "conditions" \notin {part} =>
           \/ Patched(o, {part}) = Absent /\ PatchEnds(o)
           \/ Patched(o, {part}).ready = api.ready
    BY <1>2, PatchedFields DEF TypeOK
  <2> QED BY <2>1, <2>2, <2>3
<1>8. PatchWrites(o, api') =>
         /\ api'.gen = api.gen /\ api'.spec = api.spec /\ api'.deleting = api.deleting
         /\ api'.ready = api.ready \/ (obj.ready # before.ready /\ api'.ready = obj.ready)
  BY <1>2 DEF PatchWrites, Writes
<1> QED BY <1>1, <1>3, <1>4, <1>5, <1>6, <1>7, <1>8
        DEF PatchKeepsStatus, PatchWritesStatus, o

\* The deferred patch: a run that ends with Ready true has collected for the
\* generation it reports, and any other leaves Ready true only where it was.
LEMMA FinalizeStatusKeepsCollectedInv ==
    ASSUME TypeOK, FinalizerInv, CollectInv, CollectedInv, ~MayForget, FinalizeStatus
    PROVE  CollectedInv'
<1> DEFINE seen == Finalized(obj).observed
<1>1. /\ pc = "finalizeStatus" /\ UNCHANGED <<cache, live>>
      /\ pc' = "idle" \/ UNCHANGED <<pc, obj, before>>
  BY DEF FinalizeStatus, Forget
<1>2. seen = IF IsTrue(obj) THEN obj.gen ELSE obj.observed
  BY FinalizedFields DEF TypeOK
<1> HIDE DEF seen
<1>3. obj.observed = before.observed
  BY <1>1 DEF CollectedInv, RunIsEarlier
<1>4. \A S : OwnedWithin(S) <=> OwnedWithin(S)'
  BY <1>1 DEF OwnedWithin, Owned
<1>5. /\ api.gen \in Nat /\ cache.gen \in Nat /\ obj.gen \in Nat
      /\ api.observed \in Int /\ cache.observed \in Int /\ before.observed \in Int
  BY GenerationType DEF TypeOK
<1>6. IsTrue(cache) => cache.fin
  BY DEF CollectedInv, ReadyIsSeen
<1>7. CASE ~api.exists
  <2>1. api' = api /\ pc' = "idle" /\ ~api.fin
    BY <1>7 DEF FinalizeStatus, Forget, PatchSends, PatchSucceeds, PatchFails,
                FinalizerInv, Storable
  <2>2. ~IsTrue(api)
    BY <2>1 DEF CollectedInv, ReadyIsSeen
  <2> QED BY <1>1, <1>6, <2>1, <2>2
          DEF CollectedInv, ReadyIsSeen, CacheIsEarlier, RunIsEarlier, SuccessIsCollected,
              Collected, IsTrue
<1>8. CASE api' = Absent /\ obj.deleting
  <2>1. ~api'.fin /\ ~IsTrue(api')
    BY <1>8, AbsentFields DEF IsTrue
  <2>2. ReadyIsSeen' /\ CacheIsEarlier' /\ Collected' /\ RunIsEarlier'
    BY <1>1, <1>3, <1>6, <2>1
       DEF ReadyIsSeen, CacheIsEarlier, Collected, RunIsEarlier, IsTrue
  <2>3. SuccessIsCollected'
    BY <1>1, <1>8 DEF CollectedInv, SuccessIsCollected
  <2> QED BY <2>2, <2>3 DEF CollectedInv
<1>9. CASE /\ api'.gen = api.gen /\ api'.spec = api.spec
           /\ api'.deleting = api.deleting
           /\ api'.ready = api.ready \/ (obj.ready # before.ready /\ api'.ready = obj.ready)
           /\ Storable(api')
           /\ obj.fin /\ api.fin => api'.fin
           /\ before.fin /\ api'.fin => api.fin
           /\ \/ /\ UNCHANGED <<pc, obj, before>> /\ sent \subseteq sent'
                 /\ api'.observed = api.observed
                 /\ "conditions" \notin sent' => api'.ready = api.ready
              \/ /\ pc' = "idle"
                 /\ api'.observed = Changed(before.observed, seen, api.observed)
  <2>1. pc' = "idle" => RunIsEarlier' /\ SuccessIsCollected'
    BY DEF RunIsEarlier, SuccessIsCollected
  <2>2. CASE obj.deleting
    <3>1. before.fin /\ (api.fin => api.deleting) /\ obj.ready = before.ready
      BY <1>1, <2>2 DEF FinalizerInv, RunsFinalize, CollectedInv, SuccessIsCollected
    <3>2. api'.ready = api.ready /\ ~Halfway
      BY <1>9, <2>2, <3>1 DEF Halfway
    <3>3. IsTrue(api) => api.fin /\ api'.fin /\ api'.deleting
      BY <1>9, <3>1 DEF CollectedInv, ReadyIsSeen, Storable
    <3>4. api.fin => cache.fin /\ obj.gen <= cache.gen
      BY <1>1, <3>1 DEF CollectedInv, RunIsEarlier
    <3>5. api'.observed = api.observed \/ api'.observed = obj.gen
      BY <1>2, <1>3, <1>9 DEF Changed
    <3>6. ReadyIsSeen'
      BY <1>1, <1>5, <1>6, <3>2, <3>3, <3>4, <3>5 DEF CollectedInv, ReadyIsSeen, IsTrue
    <3>7. CacheIsEarlier'
      BY <1>1, <1>5, <1>9, <3>1, <3>4, <3>5 DEF CollectedInv, CacheIsEarlier
    <3>8. Collected'
      BY <3>2, <3>3 DEF Collected, IsTrue
    <3>9. UNCHANGED <<pc, obj, before>> /\ api'.observed = api.observed
            => RunIsEarlier' /\ SuccessIsCollected'
      BY <1>1, <1>9, <2>2, <3>1, <3>2 DEF CollectedInv, RunIsEarlier, SuccessIsCollected, IsTrue
    <3> QED BY <1>9, <2>1, <3>6, <3>7, <3>8, <3>9 DEF CollectedInv
  <2>3. CASE ~obj.deleting /\ ~IsTrue(obj)
    <3>1. obj.fin /\ (api'.fin /\ cache.fin => api.fin) /\ ~Halfway
      BY <1>1, <2>3 DEF FinalizerInv, SeesDeletion, Storable, Halfway
    <3>2. api'.observed = api.observed /\ (IsTrue(api') => IsTrue(api) /\ api'.fin)
      BY <1>2, <1>3, <1>9, <2>3, <3>1 DEF CollectedInv, ReadyIsSeen, Changed, IsTrue
    <3>3. ReadyIsSeen' /\ CacheIsEarlier'
      BY <1>1, <1>9, <3>1, <3>2 DEF CollectedInv, ReadyIsSeen, CacheIsEarlier, IsTrue
    <3>4. Collected'
      BY <1>4, <1>9, <3>1, <3>2 DEF CollectedInv, Collected, IsTrue
    <3>5. UNCHANGED <<pc, obj, before>> => RunIsEarlier' /\ SuccessIsCollected'
      BY <1>1, <1>4, <1>9, <2>3, <3>1, <3>2
         DEF CollectedInv, RunIsEarlier, SuccessIsCollected, IsTrue
    <3> QED BY <1>9, <2>1, <3>3, <3>4, <3>5 DEF CollectedInv
  <2>4. CASE ~obj.deleting /\ IsTrue(obj)
    <3>1. before.fin /\ api.fin /\ obj.fin /\ OwnedWithin(Build(obj.spec)) /\ api'.fin
      BY <1>1, <1>9, <2>4 DEF FinalizerInv, CollectedInv, SuccessIsCollected
    <3>2. /\ cache.fin /\ obj.gen <= cache.gen /\ cache.gen <= api.gen
          /\ obj.gen = api.gen => obj.spec = api.spec
          /\ before.observed = api.observed \/ api.observed <= obj.gen
      BY <1>1, <3>1 DEF CollectedInv, RunIsEarlier, CacheIsEarlier
    <3>3. CASE pc' = "idle" /\ api'.observed = Changed(before.observed, seen, api.observed)
      <4>1. api'.observed <= obj.gen /\ api'.observed \in Int
        BY <1>2, <1>5, <2>4, <3>2, <3>3 DEF Changed
      <4>2. ReadyIsSeen'
        BY <1>1, <1>5, <1>6, <3>1, <3>2, <4>1 DEF ReadyIsSeen, IsTrue
      <4>3. CacheIsEarlier'
        BY <1>1, <1>5, <1>9, <3>1, <3>2, <4>1 DEF CollectedInv, CacheIsEarlier
      <4>4. Collected'
        BY <1>4, <1>5, <1>9, <3>1, <3>2, <4>1 DEF Collected
      <4> QED BY <2>1, <3>3, <4>2, <4>3, <4>4 DEF CollectedInv
    <3>4. CASE /\ UNCHANGED <<pc, obj, before>> /\ sent \subseteq sent'
               /\ api'.observed = api.observed
               /\ "conditions" \notin sent' => api'.ready = api.ready
      <4>1. ~Halfway' => ~Halfway /\ api'.ready = api.ready
        BY <1>1, <2>4, <3>4 DEF Halfway, IsTrue
      <4>2. ReadyIsSeen'
        BY <1>1, <1>6, <3>1, <3>2, <3>4, <4>1 DEF CollectedInv, ReadyIsSeen, IsTrue
      <4>3. CacheIsEarlier'
        BY <1>1, <1>9, <3>1, <3>4 DEF CollectedInv, CacheIsEarlier
      <4>4. Collected'
        BY <1>4, <1>9, <3>4, <4>1 DEF CollectedInv, Collected, IsTrue
      <4>5. RunIsEarlier'
        BY <1>1, <1>3, <1>9, <3>1, <3>2, <3>4, <4>1 DEF CollectedInv, RunIsEarlier, IsTrue
      <4>6. SuccessIsCollected'
        BY <1>1, <1>4, <2>4, <3>1, <3>4 DEF SuccessIsCollected
      <4> QED BY <4>2, <4>3, <4>4, <4>5, <4>6 DEF CollectedInv
    <3> QED BY <1>9, <3>3, <3>4
  <2> QED BY <2>2, <2>3, <2>4
<1> QED BY <1>7, <1>8, <1>9, FinalizeStatusReports DEF seen

\* A new spec or a deletion is a new generation, and nothing is Ready for it.
LEMMA UserKeepsCollectedInv ==
    ASSUME TypeOK, FinalizerInv, CollectedInv,
           UserCreates \/ UserEdits \/ UserDeletes \/ UserRequests
    PROVE  CollectedInv'
<1>1. UNCHANGED <<cache, live, pc, obj, before, sent>> /\ (Halfway' <=> Halfway)
  BY DEF UserCreates, UserEdits, UserDeletes, UserRequests, ChangeOfApi, run, Halfway, IsTrue
<1>2. UserMoves
  BY UserMove
<1>3. /\ cache.gen \in Nat /\ api.gen \in Nat /\ api.observed \in Int /\ obj.gen \in Nat
  BY GenerationType DEF TypeOK
<1>4. \A S : OwnedWithin(S) <=> OwnedWithin(S)'
  BY <1>1 DEF OwnedWithin, Owned
<1>5. CASE ~api'.fin /\ ~IsTrue(api') /\ ~api.fin
  <2>1. ReadyIsSeen' /\ CacheIsEarlier' /\ RunIsEarlier' /\ Collected'
    BY <1>1, <1>5 DEF CollectedInv, ReadyIsSeen, CacheIsEarlier, RunIsEarlier, Collected, IsTrue
  <2>2. SuccessIsCollected'
    BY <1>1, <1>4, <1>5 DEF CollectedInv, SuccessIsCollected, IsTrue
  <2> QED BY <2>1, <2>2 DEF CollectedInv
<1>6. CASE /\ api'.fin = api.fin /\ api'.ready = api.ready /\ api'.observed = api.observed
           /\ \/ api'.gen = api.gen /\ api'.spec = api.spec /\ api'.deleting = api.deleting
              \/ api'.gen = api.gen + 1
  <2>1. ReadyIsSeen'
    BY <1>1, <1>6 DEF CollectedInv, ReadyIsSeen, IsTrue
  <2>2. CacheIsEarlier'
    BY <1>1, <1>3, <1>6 DEF CollectedInv, CacheIsEarlier
  <2>3. RunIsEarlier'
    BY <1>1, <1>3, <1>6 DEF CollectedInv, RunIsEarlier, CacheIsEarlier, IsTrue
  <2>4. SuccessIsCollected'
    BY <1>1, <1>4, <1>6 DEF CollectedInv, SuccessIsCollected, IsTrue
  <2>5. Collected'
    BY <1>1, <1>3, <1>4, <1>6 DEF CollectedInv, ReadyIsSeen, CacheIsEarlier, Collected, IsTrue
  <2> QED BY <2>1, <2>2, <2>3, <2>4, <2>5 DEF CollectedInv
<1> QED BY <1>2, <1>5, <1>6, AbsentFields DEF UserMoves, FinalizerInv, Storable, IsTrue

\* The cache catches up.
LEMMA SyncKeepsCollectedInv ==
    ASSUME TypeOK, FinalizerInv, CollectedInv, SyncCache
    PROVE  CollectedInv'
<1>1. cache' = api /\ UNCHANGED <<api, live, pc, obj, before>> /\ (Halfway' <=> Halfway)
  BY DEF SyncCache, cluster, run, Halfway, IsTrue
<1>2. /\ cache.gen \in Nat /\ api.gen \in Nat /\ api.observed \in Int /\ obj.gen \in Nat
  BY GenerationType DEF TypeOK
<1>3. ReadyIsSeen' /\ CacheIsEarlier'
  BY <1>1, <1>2 DEF CollectedInv, ReadyIsSeen, CacheIsEarlier, IsTrue
<1>4. RunIsEarlier'
  BY <1>1, <1>2 DEF CollectedInv, CacheIsEarlier, RunIsEarlier, IsTrue
<1>5. SuccessIsCollected' /\ Collected'
  BY <1>1 DEF CollectedInv, SuccessIsCollected, Collected, OwnedWithin, Owned, IsTrue
<1> QED BY <1>3, <1>4, <1>5 DEF CollectedInv

\* The bound holds in every state.
THEOREM CollectedInvariant ==
    ASSUME ~MayForget
    PROVE  Spec => []CollectedInv
<1>1. TypeOK /\ FinalizerInv /\ CollectInv /\ CollectedInv /\ [Next]_vars => CollectedInv'
  <2> SUFFICES ASSUME TypeOK, FinalizerInv, CollectInv, CollectedInv, [Next]_vars
               PROVE  CollectedInv'
    OBVIOUS
  <2>1. CASE TimerFires \/ SourceChanges \/ UNCHANGED vars
    <3>1. UNCHANGED <<api, cache, live, pc, obj, before, sent>>
      BY <2>1 DEF TimerFires, SourceChanges, cluster, run, vars
    <3> QED BY <3>1, StutterKeepsCollectedInv DEF Owned
  <2>2. CASE (\E k \in Kinds : DeleteObject(k)) \/ ObjectDrifts \/ ObjectIsAnnotated
    <3>1. UNCHANGED <<api, cache, pc, obj, before, sent>>
      BY <2>2 DEF DeleteObject, ObjectDrifts, ObjectIsAnnotated, ChangeOfObjects, run
    <3> QED BY <2>2, <3>1, NothingGained, StutterKeepsCollectedInv
  <2>3. ~AccountChanges /\ ~Restart
    BY NeverForgets DEF AccountChanges, Change, Restart, Fault
  <2> QED
    BY <2>1, <2>2, <2>3, GetKeepsCollectedInv, StageKeepsCollectedInv,
       ReportKeepsCollectedInv, ApplyKeepsCollectedInv, FinalizeKeepsCollectedInv,
       FinalizeStatusKeepsCollectedInv, UserKeepsCollectedInv, SyncKeepsCollectedInv
       DEF Next, Worker, Surroundings
<1> QED BY <1>1, InitCollected, TypeCorrect, FinalizerInvariant, CollectInvariant, PTL DEF Spec

\* A LanguageModel that is Ready for its generation has no workload object
\* beyond those its spec calls for, although runs start from a cache that lags
\* and the user may edit the spec in the middle of one.
THEOREM ReadyIsCollected ==
    ASSUME ~MayForget
    PROVE  Spec => []ReadyMeansCollected
<1>1. CollectedInv => ReadyMeansCollected
  BY DEF CollectedInv, Collected, Halfway, OwnedWithin, ReadyMeansCollected
<1> QED BY <1>1, CollectedInvariant, PTL
=============================================================================
