-------------------------- MODULE Readiness_proofs --------------------------
(***************************************************************************)
(* Ready for a generation means deployed for it, for every set of specs    *)
(* and revisions, suspended and unpruned ones too, and any number of       *)
(* failures, partly failed patches and crashes among them.  Three things   *)
(* are left out.  Where workload objects drift nothing can be promised     *)
(* between two runs.  A run has to start from a cache that has caught up:  *)
(* the progress patch of a run whose copy says Progressing already does    *)
(* not touch a Ready condition that the copy has not seen turn true, while *)
(* the attempted revision is overwritten.  And the object is not created   *)
(* again: the last request of a run on its predecessor can leave it an     *)
(* observedGeneration that it has not reconciled.                          *)
(***************************************************************************)
EXTENDS LanguageModelReconciler_proofs

\* Object k of the workload l is what the controller applies for a spec and a
\* revision, or is annotated against application.
DeployedAs(l, k, spec, rev) ==
    \/ l[k].note \in NotApplied
    \/ l[k].owner = "lm" /\ l[k].content = ContentOf(spec, rev)

AllDeployed(l, spec, rev) == \A k \in Build(spec) : DeployedAs(l, k, spec, rev)

\* Only an adopted object is Ready, and for no generation it has not had.
ReadyIsAdopted ==
    /\ IsTrue(api) => api.fin
    /\ api.observed <= api.gen

\* The working copy is an earlier version of the stored object, unless the
\* finalizer request of this run has ended it, and nobody else reports
\* generations.
CopyIsEarlier ==
    pc # "idle" =>
        /\ obj.observed = before.observed
        /\ before.fin /\ api.exists =>
              /\ api.fin /\ obj.gen <= api.gen
              /\ obj.gen = api.gen => obj.spec = api.spec
              /\ api.observed <= obj.gen

\* Ready and the attempted revision are written by the run alone: it knows
\* what is stored, and has taken Ready away before it attempts a revision,
\* in the first request of its first patch.
RunKnowsStatus ==
    /\ pc \in {"idle", "getSource"} => sent = {}
    /\ pc \in RunStages =>
          /\ before.ready = api.ready \/ (pc = "fetching" /\ api.ready = "Progressing")
          /\ before.attempted = api.attempted /\ obj.attempted = before.attempted
    /\ pc = "fetching" /\ "conditions" \in sent => api.ready = "Progressing"
    /\ pc \in RunStages \ {"getSource", "fetching"} =>
          obj.ready = "Progressing" /\ before.ready = "Progressing"
    /\ pc \in RunStages \ {"getSource", "fetching", "building"} => obj.attempted = art

\* What a run has deployed at each stage.
RunDeploys ==
    /\ pc = "detecting" => todo = Build(obj.spec)
    /\ pc = "apply" => \A k \in Build(obj.spec) \ todo : DeployedAs(live, k, obj.spec, art)
    /\ pc = "prune" => todo \cap Build(obj.spec) = {}
    /\ pc \in {"prune", "checkHealth", "wait", "healthy", "succeed"} =>
          AllDeployed(live, obj.spec, art)

\* What the deferred finalizeStatus finds: Ready is true at the end of a run
\* only after a deployment, and where a failed run left it true, the revision
\* was not attempted.
RunEnds ==
    /\ pc \in {"finalize", "deleteAll"} =>
          before.fin /\ api.deleting /\ obj.deleting /\ obj.attempted = before.attempted
    /\ pc = "finalizeStatus" =>
          /\ IsTrue(api) \/ IsTrue(obj) => obj.attempted = before.attempted
          /\ obj.deleting => before.fin /\ (api.exists => api.deleting)
          /\ ~before.fin => ~IsTrue(obj)
          /\ IsTrue(obj) /\ ~obj.deleting /\ ~obj.spec.suspend =>
                /\ obj.attempted = api.attempted
                /\ AllDeployed(live, obj.spec, obj.attempted)

ReadyInv ==
    /\ ReadyIsAdopted /\ CopyIsEarlier /\ RunKnowsStatus /\ RunDeploys /\ RunEnds
    /\ ReadyMeansDeployed

-----------------------------------------------------------------------------
\* The numbers of an object.
LEMMA GenerationNumbers ==
    ASSUME NEW o \in LanguageModels
    PROVE  o.gen \in Nat /\ o.observed \in Int
  BY DEF LanguageModels

\* Nothing is Ready at first.
LEMMA InitReady == Init => ReadyInv
<1> SUFFICES ASSUME Init PROVE ReadyInv
  OBVIOUS
<1>1. PICK s \in Specs : api = NewLanguageModel(s, MaxChanges + 1)
  BY DEF Init
<1>2. ~IsTrue(api) /\ api.observed <= api.gen
  BY <1>1 DEF NewLanguageModel, IsTrue
<1>3. pc = "idle" /\ sent = {}
  BY DEF Init
<1> QED BY <1>2, <1>3 DEF ReadyInv, ReadyIsAdopted, CopyIsEarlier, RunKnowsStatus, RunDeploys,
           RunEnds, RunStages, ReadyMeansDeployed

\* The promise follows the fields it is about.
LEMMA ReadyStays ==
    ASSUME ReadyMeansDeployed, live' = live,
           api'.exists => api.exists, api'.deleting = api.deleting,
           api'.spec = api.spec, api'.gen = api.gen,
           IsTrue(api') => /\ IsTrue(api) /\ api'.observed = api.observed
                           /\ api'.attempted = api.attempted
    PROVE  ReadyMeansDeployed'
  BY DEF ReadyMeansDeployed, Deployed, IsTrue

\* A step that leaves the stored object, the run and the workload alone.
LEMMA StutterKeepsReadyInv ==
    ASSUME ReadyInv, UNCHANGED <<api, live, pc, obj, before, art, todo, sent>>
    PROVE  ReadyInv'
<1>1. ReadyMeansDeployed'
  BY ReadyStays DEF ReadyInv, IsTrue
<1> QED BY <1>1 DEF ReadyInv, ReadyIsAdopted, CopyIsEarlier, RunKnowsStatus, RunDeploys,
           RunEnds, IsTrue

\* The read at the start of Reconcile, of a cache that has caught up, and the
\* early returns.
LEMMA GetKeepsReadyInv ==
    ASSUME TypeOK, FinalizerInv, ReadyInv, "stale" \notin Faults,
           ReconcileNotFound \/ ReconcileDeletion \/ AddFinalizer
              \/ SkipSuspended \/ StartReconcile
    PROVE  ReadyInv'
<1>1. UNCHANGED <<api, live, art, todo, sent>> /\ cache = api /\ pc = "idle" /\ api \in LanguageModels
  BY DEF ReconcileNotFound, ReconcileDeletion, AddFinalizer, SkipSuspended,
         StartReconcile, Get, cluster, run, TypeOK
<1>2. CASE ReconcileNotFound
  BY <1>1, <1>2, StutterKeepsReadyInv DEF ReconcileNotFound
<1>3. ReadyIsAdopted' /\ ReadyMeansDeployed' /\ api.observed <= api.gen
  BY <1>1, ReadyStays DEF ReadyInv, ReadyIsAdopted, IsTrue
<1>4. api.gen \in Nat
  BY <1>1, GenerationNumbers
<1>5. CASE ReconcileDeletion \/ StartReconcile \/ SkipSuspended
  <2>1. obj' = api /\ before' = api /\ api.fin
        /\ \/ pc' = "finalize" /\ api.deleting
           \/ pc' = "getSource"
           \/ pc' = "finalizeStatus" /\ api.spec.suspend /\ ~api.deleting
    BY <1>1, <1>5 DEF ReconcileDeletion, StartReconcile, SkipSuspended, Return,
       FinalizerInv, Storable
  <2>2. CopyIsEarlier'
    BY <1>1, <1>3, <1>4, <2>1 DEF CopyIsEarlier
  <2>3. RunKnowsStatus' /\ RunDeploys' /\ RunEnds'
    BY <1>1, <2>1 DEF ReadyInv, RunKnowsStatus, RunDeploys, RunEnds, RunStages
  <2> QED BY <1>3, <2>2, <2>3 DEF ReadyInv
<1>6. CASE AddFinalizer
  <2> DEFINE o == [api EXCEPT !.fin = TRUE]
  <2>1. before' = api /\ pc' = "finalizeStatus" /\ obj' = o /\ ~api.fin /\ ~api.deleting
    BY <1>1, <1>6 DEF AddFinalizer, Return
  <2>2. o.ready = api.ready /\ o.observed = api.observed /\ o.attempted = api.attempted
        /\ o.deleting = api.deleting
    BY <1>1 DEF LanguageModels
  <2> HIDE DEF o
  <2>3. ~IsTrue(o)
    BY <2>1, <2>2 DEF ReadyInv, ReadyIsAdopted, IsTrue
  <2>4. CopyIsEarlier' /\ RunEnds'
    BY <1>1, <2>1, <2>2, <2>3 DEF CopyIsEarlier, RunEnds
  <2>5. RunKnowsStatus' /\ RunDeploys'
    BY <2>1 DEF RunKnowsStatus, RunDeploys, RunStages
  <2> QED BY <1>3, <2>4, <2>5 DEF ReadyInv
<1> QED BY <1>2, <1>5, <1>6

\* The stages that write nothing outside: the run moves on with what it has
\* deployed, fails, or succeeds.
LEMMA StageKeepsReadyInv ==
    ASSUME TypeOK, FinalizerInv, ReadyInv,
           GetSource \/ BuildManifests \/ ApplyFails \/ PruneReturns \/ WaitForSet \/ Succeed
    PROVE  ReadyInv'
<1>1. StageMoves
  BY StageMove
<1>2. /\ UNCHANGED <<api, live, before>> /\ pc \in RunStages /\ pc # "idle" /\ sent' = sent
      /\ pc' \notin {"idle", "finalize", "deleteAll"}
      /\ obj'.spec = obj.spec /\ obj'.gen = obj.gen /\ obj'.observed = obj.observed
      /\ obj'.deleting = obj.deleting /\ obj'.attempted = obj.attempted
  BY <1>1 DEF StageMoves, RunStages
<1>3. before.fin /\ ~obj.deleting
  BY <1>2 DEF FinalizerInv
<1>4. ReadyIsAdopted' /\ ReadyMeansDeployed'
  BY <1>2, ReadyStays DEF ReadyInv, ReadyIsAdopted, IsTrue
<1>5. CopyIsEarlier'
  BY <1>2 DEF ReadyInv, CopyIsEarlier
<1>6. RunKnowsStatus'
  BY <1>1, <1>2 DEF ReadyInv, RunKnowsStatus, StageMoves, RunStages
<1>7. RunDeploys'
  BY <1>1, <1>2 DEF ReadyInv, RunDeploys, StageMoves
<1>8. pc' = "finalizeStatus" /\ IsTrue(obj') => pc = "succeed"
  BY <1>1 DEF StageMoves, IsTrue, IsFalse, FailedReasons
<1>9. pc = "succeed" => AllDeployed(live, obj.spec, obj.attempted)
  BY DEF ReadyInv, RunDeploys, RunKnowsStatus, RunStages
<1>10. RunEnds'
  BY <1>2, <1>3, <1>8, <1>9 DEF ReadyInv, RunKnowsStatus, RunEnds
<1> QED BY <1>4, <1>5, <1>6, <1>7, <1>10 DEF ReadyInv

\* The progress patches: the first takes Ready away before the second writes
\* the attempted revision, and a patch that fails in part ends the run.
LEMMA ReportKeepsReadyInv ==
    ASSUME TypeOK, FinalizerInv, ReadyInv,
           ReportFetching \/ ReportBuilding \/ ReportDetecting \/ CheckHealth \/ ReportHealthy
    PROVE  ReadyInv'
<1>1. PICK o \in LanguageModels, e \in LanguageModels :
         \E next : Patch(o, next, e) /\ ReportsWith(o, e, next)
  BY RunPatch
<1>2. PICK next : Patch(o, next, e) /\ ReportsWith(o, e, next)
  BY <1>1
<1>3. pc \in RunStages /\ pc # "idle"
  BY <1>2 DEF ReportsWith, RunStages
<1>4. api.exists /\ api.fin /\ before.fin /\ o.fin /\ ~obj.deleting
  BY <1>2, <1>3 DEF FinalizerInv, Storable, ReportsWith
<1>5. PatchSends(o) \/ PatchSucceeds(o) \/ PatchFails(o)
  BY <1>2 DEF Patch
<1>6. ~PatchEnds(o)
  BY <1>4 DEF PatchEnds, Changed
<1>7. /\ PatchWrites(o, api')
      /\ PatchSucceeds(o) => PatchWritesStatus(o, api')
      /\ PatchSends(o) => PatchKeepsStatus(api')
      /\ "conditions" \in sent => api'.ready = api.ready
      /\ (PatchSucceeds(o) \/ "conditions" \in sent') /\ "conditions" \notin sent =>
            api'.ready = Changed(before.ready, o.ready, api.ready)
  BY <1>4, <1>5, <1>6, PatchFields
<1>8. UNCHANGED <<live, art, todo>>
  BY <1>2 DEF Patch, run
<1>9. o.ready = "Progressing" /\ o.observed = before.observed
  BY <1>2, <1>3 DEF ReportsWith, ReadyInv, RunKnowsStatus, CopyIsEarlier
<1>10. /\ api'.exists /\ api'.deleting = api.deleting /\ api'.spec = api.spec
       /\ api'.gen = api.gen /\ api'.fin /\ api'.observed = api.observed
       /\ IsTrue(api') => IsTrue(api)
  BY <1>4, <1>7, <1>9 DEF PatchWrites, Writes, IsTrue
<1>11. IsTrue(api) => pc = "fetching"
  BY <1>2, <1>3 DEF ReadyInv, RunKnowsStatus, ReportsWith, IsTrue
<1>12. pc = "fetching" => o.attempted = before.attempted /\ api'.attempted = api.attempted
  BY <1>2, <1>3, <1>7 DEF ReportsWith, ReadyInv, RunKnowsStatus, PatchWrites, Writes
<1>13. ReadyMeansDeployed'
  BY <1>4, <1>8, <1>10, <1>11, <1>12, ReadyStays DEF ReadyInv
<1>14. ReadyIsAdopted'
  BY <1>10 DEF ReadyInv, ReadyIsAdopted
<1>15. PatchSucceeds(o) \/ "conditions" \in sent' => api'.ready = "Progressing"
  BY <1>2, <1>3, <1>7, <1>9 DEF Changed, ReadyInv, RunKnowsStatus, ReportsWith
<1>16. CASE PatchSends(o) /\ UNCHANGED <<before, obj, pc>>
  <2>1. /\ api'.attempted = api.attempted
        /\ api'.ready = api.ready \/ api'.ready = "Progressing"
    BY <1>7, <1>9, <1>16 DEF PatchKeepsStatus, PatchWrites, Writes
  <2>2. CopyIsEarlier'
    BY <1>3, <1>4, <1>10, <1>16 DEF ReadyInv, CopyIsEarlier
  <2>3. pc # "fetching" => before.ready = "Progressing" /\ api.ready = "Progressing"
    BY <1>2, <1>3 DEF ReadyInv, RunKnowsStatus, ReportsWith
  <2>4. RunKnowsStatus'
    BY <1>2, <1>3, <1>8, <1>15, <1>16, <2>1, <2>3 DEF ReadyInv, RunKnowsStatus, ReportsWith
  <2>5. RunDeploys' /\ RunEnds'
    BY <1>2, <1>8, <1>16 DEF ReadyInv, RunDeploys, RunEnds, ReportsWith
  <2> QED BY <1>13, <1>14, <2>2, <2>4, <2>5 DEF ReadyInv
<1>17. CASE PatchSucceeds(o) /\ before' = o /\ obj' = o /\ pc' = next
  <2>1. api'.ready = o.ready /\ api'.attempted = o.attempted
    BY <1>3, <1>7, <1>9, <1>15, <1>17 DEF PatchWritesStatus, Changed, ReadyInv, RunKnowsStatus
  <2>2. CopyIsEarlier'
    BY <1>2, <1>3, <1>4, <1>10, <1>17 DEF ReadyInv, CopyIsEarlier, ReportsWith
  <2>3. RunKnowsStatus'
    BY <1>2, <1>3, <1>8, <1>9, <1>17, <2>1 DEF ReadyInv, RunKnowsStatus, ReportsWith, RunStages
  <2>4. RunDeploys'
    BY <1>2, <1>8, <1>17 DEF ReadyInv, RunDeploys, ReportsWith
  <2>5. RunEnds'
    BY <1>2, <1>17 DEF RunEnds, ReportsWith
  <2> QED BY <1>13, <1>14, <2>2, <2>3, <2>4, <2>5 DEF ReadyInv
<1>18. CASE before' = before /\ obj' = e /\ pc' = "finalizeStatus"
  <2>1. /\ e.spec = obj.spec /\ e.gen = obj.gen /\ e.observed = obj.observed
        /\ e.deleting = obj.deleting /\ e.attempted = o.attempted /\ ~IsTrue(e)
    BY <1>2, <1>9 DEF ReportsWith, IsTrue
  <2>2. CopyIsEarlier'
    BY <1>3, <1>4, <1>10, <1>18, <2>1 DEF ReadyInv, CopyIsEarlier
  <2>3. RunKnowsStatus' /\ RunDeploys'
    BY <1>18 DEF RunKnowsStatus, RunDeploys, RunStages
  <2>4. RunEnds'
    BY <1>4, <1>10, <1>11, <1>12, <1>18, <2>1 DEF RunEnds, IsTrue
  <2> QED BY <1>13, <1>14, <2>2, <2>3, <2>4 DEF ReadyInv
<1> QED BY <1>2, <1>16, <1>17, <1>18 DEF Patch, Return

\* ApplyAll brings one more object up to date; nothing is Ready meanwhile.
LEMMA ApplyKeepsReadyInv ==
    ASSUME TypeOK, FinalizerInv, ReadyInv, NEW k \in Kinds, ApplyObject(k)
    PROVE  ReadyInv'
<1>1. /\ UNCHANGED <<api, pc, obj, before, art, sent>> /\ pc = "apply"
      /\ todo' = todo \ {k}
  BY DEF ApplyObject
<1>2. ~IsTrue(api)
  BY <1>1 DEF ReadyInv, RunKnowsStatus, RunStages, IsTrue
<1>3. \A j \in Kinds \ {k} : live'[j] = live[j]
  BY DEF ApplyObject, TypeOK
<1>4. DeployedAs(live', k, obj.spec, art)
  <2>1. CASE live[k].note \in NotApplied
    BY <2>1 DEF ApplyObject, DeployedAs
  <2>2. CASE live[k].note \notin NotApplied
    <3>1. live' = [live EXCEPT ![k].owner = "lm", ![k].content = ContentOf(obj.spec, art)]
      BY <2>2 DEF ApplyObject
    <3>2. live'[k].owner = "lm" /\ live'[k].content = ContentOf(obj.spec, art)
      BY <3>1 DEF TypeOK, Objects
    <3> QED BY <3>2 DEF DeployedAs
  <2> QED BY <2>1, <2>2
<1>5. Build(obj.spec) \subseteq Kinds
  BY BuildType DEF TypeOK, LanguageModels
<1>6. RunDeploys'
  BY <1>1, <1>3, <1>4, <1>5 DEF ReadyInv, RunDeploys, DeployedAs
<1>7. ReadyIsAdopted' /\ CopyIsEarlier' /\ RunKnowsStatus' /\ RunEnds'
  BY <1>1 DEF ReadyInv, ReadyIsAdopted, CopyIsEarlier, RunKnowsStatus, RunEnds, IsTrue
<1>8. ReadyMeansDeployed'
  BY <1>1, <1>2 DEF ReadyMeansDeployed, IsTrue
<1> QED BY <1>6, <1>7, <1>8 DEF ReadyInv

\* With the last object applied, the whole spec is deployed, and what is left
\* to prune is no part of it.
LEMMA RecordKeepsReadyInv ==
    ASSUME TypeOK, FinalizerInv, ReadyInv, RecordInventory
    PROVE  ReadyInv'
<1> DEFINE o == [obj EXCEPT !.inv = Build(obj.spec)]
<1>1. /\ UNCHANGED <<api, live, before, art, sent>> /\ pc = "apply" /\ todo = {} /\ obj' = o
      /\ \/ pc' = "prune" /\ todo' = obj.inv \ Build(obj.spec)
         \/ pc' = "checkHealth"
  BY DEF RecordInventory, SetInventory, cluster
<1>2. /\ o.spec = obj.spec /\ o.gen = obj.gen /\ o.observed = obj.observed
      /\ o.ready = obj.ready /\ o.attempted = obj.attempted
  BY DEF TypeOK, LanguageModels
<1> HIDE DEF o
<1>3. ReadyIsAdopted' /\ ReadyMeansDeployed'
  BY <1>1, ReadyStays DEF ReadyInv, ReadyIsAdopted, IsTrue
<1>4. CopyIsEarlier' /\ RunKnowsStatus'
  BY <1>1, <1>2 DEF ReadyInv, CopyIsEarlier, RunKnowsStatus, RunStages
<1>5. AllDeployed(live, obj.spec, art)
  BY <1>1 DEF ReadyInv, RunDeploys, AllDeployed
<1>6. RunDeploys' /\ RunEnds'
  BY <1>1, <1>2, <1>5 DEF RunDeploys, RunEnds
<1> QED BY <1>3, <1>4, <1>6 DEF ReadyInv

\* DeleteAll takes only what the spec does not call for, or the workload of an
\* object under deletion.
LEMMA DeleteKeepsReadyInv ==
    ASSUME TypeOK, FinalizerInv, ReadyInv, NEW k \in Kinds, DeleteObject(k)
    PROVE  ReadyInv'
<1>1. /\ UNCHANGED <<api, pc, obj, before, art, sent>> /\ pc \in {"prune", "deleteAll"}
      /\ k \in todo /\ todo' = todo \ {k}
  BY DEF DeleteObject
<1>2. \A j \in Kinds \ {k} : live'[j] = live[j]
  BY DEF DeleteObject, TypeOK
<1>3. IsTrue(api) => api.deleting
  BY <1>1 DEF ReadyInv, RunKnowsStatus, RunEnds, RunStages, IsTrue
<1>4. Build(obj.spec) \subseteq Kinds
  BY BuildType DEF TypeOK, LanguageModels
<1>5. RunDeploys'
  BY <1>1, <1>2, <1>4 DEF ReadyInv, RunDeploys, AllDeployed, DeployedAs
<1>6. ReadyIsAdopted' /\ CopyIsEarlier' /\ RunKnowsStatus' /\ RunEnds'
  BY <1>1 DEF ReadyInv, ReadyIsAdopted, CopyIsEarlier, RunKnowsStatus, RunEnds, IsTrue
<1>7. ReadyMeansDeployed'
  BY <1>1, <1>3 DEF ReadyMeansDeployed, IsTrue
<1> QED BY <1>5, <1>6, <1>7 DEF ReadyInv

\* An annotation changes neither the owner nor the content of an object.
LEMMA AnnotationKeepsReadyInv ==
    ASSUME TypeOK, ReadyInv, ObjectIsAnnotated
    PROVE  ReadyInv'
<1>1. UNCHANGED <<api, pc, obj, before, art, todo, sent>>
  BY DEF ObjectIsAnnotated, ChangeOfObjects, run
<1>2. PICK n \in Notes \ {"none"}, k \in Kinds :
         live[k].note = "none" /\ live' = [live EXCEPT ![k].note = n]
  BY DEF ObjectIsAnnotated
<1>3. /\ live'[k].owner = live[k].owner /\ live'[k].content = live[k].content
      /\ \A j \in Kinds \ {k} : live'[j] = live[j]
  BY <1>2 DEF TypeOK, Objects
<1>4. \A j \in Kinds : \A s, r : DeployedAs(live, j, s, r) => DeployedAs(live', j, s, r)
  BY <1>2, <1>3 DEF DeployedAs, NotApplied
<1>5. Build(obj.spec) \subseteq Kinds /\ Build(api.spec) \subseteq Kinds
  BY BuildType DEF TypeOK, LanguageModels
<1>6. \A r : AllDeployed(live, obj.spec, r) => AllDeployed(live', obj.spec, r)
  BY <1>4, <1>5 DEF AllDeployed
<1>7. RunDeploys'
  BY <1>1, <1>4, <1>5, <1>6 DEF ReadyInv, RunDeploys
<1>8. ReadyIsAdopted' /\ CopyIsEarlier' /\ RunKnowsStatus' /\ RunEnds'
  BY <1>1, <1>6 DEF ReadyInv, ReadyIsAdopted, CopyIsEarlier, RunKnowsStatus, RunEnds, IsTrue
<1>9. Deployed(api) => Deployed(api)'
  BY <1>1, <1>4, <1>5 DEF Deployed, DeployedAs
<1>10. ReadyMeansDeployed'
  BY <1>1, <1>9 DEF ReadyInv, ReadyMeansDeployed, IsTrue
<1> QED BY <1>7, <1>8, <1>10 DEF ReadyInv

\* The stages of finalize touch neither Ready nor the attempted revision.
LEMMA FinalizeKeepsReadyInv ==
    ASSUME TypeOK, FinalizerInv, ReadyInv, Finalize \/ DeleteAllReturns
    PROVE  ReadyInv'
<1> DEFINE o == [obj EXCEPT !.fin = FALSE]
<1>1. /\ UNCHANGED <<api, live, before, art>> /\ pc \in {"finalize", "deleteAll"}
      /\ pc' \in {"deleteAll", "finalizeStatus"} /\ (obj' = obj \/ obj' = o)
  BY DEF Finalize, DeleteAllReturns, RemoveFinalizer, GetClientFails, DeleteAllFails,
         Return, cluster, run
<1>2. /\ o.spec = obj.spec /\ o.gen = obj.gen /\ o.observed = obj.observed
      /\ o.attempted = obj.attempted /\ o.deleting = obj.deleting
  BY DEF TypeOK, LanguageModels
<1> HIDE DEF o
<1>3. ReadyIsAdopted' /\ ReadyMeansDeployed'
  BY <1>1, ReadyStays DEF ReadyInv, ReadyIsAdopted, IsTrue
<1>4. CopyIsEarlier'
  BY <1>1, <1>2 DEF ReadyInv, CopyIsEarlier
<1>5. RunKnowsStatus' /\ RunDeploys'
  BY <1>1 DEF RunKnowsStatus, RunDeploys, RunStages
<1>6. RunEnds'
  BY <1>1, <1>2 DEF ReadyInv, RunEnds
<1> QED BY <1>3, <1>4, <1>5, <1>6 DEF ReadyInv

\* A run that ends leaves the invariant to the stored object.
LEMMA IdleReadyInv ==
    ASSUME pc' = "idle", sent' = {}, ReadyIsAdopted', ReadyMeansDeployed'
    PROVE  ReadyInv'
  BY DEF ReadyInv, CopyIsEarlier, RunKnowsStatus, RunDeploys, RunEnds, RunStages

\* A request of the deferred patch, which may fail: what it makes Ready for
\* the stored generation has been deployed from the stored spec.
LEMMA FinalPatchKeepsReady ==
    ASSUME TypeOK, FinalizerInv, ReadyInv, pc = "finalizeStatus", live' = live,
           NEW o \in LanguageModels, o = Finalized(obj), api.exists,
           PatchSends(o) \/ PatchSucceeds(o) \/ PatchFails(o), PatchWrites(o, api')
    PROVE  /\ ReadyIsAdopted' /\ ReadyMeansDeployed'
           /\ before.fin => api'.fin
           /\ IsTrue(api') => IsTrue(api) \/ IsTrue(obj)
<1>1. /\ o.fin = obj.fin /\ o.ready = obj.ready /\ o.attempted = obj.attempted
      /\ o.observed = IF IsTrue(obj) THEN obj.gen ELSE obj.observed
  BY FinalizedFields DEF TypeOK
<1>2. Storable(api') /\ (obj.fin /\ api.fin => api'.fin)
  BY <1>1, PatchFinalizer DEF FinalizerInv
<1>3. /\ api'.gen = api.gen /\ api'.spec = api.spec /\ api'.deleting = api.deleting
      /\ api'.exists
      /\ Writes(api.ready, before.ready, obj.ready, api'.ready)
      /\ Writes(api.observed, before.observed, o.observed, api'.observed)
      /\ Writes(api.attempted, before.attempted, obj.attempted, api'.attempted)
  BY <1>1 DEF PatchWrites
<1>4. obj.observed = before.observed
  BY DEF ReadyInv, CopyIsEarlier
<1>5. api.gen \in Nat /\ obj.gen \in Nat /\ api.observed \in Int
  BY GenerationNumbers DEF TypeOK
<1>6. /\ IsTrue(obj) => before.fin
      /\ before.fin => /\ api.fin /\ obj.gen <= api.gen
                       /\ obj.gen = api.gen => obj.spec = api.spec
                       /\ api.observed <= obj.gen
  BY DEF ReadyInv, RunEnds, CopyIsEarlier
<1>7. api'.observed = api.observed \/ (IsTrue(obj) /\ api'.observed = obj.gen)
  BY <1>1, <1>3, <1>4 DEF Writes
<1>8. IsTrue(api') => IsTrue(api) \/ IsTrue(obj)
  BY <1>3 DEF Writes, IsTrue
<1>9. obj.fin \/ api.deleting
  BY DEF FinalizerInv, ReadyInv, RunEnds
<1>10. before.fin => api'.fin
  BY <1>2, <1>3, <1>6, <1>9 DEF Storable
<1>11. IsTrue(api') => api'.fin
  BY <1>2, <1>3, <1>6, <1>8, <1>9 DEF ReadyInv, ReadyIsAdopted, Storable
<1>12. api'.observed <= api'.gen
  BY <1>3, <1>5, <1>6, <1>7 DEF ReadyInv, ReadyIsAdopted
<1>13. ReadyIsAdopted'
  BY <1>11, <1>12 DEF ReadyIsAdopted, IsTrue
<1>14. ReadyMeansDeployed'
  <2>1. CASE ~IsTrue(obj)
    <3>1. IsTrue(api) => api'.attempted = api.attempted
      BY <1>3 DEF ReadyInv, RunEnds, Writes
    <3> QED BY <1>3, <1>7, <1>8, <2>1, <3>1, ReadyStays DEF ReadyInv
  <2>2. CASE IsTrue(obj)
    <3> SUFFICES ASSUME ~api.deleting, ~api.spec.suspend, api'.observed = api.gen
                 PROVE  Deployed(api)'
      BY <1>3 DEF ReadyMeansDeployed
    <3>1. obj.gen = api.gen /\ obj.spec = api.spec
      BY <1>5, <1>6, <1>7, <2>2
    <3>2. ~obj.deleting
      BY DEF ReadyInv, RunEnds
    <3>3. /\ obj.attempted = before.attempted /\ obj.attempted = api.attempted
          /\ AllDeployed(live, obj.spec, obj.attempted)
      BY <2>2, <3>1, <3>2 DEF ReadyInv, RunEnds
    <3>4. api'.attempted = obj.attempted /\ api'.spec = obj.spec
      BY <1>3, <3>1, <3>3 DEF Writes
    <3> QED BY <3>3, <3>4 DEF Deployed, AllDeployed, DeployedAs
  <2> QED BY <2>1, <2>2
<1> QED BY <1>8, <1>10, <1>13, <1>14

\* The deferred patch, request by request.
LEMMA FinalizeStatusKeepsReadyInv ==
    ASSUME TypeOK, FinalizerInv, ReadyInv, FinalizeStatus
    PROVE  ReadyInv'
<1> DEFINE o == Finalized(obj)
<1>1. /\ pc = "finalizeStatus" /\ live' = live
      /\ \/ PatchSends(o) /\ UNCHANGED <<pc, obj, before, art, todo>>
         \/ (PatchSucceeds(o) \/ PatchFails(o)) /\ pc' = "idle" /\ sent' = {}
  BY DEF FinalizeStatus, Forget
<1>2. o \in LanguageModels /\ o.fin = obj.fin
  BY FinalizedFields DEF TypeOK
<1>3. obj.deleting \/ obj.fin
  BY <1>1 DEF FinalizerInv
<1>4. api.exists => (api' = Absent /\ PatchEnds(o)) \/ PatchWrites(o, api')
  BY <1>1, <1>2, PatchFields
<1>5. PatchSends(o) =>
        /\ api.exists
        /\ api' = Absent \/ (api'.observed = api.observed /\ api'.attempted = api.attempted)
  BY <1>1, <1>2, PatchFields DEF PatchSends, PatchKeepsStatus
<1>6. o = Finalized(obj)
  OBVIOUS
<1> HIDE DEF o
<1>7. ~api.exists => api' = api
  BY <1>1 DEF PatchSends, PatchSucceeds, PatchFails
<1>8. ReadyIsAdopted' /\ ReadyMeansDeployed'
  <2>1. CASE api' = api
    BY <1>1, <2>1, ReadyStays DEF ReadyInv, ReadyIsAdopted, IsTrue
  <2>2. CASE api' = Absent
    BY <2>2, AbsentFields DEF ReadyIsAdopted, ReadyMeansDeployed, IsTrue
  <2>3. CASE api.exists /\ PatchWrites(o, api')
    BY <1>1, <1>2, <1>6, <2>3, FinalPatchKeepsReady
  <2> QED BY <1>4, <1>7, <2>1, <2>2, <2>3
<1>9. CASE PatchSends(o) /\ UNCHANGED <<pc, obj, before, art, todo>>
  <2>1. RunKnowsStatus' /\ RunDeploys'
    BY <1>1, <1>9 DEF RunKnowsStatus, RunDeploys, RunStages
  <2>2. CASE api' = Absent /\ PatchEnds(o)
    <3>1. obj.deleting
      BY <1>2, <1>3, <2>2 DEF PatchEnds, Changed, FinalizerInv, Storable
    <3>2. CopyIsEarlier'
      BY <1>1, <1>9, <2>2, AbsentFields DEF ReadyInv, CopyIsEarlier
    <3>3. RunEnds'
      BY <1>1, <1>9, <2>2, <3>1, AbsentFields DEF ReadyInv, RunEnds, IsTrue
    <3> QED BY <1>8, <2>1, <3>2, <3>3 DEF ReadyInv
  <2>3. CASE PatchWrites(o, api')
    <3>1. /\ api'.exists /\ api'.gen = api.gen /\ api'.spec = api.spec
          /\ api'.deleting = api.deleting
      BY <2>3 DEF PatchWrites
    <3>2. /\ before.fin => api'.fin
          /\ IsTrue(api') => IsTrue(api) \/ IsTrue(obj)
      BY <1>1, <1>2, <1>5, <1>6, <1>9, <2>3, FinalPatchKeepsReady
    <3>3. api'.observed = api.observed /\ api'.attempted = api.attempted
      BY <1>5, <1>9, <3>1, AbsentFields
    <3>4. CopyIsEarlier'
      BY <1>1, <1>5, <1>9, <3>1, <3>2, <3>3 DEF ReadyInv, CopyIsEarlier
    <3>5. RunEnds'
      BY <1>1, <1>5, <1>9, <3>1, <3>2, <3>3 DEF ReadyInv, RunEnds, IsTrue
    <3> QED BY <1>8, <2>1, <3>4, <3>5 DEF ReadyInv
  <2> QED BY <1>4, <1>5, <1>9, <2>2, <2>3
<1> QED BY <1>1, <1>8, <1>9, IdleReadyInv

\* A new spec or a deletion is a new generation, and nothing is Ready for it.
LEMMA UserKeepsReadyInv ==
    ASSUME TypeOK, FinalizerInv, ReadyInv, UserEdits \/ UserDeletes \/ UserRequests
    PROVE  ReadyInv'
<1>1. UNCHANGED <<live, pc, obj, before, art, todo, sent>> /\ api.exists
  BY DEF UserEdits, UserDeletes, UserRequests, ChangeOfApi, run
<1>2. UserMoves
  BY UserMove
<1>3. api.gen \in Nat /\ obj.gen \in Nat /\ api.observed \in Int
  BY GenerationNumbers DEF TypeOK
<1>4. RunDeploys'
  BY <1>1 DEF ReadyInv, RunDeploys
<1>5. CASE ~api.fin /\ ~IsTrue(api') /\ api'.observed <= api'.gen /\ ~api'.exists
  <2>1. (pc # "idle" => ~before.fin) /\ pc \notin RunStages
    BY <1>1, <1>5 DEF ReadyInv, CopyIsEarlier, FinalizerInv
  <2>2. ReadyIsAdopted' /\ ReadyMeansDeployed'
    BY <1>5 DEF ReadyIsAdopted, ReadyMeansDeployed, IsTrue
  <2>3. CopyIsEarlier'
    BY <1>1, <1>5, <2>1 DEF ReadyInv, CopyIsEarlier
  <2>4. RunKnowsStatus'
    BY <1>1, <2>1 DEF ReadyInv, RunKnowsStatus, RunStages
  <2>5. RunEnds'
    BY <1>1, <1>5, <2>1 DEF ReadyInv, RunEnds, IsTrue
  <2> QED BY <1>4, <2>2, <2>3, <2>4, <2>5 DEF ReadyInv
<1>6. CASE /\ api.exists /\ api'.fin = api.fin /\ api'.ready = api.ready
           /\ api'.observed = api.observed /\ api'.attempted = api.attempted
           /\ api.deleting => api'.deleting
           /\ \/ api'.gen = api.gen /\ api'.spec = api.spec /\ api'.deleting = api.deleting
              \/ api'.gen = api.gen + 1
  <2>1. ReadyIsAdopted'
    BY <1>3, <1>6 DEF ReadyInv, ReadyIsAdopted, IsTrue
  <2>2. ReadyMeansDeployed'
    <3>1. CASE api'.gen = api.gen + 1
      BY <1>3, <1>6, <3>1 DEF ReadyInv, ReadyIsAdopted, ReadyMeansDeployed
    <3>2. CASE api'.gen = api.gen /\ api'.spec = api.spec /\ api'.deleting = api.deleting
      BY <1>1, <1>6, <3>2, ReadyStays DEF ReadyInv, IsTrue
    <3> QED BY <1>6, <3>1, <3>2
  <2>3. CopyIsEarlier'
    BY <1>1, <1>3, <1>6 DEF ReadyInv, CopyIsEarlier
  <2>4. RunKnowsStatus'
    BY <1>1, <1>6 DEF ReadyInv, RunKnowsStatus
  <2>5. RunEnds'
    BY <1>1, <1>6 DEF ReadyInv, RunEnds, IsTrue
  <2> QED BY <1>4, <2>1, <2>2, <2>3, <2>4, <2>5 DEF ReadyInv
<1> QED BY <1>1, <1>2, <1>5, <1>6, AbsentFields DEF UserMoves, IsTrue

\* What the controller stores, and what a run may rely on.
THEOREM ReadyInvariant ==
    ASSUME "stale" \notin Faults, "drift" \notin Changes, "create" \notin Changes
    PROVE  Spec => []ReadyInv
<1>1. TypeOK /\ FinalizerInv /\ ReadyInv /\ [Next]_vars => ReadyInv'
  <2> SUFFICES ASSUME TypeOK, FinalizerInv, ReadyInv, [Next]_vars
               PROVE  ReadyInv'
    OBVIOUS
  <2>1. CASE GetFails \/ TimerFires \/ SyncCache \/ SourceChanges \/ AccountChanges \/ UNCHANGED vars
    <3>1. UNCHANGED <<api, live, pc, obj, before, art, todo, sent>>
      BY <2>1 DEF GetFails, TimerFires, SyncCache, SourceChanges, AccountChanges, cluster, run, vars
    <3> QED BY <3>1, StutterKeepsReadyInv
  <2>2. CASE Restart
    <3>1. UNCHANGED <<api, live>> /\ pc' = "idle" /\ sent' = {}
      BY <2>2 DEF Restart, Forget, cluster
    <3>2. ReadyIsAdopted' /\ ReadyMeansDeployed'
      BY <3>1, ReadyStays DEF ReadyInv, ReadyIsAdopted, IsTrue
    <3> QED BY <3>1, <3>2, IdleReadyInv
  <2>3. ~ObjectDrifts /\ ~UserCreates
    BY DEF ObjectDrifts, UserCreates, Change
  <2> QED
    BY <2>1, <2>2, <2>3, GetKeepsReadyInv, StageKeepsReadyInv, ReportKeepsReadyInv,
       ApplyKeepsReadyInv, RecordKeepsReadyInv, DeleteKeepsReadyInv, AnnotationKeepsReadyInv,
       FinalizeKeepsReadyInv, FinalizeStatusKeepsReadyInv, UserKeepsReadyInv
       DEF Next, Worker, Surroundings
<1> QED BY <1>1, InitReady, TypeCorrect, FinalizerInvariant, PTL DEF Spec

\* A LanguageModel that is Ready for its generation runs what its spec and its
\* last attempted revision call for: in the middle of the next run, after a
\* status patch of which a part failed, and after a crash.
THEOREM ReadyIsDeployed ==
    ASSUME "stale" \notin Faults, "drift" \notin Changes, "create" \notin Changes
    PROVE  Spec => []ReadyMeansDeployed
<1>1. ReadyInv => ReadyMeansDeployed
  BY DEF ReadyInv
<1> QED BY <1>1, ReadyInvariant, PTL
=============================================================================
