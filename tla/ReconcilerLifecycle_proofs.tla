--------------------- MODULE ReconcilerLifecycle_proofs ---------------------
(***************************************************************************)
(* The step simulation behind ImplementsLifecycle, for every set of specs  *)
(* and revisions and all kinds and any number of failures and changes: the *)
(* order of creation, adoption, deletion, finalization and writes, and,    *)
(* where the controller cannot lose track of an object, that nothing is    *)
(* left when a finalization ends.                                          *)
(***************************************************************************)
EXTENDS GarbageCollection_proofs

-----------------------------------------------------------------------------
(* The refinement mapping *)

\* The phase depends on three flags of the stored object.
LEMMA PhaseOfFlags ==
    ASSUME api \in LanguageModels, api' \in LanguageModels
    PROVE  /\ ~api.exists => Phase = "absent"
           /\ api.exists /\ api.deleting => Phase = "finalizing"
           /\ api.exists /\ ~api.deleting /\ api.fin => Phase = "adopted"
           /\ api.exists /\ ~api.deleting /\ ~api.fin => Phase = "new"
           /\ ~api'.exists => Phase' = "absent"
           /\ api'.exists /\ api'.deleting => Phase' = "finalizing"
           /\ api'.exists /\ ~api'.deleting /\ api'.fin => Phase' = "adopted"
           /\ api'.exists /\ ~api'.deleting /\ ~api'.fin => Phase' = "new"
  BY DEF Phase

\* A step of the stored object alone is a lifecycle step when it makes one of
\* the moves the lifecycle knows.
LEMMA ObjectStep ==
    ASSUME TypeOK, api' \in LanguageModels, live' = live,
           \/ api'.exists = api.exists /\ api'.deleting = api.deleting /\ api'.fin = api.fin
           \/ ~api.exists /\ api'.exists /\ ~api'.deleting /\ ~api'.fin
           \/ api.exists /\ ~api.deleting /\ ~api.fin /\ ~api'.exists
           \/ api.exists /\ ~api.deleting /\ ~api.fin
                /\ api'.exists /\ ~api'.deleting /\ api'.fin
           \/ api.exists /\ ~api.deleting /\ api.fin /\ api'.exists /\ api'.deleting
           \/ api.exists /\ api.deleting /\ api'.exists /\ api'.deleting
           \/ api.exists /\ api.deleting /\ ~api'.exists
                /\ (MayForget \/ OwnedKinds = {})
    PROVE  [L!Next]_(L!vars)
<1>1. OwnedKinds' = OwnedKinds
  BY DEF OwnedKinds, Owned
<1>2. api \in LanguageModels
  BY DEF TypeOK
<1>3. \/ Phase' = Phase
      \/ Phase = "absent" /\ Phase' = "new"
      \/ Phase = "new" /\ Phase' = "absent"
      \/ Phase = "new" /\ Phase' = "adopted"
      \/ Phase = "adopted" /\ Phase' = "finalizing"
      \/ Phase = "finalizing" /\ Phase' = "absent" /\ (MayForget \/ OwnedKinds = {})
  <2> USE <1>2, PhaseOfFlags
  <2>1. CASE api'.exists = api.exists /\ api'.deleting = api.deleting /\ api'.fin = api.fin
    BY <2>1 DEF Phase
  <2> QED BY <2>1
<1> QED
  BY <1>1, <1>3
     DEF L!Next, L!vars, L!Create, L!Discard, L!Adopt, L!Delete, L!Finish, L!Moves

\* A step of the workload alone: one object is written while the stored object
\* is adopted or under deletion, or one is lost.
LEMMA WorkloadStep ==
    ASSUME TypeOK, api' = api, NEW k \in Kinds,
           \A j \in Kinds \ {k} : live'[j] = live[j],
           Owned(k)' /\ ~Owned(k) => api.exists /\ (api.deleting \/ api.fin)
    PROVE  [L!Next]_(L!vars)
<1>1. Phase' = Phase
  BY DEF Phase
<1>2. \A j \in Kinds \ {k} : Owned(j)' <=> Owned(j)
  BY DEF Owned
<1>3. CASE (Owned(k)' /\ Owned(k)) \/ (~Owned(k)' /\ ~Owned(k))
  <2>1. OwnedKinds' = OwnedKinds
    BY <1>2, <1>3 DEF OwnedKinds
  <2> QED BY <1>1, <2>1 DEF L!vars
<1>4. CASE Owned(k)' /\ ~Owned(k)
  <2>1. OwnedKinds' = OwnedKinds \cup {k}
    BY <1>2, <1>4 DEF OwnedKinds
  <2>2. Phase \in {"adopted", "finalizing"}
    BY <1>4 DEF Phase
  <2>3. L!Write
    BY <1>1, <2>1, <2>2 DEF L!Write
  <2> QED BY <2>3 DEF L!Next
<1>5. CASE ~Owned(k)' /\ Owned(k)
  <2>1. OwnedKinds' = OwnedKinds \ {k} /\ k \in OwnedKinds
    BY <1>2, <1>5 DEF OwnedKinds
  <2>2. L!Lose
    BY <1>1, <2>1 DEF L!Lose
  <2> QED BY <2>2 DEF L!Next
<1> QED BY <1>3, <1>4, <1>5 DEF Owned

-----------------------------------------------------------------------------
(* Patches *)

\* A progress patch in the middle of a run moves nothing.
LEMMA ReportStep ==
    ASSUME TypeOK, FinalizerInv,
           ReportFetching \/ ReportBuilding \/ ReportDetecting \/ CheckHealth \/ ReportHealthy
    PROVE  [L!Next]_(L!vars)
<1>1. PICK o \in LanguageModels, e \in LanguageModels :
         \E next : Patch(o, next, e) /\ ReportsWith(o, e, next)
  BY RunPatch
<1>2. /\ PatchSends(o) \/ PatchSucceeds(o) \/ PatchFails(o)
      /\ live' = live /\ pc \in RunStages /\ o.fin = obj.fin
  BY <1>1 DEF Patch, ReportsWith, RunStages
<1>3. api.fin /\ o.fin /\ Storable(api)
  BY <1>2 DEF FinalizerInv
<1>4. Storable(api') /\ api'.deleting = api.deleting /\ api'.fin
  BY <1>2, <1>3, PatchFinalizer
<1>5. api' \in LanguageModels
  BY <1>2, PatchSucceedsType, PatchFailsType
<1>6. api'.exists = api.exists /\ api'.fin = api.fin
  <2>1. /\ api.exists \in BOOLEAN /\ api'.exists \in BOOLEAN
        /\ api.fin \in BOOLEAN /\ api'.fin \in BOOLEAN
    BY <1>5 DEF TypeOK, LanguageModels
  <2> QED BY <1>3, <1>4, <2>1 DEF Storable
<1> QED BY <1>2, <1>4, <1>5, <1>6, ObjectStep

\* The patch of finalizeStatus adopts, finishes, or moves nothing.
LEMMA FinalizeStatusStep ==
    ASSUME TypeOK, FinalizerInv, MayForget \/ CollectInv, FinalizeStatus
    PROVE  [L!Next]_(L!vars)
<1> DEFINE o == Finalized(obj)
<1>1. o \in LanguageModels
  BY FinalizedType DEF TypeOK
<1>2. o.fin = obj.fin
  BY DEF Finalized, TypeOK, LanguageModels
<1>3. /\ PatchSends(o) \/ PatchSucceeds(o) \/ PatchFails(o)
      /\ live' = live /\ pc = "finalizeStatus"
  BY DEF FinalizeStatus
<1> HIDE DEF o
<1>4. api' \in LanguageModels
  BY <1>1, <1>3, PatchSucceedsType, PatchFailsType
<1>5. /\ Storable(api) /\ Storable(api')
      /\ o.fin => api'.deleting = api.deleting /\ (api.fin => api'.fin)
      /\ before.fin /\ api'.fin => api.fin /\ api'.deleting = api.deleting
  BY <1>1, <1>3, PatchFinalizer DEF FinalizerInv
<1>6. \/ api' = api
      \/ api.exists /\ api'.exists /\ api'.deleting = api.deleting
      \/ api.exists /\ ~api'.exists /\ api.deleting
  <2>1. ~api.exists => api' = api
    BY <1>3 DEF PatchSends, PatchSucceeds, PatchFails
  <2> QED BY <1>1, <1>3, <2>1, PatchFields DEF PatchEnds, PatchWrites
<1>7. /\ api.exists \in BOOLEAN /\ api'.exists \in BOOLEAN
      /\ api.fin \in BOOLEAN /\ api'.fin \in BOOLEAN
      /\ api.deleting \in BOOLEAN /\ api'.deleting \in BOOLEAN
  BY <1>4 DEF TypeOK, LanguageModels
<1>8. IF obj.deleting THEN before.fin /\ (api.fin => api.deleting) ELSE o.fin
  BY <1>2, <1>3 DEF FinalizerInv, RunsFinalize
<1>9. CASE api' = api
  BY <1>3, <1>4, <1>9, ObjectStep
<1>10. CASE api.exists /\ ~api'.exists /\ api.deleting
  <2>1. MayForget \/ OwnedKinds = {}
    BY <1>10, FinalizeStatusPatch DEF OwnedWithin, OwnedKinds
  <2> QED BY <1>3, <1>4, <1>10, <2>1, ObjectStep
<1>11. CASE api.exists /\ api'.exists /\ api'.deleting = api.deleting
  <2>1. CASE api.deleting
    BY <1>3, <1>4, <1>11, <2>1, ObjectStep
  <2>2. CASE ~api.deleting /\ api'.fin = api.fin
    <3>1. api'.exists = api.exists
      BY <1>7, <1>11
    <3> QED BY <1>3, <1>4, <1>11, <2>2, <3>1, ObjectStep
  <2>3. CASE ~api.deleting /\ api'.fin # api.fin
    <3>1. ~api.fin /\ api'.fin
      BY <1>5, <1>7, <1>8, <2>3
    <3> QED BY <1>3, <1>4, <1>7, <1>11, <2>3, <3>1, ObjectStep
  <2> QED BY <2>1, <2>2, <2>3
<1> QED BY <1>6, <1>9, <1>10, <1>11

-----------------------------------------------------------------------------
(* The other steps *)

\* Users create, delete, and otherwise move nothing.
LEMMA UserStep ==
    ASSUME TypeOK, TypeOK', FinalizerInv,
           UserCreates \/ UserEdits \/ UserDeletes \/ UserRequests
    PROVE  [L!Next]_(L!vars)
<1>1. /\ live' = live /\ Storable(api)
      /\ api \in LanguageModels /\ api' \in LanguageModels
  BY DEF UserCreates, UserEdits, UserDeletes, UserRequests, ChangeOfApi, TypeOK, FinalizerInv
<1>2. CASE UserCreates
  <2>1. PICK s \in Specs : api' = NewLanguageModel(s, changes)
    BY <1>2 DEF UserCreates
  <2>2. ~api.exists /\ api'.exists /\ ~api'.deleting /\ ~api'.fin
    BY <1>2, <2>1 DEF UserCreates, NewLanguageModel
  <2> QED BY <1>1, <2>2, ObjectStep
<1>3. CASE UserEdits
  <2>1. PICK s \in Specs : api' = [api EXCEPT !.spec = s, !.gen = @ + 1]
    BY <1>3 DEF UserEdits
  <2>2. api'.exists = api.exists /\ api'.fin = api.fin /\ api'.deleting = api.deleting
    BY <1>1, <2>1 DEF LanguageModels
  <2> QED BY <1>1, <2>2, ObjectStep
<1>4. CASE UserDeletes /\ api.fin
  <2>1. api' = [api EXCEPT !.deleting = TRUE, !.gen = @ + 1] /\ api.exists /\ ~api.deleting
    BY <1>4 DEF UserDeletes
  <2>2. api'.exists /\ api'.deleting
    BY <1>1, <2>1 DEF LanguageModels
  <2> QED BY <1>1, <1>4, <2>1, <2>2, ObjectStep
<1>5. CASE UserDeletes /\ ~api.fin
  <2>1. api' = Absent /\ api.exists /\ ~api.deleting
    BY <1>5 DEF UserDeletes
  <2> QED BY <1>1, <1>5, <2>1, AbsentType, ObjectStep
<1>6. CASE UserRequests
  <2>1. api' = [api EXCEPT !.asked = @ + 1]
    BY <1>6 DEF UserRequests
  <2>2. api'.exists = api.exists /\ api'.fin = api.fin /\ api'.deleting = api.deleting
    BY <1>1, <2>1 DEF LanguageModels
  <2> QED BY <1>1, <2>2, ObjectStep
<1> QED BY <1>2, <1>3, <1>4, <1>5, <1>6

\* An object of the workload is applied: by a run, so under the finalizer.
LEMMA ApplyStep ==
    ASSUME TypeOK, FinalizerInv, NEW k \in Kinds, ApplyObject(k)
    PROVE  [L!Next]_(L!vars)
<1>1. api' = api /\ pc \in RunStages
  BY DEF ApplyObject, RunStages
<1>2. api.exists /\ api.fin
  BY <1>1 DEF FinalizerInv, Storable
<1>3. \A j \in Kinds \ {k} : live'[j] = live[j]
  BY DEF ApplyObject, TypeOK
<1> QED BY <1>1, <1>2, <1>3, WorkloadStep

\* An object is deleted, taken over or annotated by anyone.
LEMMA LoseStep ==
    ASSUME TypeOK,
           (\E k \in Kinds : DeleteObject(k)) \/ ObjectDrifts \/ ObjectIsAnnotated
    PROVE  [L!Next]_(L!vars)
<1>1. api' = api
  BY DEF DeleteObject, ObjectDrifts, ObjectIsAnnotated, ChangeOfObjects
<1>2. CASE live' = live
  <2>1. PICK k \in Kinds : TRUE
    BY DEF Kinds
  <2>2. Owned(k)' <=> Owned(k)
    BY <1>2 DEF Owned
  <2> QED BY <1>1, <1>2, <2>2, WorkloadStep
<1>3. ASSUME NEW k \in Kinds, NEW o \in {NoObject, ForeignObject},
             live' = [live EXCEPT ![k] = o]
      PROVE  [L!Next]_(L!vars)
  <2>1. live'[k] = o /\ \A j \in Kinds \ {k} : live'[j] = live[j]
    BY <1>3 DEF TypeOK
  <2>2. ~Owned(k)'
    BY <2>1 DEF Owned, NoObject, ForeignObject
  <2> QED BY <1>1, <2>1, <2>2, WorkloadStep
<1>4. ASSUME NEW k \in Kinds, NEW n, live[k].note = "none",
             live' = [live EXCEPT ![k].note = n]
      PROVE  [L!Next]_(L!vars)
  <2>1. live'[k].owner = live[k].owner /\ \A j \in Kinds \ {k} : live'[j] = live[j]
    BY <1>4 DEF TypeOK, Objects
  <2>2. Owned(k)' => Owned(k)
    BY <1>4, <2>1 DEF Owned, NotDeleted
  <2> QED BY <1>1, <2>1, <2>2, WorkloadStep
<1>5. CASE \E k \in Kinds : DeleteObject(k)
  BY <1>2, <1>3, <1>5 DEF DeleteObject
<1>6. CASE ObjectDrifts
  BY <1>3, <1>6 DEF ObjectDrifts
<1>7. CASE ObjectIsAnnotated
  BY <1>4, <1>7 DEF ObjectIsAnnotated
<1> QED BY <1>5, <1>6, <1>7

\* Everything else leaves the stored object and the workload alone.
LEMMA InvisibleStep ==
    ASSUME UNCHANGED <<api, live>>
    PROVE  [L!Next]_(L!vars)
<1>1. Phase' = Phase /\ OwnedKinds' = OwnedKinds
  BY DEF Phase, OwnedKinds, Owned
<1> QED BY <1>1 DEF L!vars

\* The controller implements the lifecycle, however far the cache lags and
\* however often it fails or crashes: also its promise that a finalization
\* leaves nothing, where no spec, change or failure lets it forget an object.
THEOREM LifecycleIsImplemented == Spec => ImplementsLifecycle
<1>1. Init => L!Init
  <2> SUFFICES ASSUME Init PROVE L!Init
    OBVIOUS
  <2>1. PICK s \in Specs : api = NewLanguageModel(s, MaxChanges + 1)
    BY DEF Init
  <2>2. api.exists /\ ~api.fin /\ ~api.deleting
    BY <2>1 DEF NewLanguageModel
  <2>3. \A k \in Kinds : live[k] = NoObject
    BY DEF Init
  <2>4. OwnedKinds = {}
    BY <2>3 DEF OwnedKinds, Owned, NoObject
  <2>5. Phase = "new"
    BY <2>2 DEF Phase
  <2> QED BY <2>4, <2>5 DEF L!Init
<1>2. TypeOK /\ TypeOK' /\ FinalizerInv /\ (MayForget \/ CollectInv) /\ [Next]_vars
         => [L!Next]_(L!vars)
  <2> SUFFICES ASSUME TypeOK, TypeOK', FinalizerInv, MayForget \/ CollectInv, [Next]_vars
               PROVE  [L!Next]_(L!vars)
    OBVIOUS
  <2>1. CASE UNCHANGED vars
    BY <2>1, InvisibleStep DEF vars
  <2>2. CASE \/ GetFails \/ ReconcileNotFound \/ ReconcileDeletion \/ AddFinalizer
             \/ SkipSuspended \/ StartReconcile \/ GetSource
             \/ BuildManifests \/ ApplyFails \/ RecordInventory \/ PruneReturns
             \/ WaitForSet \/ Succeed \/ Finalize \/ DeleteAllReturns
    BY <2>2, InvisibleStep
       DEF GetFails, ReconcileNotFound, ReconcileDeletion, AddFinalizer, SkipSuspended,
           StartReconcile, Get, GetSource, BuildManifests, ApplyFails, RecordInventory,
           SetInventory, PruneReturns, WaitForSet, Succeed, Finalize, DeleteAllReturns, cluster
  <2>3. CASE TimerFires \/ SyncCache \/ Restart \/ SourceChanges \/ AccountChanges
    BY <2>3, InvisibleStep
       DEF TimerFires, SyncCache, Restart, SourceChanges, AccountChanges, cluster
  <2> QED
    BY <2>1, <2>2, <2>3, ReportStep, FinalizeStatusStep, UserStep, ApplyStep, LoseStep
       DEF Next, Worker, Surroundings
<1>3. ASSUME MayForget PROVE Spec => ImplementsLifecycle
  <2>1. TypeOK /\ TypeOK' /\ FinalizerInv /\ [Next]_vars => [L!Next]_(L!vars)
    BY <1>2, <1>3
  <2> QED
    BY <1>1, <2>1, TypeCorrect, FinalizerInvariant, PTL DEF Spec, ImplementsLifecycle, L!Spec
<1>4. ASSUME ~MayForget PROVE Spec => ImplementsLifecycle
  <2>1. Spec => []CollectInv
    BY <1>4, CollectInvariant
  <2>2. TypeOK /\ TypeOK' /\ FinalizerInv /\ CollectInv /\ [Next]_vars => [L!Next]_(L!vars)
    BY <1>2
  <2> QED
    BY <1>1, <2>1, <2>2, TypeCorrect, FinalizerInvariant, PTL
       DEF Spec, ImplementsLifecycle, L!Spec
<1> QED BY <1>3, <1>4
=============================================================================
