------------------ MODULE LanguageModelReconciler_proofs ------------------
(***************************************************************************)
(* Proofs about LanguageModelReconciler, for every set of specs and        *)
(* revisions, every kind and number of failures and of outside changes.    *)
(***************************************************************************)
EXTENDS LanguageModelReconciler, TLAPS

-----------------------------------------------------------------------------
(* Type correctness *)

\* A created object is well typed.
LEMMA NewType ==
    ASSUME NEW s \in Specs, NEW uid \in Nat
    PROVE  NewLanguageModel(s, uid) \in LanguageModels
  BY DEF NewLanguageModel, LanguageModels, ReadyValues, ReconcilingValues, HealthyValues

\* The value that stands for no object is well typed and holds nothing.
LEMMA AbsentType == Absent \in LanguageModels /\ ~Absent.exists /\ ~Absent.deleting
                    /\ ~Absent.fin
<1> DEFINE s == CHOOSE x \in Specs : TRUE
<1>1. s \in Specs
  BY SpecsAssumption
<1>2. Absent = [NewLanguageModel(s, 0) EXCEPT !.exists = FALSE, !.gen = 0]
  BY DEF Absent
<1> HIDE DEF s
<1>3. NewLanguageModel(s, 0) \in LanguageModels
  BY <1>1, NewType
<1> QED
  BY <1>2, <1>3 DEF LanguageModels, NewLanguageModel

\* A patch writes a well-typed object.
LEMMA PatchedType ==
    ASSUME api \in LanguageModels, before \in LanguageModels,
           NEW o \in LanguageModels, NEW parts
    PROVE  Patched(o, parts) \in LanguageModels
<1> DEFINE c == IF "conditions" \in parts THEN PatchConditions(o, api) ELSE api
           f == IF "finalizers" \in parts THEN PatchFinalizers(o, c) ELSE c
<1>1. c \in LanguageModels
  BY DEF PatchConditions, Changed, LanguageModels
<1>2. f \in LanguageModels
  <2> HIDE DEF c
  <2> QED BY <1>1, AbsentType DEF PatchFinalizers, Changed, LanguageModels
<1>3. (IF "status" \in parts THEN PatchStatus(o, f) ELSE f) \in LanguageModels
  <2> HIDE DEF f
  <2> QED BY <1>2 DEF PatchStatus, Changed, LanguageModels
<1> QED BY <1>3 DEF Patched

\* The requests of a patch that goes through keep the types.
LEMMA PatchSucceedsType ==
    ASSUME TypeOK, NEW o \in LanguageModels, PatchSends(o) \/ PatchSucceeds(o)
    PROVE  /\ api' \in LanguageModels /\ faults' \in Nat
           /\ sent' \subseteq {"conditions", "finalizers"}
  BY PatchedType DEF TypeOK, PatchSends, PatchSucceeds

\* A failure uses up one of those that remain.
LEMMA FaultType ==
    ASSUME TypeOK, NEW kind, Fault(kind)
    PROVE  faults' \in Nat
  BY DEF TypeOK, Fault

\* A patch that fails has written some of its parts.
LEMMA PatchFailsType ==
    ASSUME TypeOK, NEW o \in LanguageModels, PatchFails(o)
    PROVE  api' \in LanguageModels /\ faults' \in Nat /\ sent' = {}
<1>1. CASE Fault("patch") /\ \E parts : api' = Patched(o, parts)
  BY <1>1, PatchedType, FaultType DEF PatchFails, TypeOK
<1>2. CASE api' = api /\ UNCHANGED faults
  BY <1>2 DEF PatchFails, TypeOK
<1> QED BY <1>1, <1>2 DEF PatchFails

\* A patch inside Reconcile, whatever its outcome, keeps the types.
LEMMA PatchType ==
    ASSUME TypeOK, NEW o \in LanguageModels, NEW e \in LanguageModels,
           NEW next \in Stages, Patch(o, next, e)
    PROVE  TypeOK'
<1>1. /\ api' \in LanguageModels /\ faults' \in Nat
      /\ sent' \subseteq {"conditions", "finalizers"}
  BY PatchSucceedsType, PatchFailsType DEF Patch
<1>2. /\ obj' \in LanguageModels /\ before' \in LanguageModels
      /\ pc' \in Stages /\ result' \in Results
  BY DEF Patch, Return, TypeOK, Stages, Results
<1> QED BY <1>1, <1>2 DEF Patch, TypeOK, world

\* The working copies the stages build are well typed.
LEMMA WorkingCopyType ==
    ASSUME NEW o \in LanguageModels
    PROVE  /\ \A r \in ReadyValues : [o EXCEPT !.ready = r] \in LanguageModels
           /\ \A b \in BOOLEAN : [o EXCEPT !.fin = b] \in LanguageModels
           /\ \A v \in SUBSET Kinds : [o EXCEPT !.inv = v] \in LanguageModels
           /\ \A r \in ReconcilingValues, n \in Nat :
                 [o EXCEPT !.attempted = n, !.reconciling = r] \in LanguageModels
           /\ \A q \in ReadyValues, r \in ReconcilingValues :
                 [o EXCEPT !.ready = q, !.reconciling = r] \in LanguageModels
           /\ \A r \in ReconcilingValues :
                 [o EXCEPT !.reconciling = r] \in LanguageModels
           /\ \A r \in ReconcilingValues, h \in HealthyValues :
                 [o EXCEPT !.reconciling = r, !.healthy = h] \in LanguageModels
           /\ \A q \in ReadyValues, h \in HealthyValues :
                 [o EXCEPT !.ready = q, !.healthy = h] \in LanguageModels
           /\ \A h \in HealthyValues : [o EXCEPT !.healthy = h] \in LanguageModels
           /\ \A q \in ReadyValues, n \in Nat :
                 [o EXCEPT !.applied = n, !.ready = q] \in LanguageModels
  BY DEF LanguageModels

\* finalizeStatus prepares a well-typed object.
LEMMA FinalizedType ==
    ASSUME NEW o \in LanguageModels
    PROVE  Finalized(o) \in LanguageModels
<1> DEFINE h == Handled(o)
           b == IF IsTrue(o) THEN o.gen ELSE o.observed
           r == CASE IsTrue(o) -> "none"
                  [] IsFalse(o) /\ o.reconciling # "none" -> "ProgressingWithRetry"
                  [] OTHER -> o.reconciling
<1>1. /\ o.asked \in Nat /\ o.handled \in Nat /\ o.gen \in Nat /\ o.observed \in Int
      /\ o.reconciling \in ReconcilingValues
  BY DEF LanguageModels
<1>2. h \in Nat
  BY <1>1 DEF Handled
<1>3. b \in Int
  BY <1>1
<1>4. r \in ReconcilingValues
  BY <1>1 DEF ReconcilingValues
<1>5. Finalized(o) = [o EXCEPT !.handled = h, !.observed = b, !.reconciling = r]
  BY DEF Finalized
<1> HIDE DEF h, b, r
<1> QED BY <1>2, <1>3, <1>4, <1>5 DEF LanguageModels

\* build returns objects of the known kinds.
LEMMA BuildType ==
    ASSUME NEW spec \in Specs
    PROVE  Build(spec) \subseteq Kinds
  BY DEF Build, BuildKnative, BuildKubernetes, Kinds

\* The revision of a source is a number.
LEMMA SourceType ==
    ASSUME NEW s \in Sources
    PROVE  s.rev \in Nat
<1>1. s.rev \in Revisions \/ s.rev = 0
  BY DEF Sources
<1>2. Revisions \subseteq Nat /\ 0 \in Nat
  BY RevisionsAssumption
<1>3. CASE s.rev \in Revisions
  BY <1>2, <1>3
<1>4. CASE s.rev = 0
  BY <1>2, <1>4
<1> QED BY <1>1, <1>3, <1>4

\* A finished worker leaves well-typed variables behind.
LEMMA ForgetType ==
    ASSUME Forget
    PROVE  /\ obj' \in LanguageModels /\ before' \in LanguageModels
           /\ pc' \in Stages /\ art' \in Nat /\ todo' \subseteq Kinds
           /\ failed' \in BOOLEAN /\ sent' = {} /\ result' \in Results
  BY AbsentType DEF Forget, Stages, Results

\* A value written into a workload object keeps live well typed.
LEMMA LiveType ==
    ASSUME TypeOK, NEW k \in Kinds
    PROVE  /\ \A o \in Objects : [live EXCEPT ![k] = o] \in [Kinds -> Objects]
           /\ \A c \in Contents :
                 [live EXCEPT ![k].owner = "lm", ![k].content = c] \in [Kinds -> Objects]
           /\ \A n \in Notes :
                 [live EXCEPT ![k].note = n] \in [Kinds -> Objects]
           /\ NoObject \in Objects /\ ForeignObject \in Objects
  BY DEF TypeOK, Objects, Notes, NoObject, ForeignObject, NoContent, Contents,
         DeploymentTypes, CacheStrategies

\* Type correctness, for every value of the constants: no patch, early return,
\* crash or outside change leaves the declared state space.
THEOREM TypeCorrect == Spec => []TypeOK
<1>1. Init => TypeOK
  <2> SUFFICES ASSUME Init PROVE TypeOK
    OBVIOUS
  <2>1. api \in LanguageModels /\ cache \in LanguageModels
    BY NewType, ReconcilerAssumption DEF Init
  <2>2. obj \in LanguageModels /\ before \in LanguageModels
    BY AbsentType DEF Init
  <2>3. live \in [Kinds -> Objects]
    BY DEF Init, NoObject, Objects, Notes, NoContent, Contents, DeploymentTypes, CacheStrategies
  <2> QED
    BY <2>1, <2>2, <2>3, ReconcilerAssumption DEF Init, TypeOK, Stages, Results
<1>2. TypeOK /\ [Next]_vars => TypeOK'
  <2> SUFFICES ASSUME TypeOK, [Next]_vars PROVE TypeOK'
    OBVIOUS
  <2>0. obj \in LanguageModels /\ cache \in LanguageModels /\ obj.spec \in Specs
        /\ api \in LanguageModels
    BY DEF TypeOK, LanguageModels
  <2>1. CASE ReconcileNotFound
    BY <2>1 DEF ReconcileNotFound, Get, TypeOK, cluster, world, run
  <2>2. CASE ReconcileDeletion
    BY <2>2 DEF ReconcileDeletion, Get, TypeOK, cluster, world, run, Stages
  <2>3. CASE AddFinalizer
    <3>1. [cache EXCEPT !.fin = TRUE] \in LanguageModels
      BY <2>0, WorkingCopyType
    <3> QED BY <2>3, <3>1 DEF AddFinalizer, Get, Return, TypeOK, cluster, world, run,
                              Stages, Results
  <2>4. CASE SkipSuspended
    BY <2>4 DEF SkipSuspended, Get, Return, TypeOK, cluster, world, run, Stages, Results
  <2>5. CASE StartReconcile
    BY <2>5 DEF StartReconcile, Get, TypeOK, cluster, world, run, Stages
  <2>6. CASE GetSource
    <3>1. /\ MarkNotReady("AccessDenied") \in LanguageModels
          /\ MarkNotReady("ArtifactFailed") \in LanguageModels
      BY <2>0, WorkingCopyType DEF MarkNotReady, ReadyValues, FailedReasons
    <3>2. source.rev \in Nat
      BY SourceType DEF TypeOK
    <3>3. faults' \in Nat
      BY <2>6, FaultType DEF GetSource, TypeOK
    <3>4. /\ obj' \in LanguageModels /\ art' \in Nat
          /\ pc' \in Stages /\ result' \in Results
      BY <2>6, <3>1, <3>2 DEF GetSource, Return, TypeOK, Stages, Results
    <3> QED BY <2>6, <3>3, <3>4 DEF GetSource, TypeOK, cluster, world
  <2>7. CASE ReportFetching
    <3> DEFINE o == [obj EXCEPT !.ready = "Progressing", !.reconciling = "Fetching"]
    <3>1. o \in LanguageModels
      BY <2>0, WorkingCopyType DEF ReadyValues, ReconcilingValues
    <3>2. Patch(o, "building", o)
      BY <2>7 DEF ReportFetching
    <3> HIDE DEF o
    <3> QED BY <3>1, <3>2, PatchType DEF Stages
  <2>8. CASE ReportBuilding
    <3> DEFINE o == [obj EXCEPT !.attempted = art, !.reconciling = "Building"]
    <3>1. o \in LanguageModels
      BY <2>0, WorkingCopyType DEF ReconcilingValues, TypeOK
    <3>2. Patch(o, "build", o)
      BY <2>8 DEF ReportBuilding
    <3> HIDE DEF o
    <3> QED BY <3>1, <3>2, PatchType DEF Stages
  <2>9. CASE BuildManifests
    <3>1. MarkNotReady("ReconciliationFailed") \in LanguageModels
      BY <2>0, WorkingCopyType DEF MarkNotReady, ReadyValues, FailedReasons
    <3>2. Build(obj.spec) \subseteq Kinds
      BY <2>0, BuildType
    <3>3. faults' \in Nat
      BY <2>9, FaultType DEF BuildManifests, TypeOK
    <3>4. /\ obj' \in LanguageModels /\ todo' \subseteq Kinds
          /\ pc' \in Stages /\ result' \in Results
      BY <2>9, <3>1, <3>2 DEF BuildManifests, Return, TypeOK, Stages, Results
    <3> QED BY <2>9, <3>3, <3>4 DEF BuildManifests, TypeOK, cluster, world
  <2>10. CASE ReportDetecting
    <3> DEFINE o == [obj EXCEPT !.reconciling = "Detecting"]
    <3>1. o \in LanguageModels
      BY <2>0, WorkingCopyType DEF ReconcilingValues
    <3>2. Patch(o, "apply", o)
      BY <2>10 DEF ReportDetecting
    <3> HIDE DEF o
    <3> QED BY <3>1, <3>2, PatchType DEF Stages
  <2>11. ASSUME NEW k \in Kinds, ApplyObject(k) PROVE TypeOK'
    <3>1. ContentOf(obj.spec, art) \in Contents
      BY <2>0, SpecsAssumption DEF ContentOf, Contents, SpecType, TypeOK
    <3>2. live' \in [Kinds -> Objects]
      BY <2>11, <3>1, LiveType DEF ApplyObject, TypeOK
    <3> QED BY <2>11, <3>2 DEF ApplyObject, TypeOK, world
  <2>12. CASE ApplyFails
    <3>1. MarkNotReady("ReconciliationFailed") \in LanguageModels
      BY <2>0, WorkingCopyType DEF MarkNotReady, ReadyValues, FailedReasons
    <3>2. faults' \in Nat
      BY <2>12, FaultType DEF ApplyFails
    <3> QED BY <2>12, <3>1, <3>2 DEF ApplyFails, Return, TypeOK, cluster, world, run,
                                     Stages, Results
  <2>13. CASE RecordInventory
    <3>1. Build(obj.spec) \subseteq Kinds /\ obj.inv \subseteq Kinds
      BY <2>0, BuildType DEF LanguageModels
    <3>2. [obj EXCEPT !.inv = Build(obj.spec)] \in LanguageModels
      BY <2>0, <3>1, WorkingCopyType
    <3>3. todo' \subseteq Kinds /\ pc' \in Stages
      BY <2>13, <3>1 DEF RecordInventory, SetInventory, Stages
    <3> QED BY <2>13, <3>2, <3>3 DEF RecordInventory, SetInventory, TypeOK, cluster, world
  <2>14. ASSUME NEW k \in Kinds, DeleteObject(k) PROVE TypeOK'
    <3>1. live' = live \/ live' = [live EXCEPT ![k] = NoObject]
      BY <2>14 DEF DeleteObject
    <3>3. live' \in [Kinds -> Objects]
      BY <3>1, LiveType DEF TypeOK
    <3>2. faults' \in Nat /\ failed' \in BOOLEAN
      BY <2>14, FaultType DEF DeleteObject, TypeOK
    <3> QED BY <2>14, <3>2, <3>3 DEF DeleteObject, TypeOK, world
  <2>15. CASE PruneReturns
    <3>1. MarkNotReady("PruneFailed") \in LanguageModels
      BY <2>0, WorkingCopyType DEF MarkNotReady, ReadyValues, FailedReasons
    <3> QED BY <2>15, <3>1 DEF PruneReturns, Return, TypeOK, cluster, world, run,
                               Stages, Results
  <2>16. CASE CheckHealth
    <3> DEFINE o == [obj EXCEPT !.reconciling = "Checking", !.healthy = "Unknown"]
               e == [o EXCEPT !.ready = "HealthCheckFailed"]
    <3>1. o \in LanguageModels
      BY <2>0, WorkingCopyType DEF ReconcilingValues, HealthyValues
    <3>2. Patch(o, "wait", e)
      BY <2>16 DEF CheckHealth
    <3> HIDE DEF o
    <3>3. e \in LanguageModels
      BY <3>1, WorkingCopyType DEF ReadyValues, FailedReasons
    <3> HIDE DEF e
    <3> QED BY <3>1, <3>2, <3>3, PatchType DEF Stages
  <2>17. CASE WaitForSet
    <3>1. /\ [obj EXCEPT !.healthy = "True"] \in LanguageModels
          /\ [obj EXCEPT !.ready = "HealthCheckFailed", !.healthy = "False"]
                \in LanguageModels
      BY <2>0, WorkingCopyType DEF ReadyValues, FailedReasons, HealthyValues
    <3>2. faults' \in Nat
      BY <2>17, FaultType DEF WaitForSet, TypeOK
    <3>3. obj' \in LanguageModels /\ pc' \in Stages /\ result' \in Results
      BY <2>17, <3>1 DEF WaitForSet, Return, TypeOK, Stages, Results
    <3> QED BY <2>17, <3>2, <3>3 DEF WaitForSet, TypeOK, cluster, world, run
  <2>18. CASE ReportHealthy
    <3>1. MarkNotReady("HealthCheckFailed") \in LanguageModels
      BY <2>0, WorkingCopyType DEF MarkNotReady, ReadyValues, FailedReasons
    <3> QED BY <2>18, <2>0, <3>1, PatchType DEF ReportHealthy, Stages
  <2>19. CASE Succeed
    <3>1. [obj EXCEPT !.applied = art, !.ready = "ReconciliationSucceeded"]
             \in LanguageModels
      BY <2>0, WorkingCopyType DEF ReadyValues, TypeOK
    <3> QED BY <2>19, <3>1 DEF Succeed, Return, TypeOK, cluster, world, run, Stages, Results
  <2>20. CASE Finalize
    <3>0. obj.inv \subseteq Kinds
      BY <2>0 DEF LanguageModels
    <3>1. [obj EXCEPT !.fin = FALSE] \in LanguageModels
      BY <2>0, WorkingCopyType
    <3>2. faults' \in Nat
      BY <2>20, FaultType DEF Finalize, TypeOK
    <3>3. /\ obj' \in LanguageModels /\ pc' \in Stages /\ result' \in Results
          /\ todo' \subseteq Kinds /\ failed' \in BOOLEAN
      BY <2>20, <3>0, <3>1 DEF Finalize, RemoveFinalizer, GetClientFails, Return, TypeOK,
                         Stages, Results
    <3> QED BY <2>20, <3>2, <3>3 DEF Finalize, TypeOK, cluster, world
  <2>21. CASE DeleteAllReturns
    <3>1. [obj EXCEPT !.fin = FALSE] \in LanguageModels
      BY <2>0, WorkingCopyType
    <3> QED BY <2>21, <3>1 DEF DeleteAllReturns, DeleteAllFails, RemoveFinalizer, Return,
                               TypeOK, cluster, world, run, Stages, Results
  <2>22. CASE FinalizeStatus
    <3>1. Finalized(obj) \in LanguageModels
      BY <2>0, FinalizedType
    <3>2. /\ api' \in LanguageModels /\ faults' \in Nat
          /\ sent' \subseteq {"conditions", "finalizers"}
      BY <2>22, <3>1, PatchSucceedsType, PatchFailsType DEF FinalizeStatus
    <3>3. timer' \in BOOLEAN
      BY <2>22 DEF FinalizeStatus, Requeues, TypeOK
    <3>4. /\ Forget \/ UNCHANGED <<pc, obj, before, art, todo, failed, result>>
          /\ UNCHANGED <<cache, live, world, queued>>
      BY <2>22 DEF FinalizeStatus
    <3>5. CASE Forget
      BY <3>2, <3>3, <3>4, <3>5, ForgetType DEF TypeOK, world
    <3>6. CASE UNCHANGED <<pc, obj, before, art, todo, failed, result>>
      BY <3>2, <3>3, <3>4, <3>6 DEF TypeOK, world
    <3> QED BY <3>4, <3>5, <3>6
  <2>23. CASE TimerFires
    BY <2>23 DEF TimerFires, TypeOK, cluster, world, run
  <2>24. CASE SyncCache
    BY <2>24 DEF SyncCache, TypeOK, cluster, world, run, ObjectEvent
  <2>25. CASE UserCreates
    <3>1. api' \in LanguageModels
      BY <2>25, NewType DEF UserCreates, TypeOK
    <3> QED BY <2>25, <3>1 DEF UserCreates, Change, ChangeOfApi, TypeOK, run
  <2>26. CASE UserEdits
    <3> DEFINE n == api.gen + 1
    <3>1. PICK s \in Specs : api' = [api EXCEPT !.spec = s, !.gen = n]
      BY <2>26 DEF UserEdits
    <3>2. api' \in LanguageModels
      <4>1. n \in Nat
        BY <2>0 DEF LanguageModels
      <4> HIDE DEF n
      <4> QED BY <2>0, <3>1, <4>1 DEF LanguageModels
    <3> QED BY <2>26, <3>2 DEF UserEdits, Change, ChangeOfApi, TypeOK, run
  <2>27. CASE UserDeletes
    <3>1. api' \in LanguageModels
      <4> DEFINE n == api.gen + 1
      <4>1. api' = [api EXCEPT !.deleting = TRUE, !.gen = n] \/ api' = Absent
        BY <2>27 DEF UserDeletes
      <4>2. n \in Nat
        BY <2>0 DEF LanguageModels
      <4> HIDE DEF n
      <4> QED BY <2>0, <4>1, <4>2, AbsentType DEF LanguageModels
    <3> QED BY <2>27, <3>1 DEF UserDeletes, Change, ChangeOfApi, TypeOK, run
  <2>28. CASE UserRequests
    <3>1. api' \in LanguageModels
      BY <2>28, <2>0 DEF UserRequests, LanguageModels
    <3> QED BY <2>28, <3>1 DEF UserRequests, Change, ChangeOfApi, TypeOK, run
  <2>29. CASE SourceChanges
    BY <2>29 DEF SourceChanges, Change, SourceEvent, TypeOK, cluster, run
  <2>30. CASE AccountChanges
    BY <2>30 DEF AccountChanges, Change, TypeOK, cluster, run
  <2>31. CASE ObjectDrifts
    <3>1. live' \in [Kinds -> Objects]
      <4>1. PICK k \in Kinds, o \in {NoObject, ForeignObject} :
               live' = [live EXCEPT ![k] = o]
        BY <2>31 DEF ObjectDrifts
      <4> QED BY <4>1, LiveType
    <3> QED BY <2>31, <3>1 DEF ObjectDrifts, Change, ChangeOfObjects, TypeOK, run
  <2>32. CASE ObjectIsAnnotated
    <3>1. live' \in [Kinds -> Objects]
      <4>1. PICK note \in Notes, k \in Kinds :
               live' = [live EXCEPT ![k].note = note]
        BY <2>32 DEF ObjectIsAnnotated
      <4> QED BY <4>1, LiveType
    <3> QED BY <2>32, <3>1 DEF ObjectIsAnnotated, Change, ChangeOfObjects, TypeOK, run
  <2>33. CASE Restart
    <3>1. faults' \in Nat /\ queued' \in BOOLEAN
      BY <2>33, <2>0, FaultType DEF Restart, LanguageModels
    <3> QED BY <2>33, <3>1, ForgetType DEF Restart, TypeOK, cluster, world
  <2>34. CASE UNCHANGED vars
    BY <2>34 DEF vars, TypeOK
  <2>35. CASE GetFails
    BY <2>35, FaultType DEF GetFails, TypeOK, cluster, world, run
  <2> QED
    BY <2>1, <2>2, <2>3, <2>4, <2>5, <2>6, <2>7, <2>8, <2>9, <2>10, <2>11, <2>12,
       <2>13, <2>14, <2>15, <2>16, <2>17, <2>18, <2>19, <2>20, <2>21, <2>22, <2>23,
       <2>24, <2>25, <2>26, <2>27, <2>28, <2>29, <2>30, <2>31, <2>32, <2>33, <2>34,
       <2>35
       DEF Next, Worker, Surroundings
<1> QED BY <1>1, <1>2, PTL DEF Spec

-----------------------------------------------------------------------------
(***************************************************************************)
(* What a patch does to the fields of the stored object that the later     *)
(* proofs follow.  A field whose value differs from the base may be        *)
(* written; all others keep what the server has.                           *)
(***************************************************************************)

Writes(old, base, new, value) == value = old \/ (new # base /\ value = new)

\* new stores what a patch of o may make of the stored object.
PatchWrites(o, new) ==
    /\ new.exists /\ new.deleting = api.deleting
    /\ new.spec = api.spec /\ new.gen = api.gen
    /\ Writes(api.fin, before.fin, o.fin, new.fin)
    /\ Writes(api.ready, before.ready, o.ready, new.ready)
    /\ Writes(api.observed, before.observed, o.observed, new.observed)
    /\ Writes(api.inv, before.inv, o.inv, new.inv)
    /\ Writes(api.attempted, before.attempted, o.attempted, new.attempted)

\* new stores all that a patch of o has to write in its last request.
PatchWritesStatus(o, new) ==
    /\ new.observed = Changed(before.observed, o.observed, api.observed)
    /\ new.inv = Changed(before.inv, o.inv, api.inv)
    /\ new.attempted = Changed(before.attempted, o.attempted, api.attempted)

\* A request for another part leaves the status alone.
PatchKeepsStatus(new) ==
    /\ new.observed = api.observed /\ new.inv = api.inv
    /\ new.attempted = api.attempted

\* The server drops the object for a patch that takes the last finalizer away.
PatchEnds(o) == api.deleting /\ ~Changed(before.fin, o.fin, api.fin)

\* A patch ends the object or writes the fields of its parts.
LEMMA PatchedFields ==
    ASSUME api \in LanguageModels, before \in LanguageModels,
           NEW o \in LanguageModels, NEW parts, api.exists
    PROVE  \/ PatchEnds(o) /\ ~Patched(o, parts).exists /\ ~Patched(o, parts).fin
              /\ Patched(o, parts) = Absent
           \/ /\ PatchWrites(o, Patched(o, parts))
              /\ "status" \in parts => PatchWritesStatus(o, Patched(o, parts))
              /\ "status" \notin parts => PatchKeepsStatus(Patched(o, parts))
              /\ "conditions" \in parts =>
                    Patched(o, parts).ready = Changed(before.ready, o.ready, api.ready)
              /\ "conditions" \notin parts => Patched(o, parts).ready = api.ready
<1> DEFINE c == IF "conditions" \in parts THEN PatchConditions(o, api) ELSE api
           f == IF "finalizers" \in parts THEN PatchFinalizers(o, c) ELSE c
           new == IF "status" \in parts THEN PatchStatus(o, f) ELSE f
<1>1. /\ c \in LanguageModels /\ c.exists /\ c.deleting = api.deleting
      /\ c.spec = api.spec /\ c.gen = api.gen /\ c.fin = api.fin
      /\ c.observed = api.observed /\ c.inv = api.inv /\ c.attempted = api.attempted
  BY DEF PatchConditions, LanguageModels, Changed
<1>2. /\ Writes(api.ready, before.ready, o.ready, c.ready)
      /\ "conditions" \in parts => c.ready = Changed(before.ready, o.ready, api.ready)
      /\ "conditions" \notin parts => c.ready = api.ready
  BY DEF PatchConditions, LanguageModels, Changed, Writes
<1>3. \/ f = Absent /\ PatchEnds(o)
      \/ /\ f \in LanguageModels /\ f.exists /\ f.deleting = c.deleting
         /\ f.spec = c.spec /\ f.gen = c.gen /\ f.ready = c.ready
         /\ f.observed = c.observed /\ f.inv = c.inv /\ f.attempted = c.attempted
         /\ Writes(api.fin, before.fin, o.fin, f.fin)
  <2> HIDE DEF c
  <2>1. CASE "finalizers" \notin parts
    BY <1>1, <2>1 DEF Writes
  <2>2. CASE "finalizers" \in parts
    <3> DEFINE b == Changed(before.fin, o.fin, c.fin)
    <3>1. b \in BOOLEAN /\ Writes(api.fin, before.fin, o.fin, b)
      BY <1>1 DEF Changed, LanguageModels, Writes
    <3>2. f = IF c.deleting /\ ~b THEN Absent ELSE [c EXCEPT !.fin = b]
      BY <2>2 DEF PatchFinalizers
    <3>3. CASE c.deleting /\ ~b
      BY <1>1, <3>2, <3>3 DEF PatchEnds
    <3> HIDE DEF f, b
    <3>4. CASE ~(c.deleting /\ ~b)
      <4>1. f = [c EXCEPT !.fin = b]
        BY <3>2, <3>4
      <4> QED BY <1>1, <3>1, <4>1 DEF LanguageModels
    <3> QED BY <3>3, <3>4
  <2> QED BY <2>1, <2>2
<1>4. Patched(o, parts) = new
  BY DEF Patched
<1>5. CASE f = Absent /\ PatchEnds(o)
  <2>1. ~f.exists /\ ~f.fin
    BY <1>5, AbsentType
  <2> HIDE DEF f
  <2>2. new = f
    BY <2>1 DEF PatchStatus
  <2> QED BY <1>4, <1>5, <2>1, <2>2
<1>6. CASE /\ f \in LanguageModels /\ f.exists /\ f.deleting = c.deleting
           /\ f.spec = c.spec /\ f.gen = c.gen /\ f.ready = c.ready
           /\ f.observed = c.observed /\ f.inv = c.inv /\ f.attempted = c.attempted
           /\ Writes(api.fin, before.fin, o.fin, f.fin)
  <2> HIDE DEF c, f
  <2>1. /\ new.exists /\ new.deleting = f.deleting /\ new.spec = f.spec
        /\ new.gen = f.gen /\ new.ready = f.ready /\ new.fin = f.fin
    BY <1>6 DEF PatchStatus, LanguageModels
  <2>2. /\ Writes(f.observed, before.observed, o.observed, new.observed)
        /\ Writes(f.inv, before.inv, o.inv, new.inv)
        /\ Writes(f.attempted, before.attempted, o.attempted, new.attempted)
    BY <1>6 DEF PatchStatus, LanguageModels, Changed, Writes
  <2>3. "status" \in parts =>
          /\ new.observed = Changed(before.observed, o.observed, f.observed)
          /\ new.inv = Changed(before.inv, o.inv, f.inv)
          /\ new.attempted = Changed(before.attempted, o.attempted, f.attempted)
    BY <1>6 DEF PatchStatus, LanguageModels
  <2>6. "status" \notin parts => new = f
    OBVIOUS
  <2> HIDE DEF new
  <2>4. PatchWrites(o, new)
    BY <1>1, <1>2, <1>6, <2>1, <2>2 DEF PatchWrites
  <2>5. /\ "status" \in parts => PatchWritesStatus(o, new)
        /\ "status" \notin parts => PatchKeepsStatus(new)
    BY <1>1, <1>6, <2>1, <2>3, <2>6 DEF PatchWritesStatus, PatchKeepsStatus
  <2>7. new.ready = c.ready
    BY <1>6, <2>1
  <2> QED BY <1>2, <1>4, <2>4, <2>5, <2>7
<1> QED BY <1>3, <1>5, <1>6

\* The same of every request of r.patch, for an object that is still there.
LEMMA PatchFields ==
    ASSUME TypeOK, api.exists, NEW o \in LanguageModels,
           PatchSends(o) \/ PatchSucceeds(o) \/ PatchFails(o)
    PROVE  \/ PatchEnds(o) /\ api' = Absent /\ ~api'.exists /\ ~api'.fin
           \/ /\ PatchWrites(o, api')
              /\ PatchSucceeds(o) => PatchWritesStatus(o, api')
              /\ PatchSends(o) => PatchKeepsStatus(api')
              /\ "conditions" \in sent => api'.ready = api.ready
              /\ (PatchSucceeds(o) \/ "conditions" \in sent') /\ "conditions" \notin sent =>
                    api'.ready = Changed(before.ready, o.ready, api.ready)
<1>1. /\ api \in LanguageModels /\ before \in LanguageModels
      /\ "status" \notin sent
  BY DEF TypeOK
<1>2. ASSUME PatchSends(o)
      PROVE  \E parts : /\ api' = Patched(o, parts) /\ "status" \notin parts
                        /\ "conditions" \in sent => "conditions" \notin parts
                        /\ "conditions" \in sent' => "conditions" \in parts \cup sent
  BY <1>2 DEF PatchSends, Unsent
<1>3. PatchSucceeds(o) => api' = Patched(o, PatchParts \ sent)
  BY DEF PatchSucceeds
<1>4. ASSUME PatchFails(o)
      PROVE  \E parts : api' = Patched(o, parts)
                        /\ ("conditions" \in sent => "conditions" \notin parts)
  BY <1>4 DEF PatchFails, Unsent
<1>5. "status" \in PatchParts \ sent
      /\ ("conditions" \in PatchParts \ sent <=> "conditions" \notin sent)
  BY <1>1 DEF PatchParts
<1>6. PatchSends(o) => ~PatchSucceeds(o)
  BY DEF PatchSends, PatchSucceeds
<1>7. PatchFails(o) => ~PatchSends(o) /\ ~PatchSucceeds(o) /\ sent' = {}
  BY DEF PatchFails, Fault, PatchSends, PatchSucceeds, TypeOK
<1> HIDE DEF PatchSends
<1>8. CASE PatchSends(o)
  <2>1. PICK parts : /\ api' = Patched(o, parts) /\ "status" \notin parts
                     /\ "conditions" \in sent => "conditions" \notin parts
                     /\ "conditions" \in sent' => "conditions" \in parts \cup sent
    BY <1>2, <1>8
  <2> QED BY <1>1, <1>6, <1>8, <2>1, PatchedFields
<1>9. CASE PatchSucceeds(o)
  BY <1>1, <1>3, <1>5, <1>6, <1>9, PatchedFields
<1>10. CASE PatchFails(o)
  <2>1. PICK parts : api' = Patched(o, parts)
                     /\ ("conditions" \in sent => "conditions" \notin parts)
    BY <1>4, <1>10
  <2> QED BY <1>1, <1>7, <1>10, <2>1, PatchedFields
<1> QED BY <1>8, <1>9, <1>10

\* The value that stands for no object has the fields of a fresh one.
LEMMA AbsentFields ==
    /\ Absent.inv = {} /\ Absent.ready = "none" /\ Absent.observed = -1
    /\ Absent.gen = 0 /\ ~Absent.fin /\ ~Absent.deleting /\ ~Absent.exists
<1> DEFINE s == CHOOSE x \in Specs : TRUE
<1>1. Absent = [NewLanguageModel(s, 0) EXCEPT !.exists = FALSE, !.gen = 0]
  BY DEF Absent
<1> HIDE DEF s
<1> QED BY <1>1 DEF NewLanguageModel

\* The fields of the copy that finalizeStatus writes.
LEMMA FinalizedFields ==
    ASSUME NEW o \in LanguageModels
    PROVE  /\ Finalized(o) \in LanguageModels
           /\ Finalized(o).fin = o.fin /\ Finalized(o).deleting = o.deleting
           /\ Finalized(o).ready = o.ready /\ Finalized(o).inv = o.inv
           /\ Finalized(o).attempted = o.attempted
           /\ Finalized(o).observed = IF IsTrue(o) THEN o.gen ELSE o.observed
  BY FinalizedType DEF Finalized, LanguageModels

\* The progress patches of a run: what each of them has changed in the working
\* copy o, and in the copy e with which the run ends when the patch fails.
ReportsWith(o, e, next) ==
    /\ o.fin = obj.fin /\ o.deleting = obj.deleting /\ o.inv = obj.inv
    /\ o.spec = obj.spec /\ o.gen = obj.gen /\ o.observed = obj.observed
    /\ e.fin = obj.fin /\ e.deleting = obj.deleting /\ e.inv = obj.inv
    /\ e.spec = obj.spec /\ e.gen = obj.gen /\ e.observed = obj.observed
    /\ o.ready = (IF pc = "fetching" THEN "Progressing" ELSE obj.ready)
    /\ e.ready = (IF pc \in {"checkHealth", "healthy"} THEN "HealthCheckFailed"
                  ELSE o.ready)
    /\ o.attempted = (IF pc = "building" THEN art ELSE obj.attempted)
    /\ e.attempted = o.attempted
    /\ o.healthy = (IF pc = "checkHealth" THEN "Unknown" ELSE obj.healthy)
    /\ \/ pc = "fetching" /\ next = "building"
       \/ pc = "building" /\ next = "build"
       \/ pc = "detecting" /\ next = "apply"
       \/ pc = "checkHealth" /\ next = "wait"
       \/ pc = "healthy" /\ next = "succeed"

\* Every progress patch is one of these.
LEMMA RunPatch ==
    ASSUME TypeOK,
           ReportFetching \/ ReportBuilding \/ ReportDetecting \/ CheckHealth \/ ReportHealthy
    PROVE  \E o, e \in LanguageModels : \E next : Patch(o, next, e) /\ ReportsWith(o, e, next)
<1>1. obj \in LanguageModels /\ art \in Nat
  BY DEF TypeOK
<1>2. CASE ReportFetching
  <2> DEFINE o == [obj EXCEPT !.ready = "Progressing", !.reconciling = "Fetching"]
  <2>1. o \in LanguageModels
    BY <1>1, WorkingCopyType DEF ReadyValues, ReconcilingValues
  <2>2. Patch(o, "building", o) /\ pc = "fetching"
    BY <1>2 DEF ReportFetching
  <2>3. ReportsWith(o, o, "building")
    BY <1>1, <2>2 DEF ReportsWith, LanguageModels
  <2> HIDE DEF o
  <2> QED BY <2>1, <2>2, <2>3
<1>3. CASE ReportBuilding
  <2> DEFINE o == [obj EXCEPT !.attempted = art, !.reconciling = "Building"]
  <2>1. o \in LanguageModels
    BY <1>1, WorkingCopyType DEF ReconcilingValues
  <2>2. Patch(o, "build", o) /\ pc = "building"
    BY <1>3 DEF ReportBuilding
  <2>3. ReportsWith(o, o, "build")
    BY <1>1, <2>2 DEF ReportsWith, LanguageModels
  <2> HIDE DEF o
  <2> QED BY <2>1, <2>2, <2>3
<1>4. CASE ReportDetecting
  <2> DEFINE o == [obj EXCEPT !.reconciling = "Detecting"]
  <2>1. o \in LanguageModels
    BY <1>1, WorkingCopyType DEF ReconcilingValues
  <2>2. Patch(o, "apply", o) /\ pc = "detecting"
    BY <1>4 DEF ReportDetecting
  <2>3. ReportsWith(o, o, "apply")
    BY <1>1, <2>2 DEF ReportsWith, LanguageModels
  <2> HIDE DEF o
  <2> QED BY <2>1, <2>2, <2>3
<1>5. CASE CheckHealth
  <2> DEFINE o == [obj EXCEPT !.reconciling = "Checking", !.healthy = "Unknown"]
             e == [o EXCEPT !.ready = "HealthCheckFailed"]
  <2>1. o \in LanguageModels
    BY <1>1, WorkingCopyType DEF ReconcilingValues, HealthyValues
  <2>2. Patch(o, "wait", e) /\ pc = "checkHealth"
    BY <1>5 DEF CheckHealth
  <2>3. /\ o.fin = obj.fin /\ o.deleting = obj.deleting /\ o.inv = obj.inv
        /\ o.spec = obj.spec /\ o.gen = obj.gen /\ o.observed = obj.observed
        /\ o.ready = obj.ready /\ o.attempted = obj.attempted /\ o.healthy = "Unknown"
    BY <1>1 DEF LanguageModels
  <2> HIDE DEF o
  <2>4. e \in LanguageModels
    BY <2>1, WorkingCopyType DEF ReadyValues, FailedReasons
  <2>5. /\ e.fin = o.fin /\ e.deleting = o.deleting /\ e.inv = o.inv
        /\ e.spec = o.spec /\ e.gen = o.gen /\ e.observed = o.observed
        /\ e.ready = "HealthCheckFailed" /\ e.attempted = o.attempted
    BY <2>1 DEF LanguageModels
  <2> HIDE DEF e
  <2>6. ReportsWith(o, e, "wait")
    BY <2>2, <2>3, <2>5 DEF ReportsWith
  <2> QED BY <2>1, <2>2, <2>4, <2>6
<1>6. CASE ReportHealthy
  <2> DEFINE e == MarkNotReady("HealthCheckFailed")
  <2>1. e \in LanguageModels
    BY <1>1, WorkingCopyType DEF MarkNotReady, ReadyValues, FailedReasons
  <2>2. Patch(obj, "succeed", e) /\ pc = "healthy"
    BY <1>6 DEF ReportHealthy
  <2>3. ReportsWith(obj, e, "succeed")
    BY <1>1, <2>2 DEF ReportsWith, MarkNotReady, LanguageModels
  <2> HIDE DEF e
  <2> QED BY <1>1, <2>1, <2>2, <2>3
<1> QED BY <1>2, <1>3, <1>4, <1>5, <1>6

\* What a user does to the stored object: creates it, ends one that nobody
\* holds, or changes its spec, its deletion or its request and no status.
UserMoves ==
    \/ /\ ~api.exists /\ api'.exists /\ ~api'.fin /\ ~api'.deleting
       /\ api'.inv = {} /\ api'.ready = "none" /\ api'.observed = -1 /\ api'.gen = 1
    \/ api.exists /\ ~api.deleting /\ ~api.fin /\ api' = Absent
    \/ /\ api.exists /\ api'.exists /\ api'.fin = api.fin
       /\ api.deleting => api'.deleting
       /\ api'.inv = api.inv /\ api'.ready = api.ready
       /\ api'.observed = api.observed /\ api'.attempted = api.attempted
       /\ \/ api'.gen = api.gen /\ api'.spec = api.spec /\ api'.deleting = api.deleting
          \/ api'.gen = api.gen + 1

\* Every change by a user is one of these.
LEMMA UserMove ==
    ASSUME TypeOK, UserCreates \/ UserEdits \/ UserDeletes \/ UserRequests
    PROVE  UserMoves
<1>0. api \in LanguageModels /\ api.gen \in Nat
  BY DEF TypeOK, LanguageModels
<1>1. CASE UserCreates
  <2>1. PICK s \in Specs : api' = NewLanguageModel(s, changes)
    BY <1>1 DEF UserCreates
  <2> QED BY <1>1, <2>1 DEF UserCreates, NewLanguageModel, UserMoves
<1>2. CASE UserEdits
  <2>1. PICK s : api' = [api EXCEPT !.spec = s, !.gen = @ + 1] /\ api.exists
    BY <1>2 DEF UserEdits
  <2>2. /\ api'.exists = api.exists /\ api'.fin = api.fin /\ api'.deleting = api.deleting
        /\ api'.inv = api.inv /\ api'.ready = api.ready /\ api'.gen = api.gen + 1
        /\ api'.observed = api.observed /\ api'.attempted = api.attempted
    BY <1>0, <2>1 DEF LanguageModels
  <2> QED BY <2>1, <2>2 DEF UserMoves
<1>3. CASE UserDeletes /\ api.fin
  <2>1. api' = [api EXCEPT !.deleting = TRUE, !.gen = @ + 1] /\ api.exists
    BY <1>3 DEF UserDeletes
  <2>2. /\ api'.exists = api.exists /\ api'.fin = api.fin /\ api'.deleting
        /\ api'.inv = api.inv /\ api'.ready = api.ready /\ api'.gen = api.gen + 1
        /\ api'.observed = api.observed /\ api'.attempted = api.attempted
    BY <1>0, <2>1 DEF LanguageModels
  <2> QED BY <2>1, <2>2 DEF UserMoves
<1>4. CASE UserDeletes /\ ~api.fin
  BY <1>4 DEF UserDeletes, UserMoves
<1>5. CASE UserRequests
  <2>1. api' = [api EXCEPT !.asked = @ + 1] /\ api.exists
    BY <1>5 DEF UserRequests
  <2>2. /\ api'.exists = api.exists /\ api'.fin = api.fin /\ api'.deleting = api.deleting
        /\ api'.inv = api.inv /\ api'.ready = api.ready /\ api'.gen = api.gen
        /\ api'.observed = api.observed /\ api'.attempted = api.attempted
        /\ api'.spec = api.spec
    BY <1>0, <2>1 DEF LanguageModels
  <2> QED BY <2>1, <2>2 DEF UserMoves
<1> QED BY <1>1, <1>2, <1>3, <1>4, <1>5

\* The stages of a run that write nothing outside: on to the next one, out of
\* the run with a failure on the working copy, or with the success.
StageMoves ==
    /\ UNCHANGED <<api, live, cache, before, account, sent>>
    /\ obj'.fin = obj.fin /\ obj'.deleting = obj.deleting /\ obj'.inv = obj.inv
    /\ obj'.spec = obj.spec /\ obj'.gen = obj.gen /\ obj'.observed = obj.observed
    /\ obj'.attempted = obj.attempted
    /\ \/ /\ obj' = obj /\ failed' = failed
          /\ \/ pc = "getSource" /\ pc' = "fetching" /\ todo' = todo
             \/ pc = "build" /\ pc' = "detecting" /\ todo' = Build(obj.spec) /\ art' = art
             \/ pc = "prune" /\ pc' = "checkHealth" /\ todo' = todo /\ art' = art
                /\ todo = {}
       \/ /\ pc = "wait" /\ pc' = "healthy" /\ failed' = failed /\ art' = art
          /\ obj'.ready = obj.ready /\ obj'.healthy = "True"
       \/ /\ pc \in {"getSource", "build", "wait"} /\ pc' = "finalizeStatus"
          /\ IsFalse(obj') /\ failed' = failed
       \/ /\ pc = "apply" /\ pc' = "finalizeStatus" /\ "apply" \in Faults
          /\ IsFalse(obj') /\ failed' = failed
       \/ /\ pc = "prune" /\ pc' = "finalizeStatus" /\ failed
          /\ IsFalse(obj') /\ failed' = failed
       \/ /\ pc = "succeed" /\ pc' = "finalizeStatus" /\ failed' = failed
          /\ IsTrue(obj')

\* Every such stage makes one of these moves.
LEMMA StageMove ==
    ASSUME TypeOK,
           GetSource \/ BuildManifests \/ ApplyFails \/ PruneReturns \/ WaitForSet \/ Succeed
    PROVE  StageMoves
<1>0. obj \in LanguageModels
  BY DEF TypeOK
<1> DEFINE Same(o) ==
       /\ o.fin = obj.fin /\ o.deleting = obj.deleting /\ o.inv = obj.inv
       /\ o.spec = obj.spec /\ o.gen = obj.gen /\ o.observed = obj.observed
       /\ o.attempted = obj.attempted
<1>1. ASSUME NEW r \in FailedReasons
      PROVE  Same(MarkNotReady(r)) /\ IsFalse(MarkNotReady(r))
  BY <1>0 DEF MarkNotReady, LanguageModels, IsFalse
<1>2. CASE GetSource
  <2>1. Same(MarkNotReady("AccessDenied")) /\ IsFalse(MarkNotReady("AccessDenied"))
    BY <1>1 DEF FailedReasons
  <2>2. Same(MarkNotReady("ArtifactFailed")) /\ IsFalse(MarkNotReady("ArtifactFailed"))
    BY <1>1 DEF FailedReasons
  <2> QED BY <1>2, <2>1, <2>2 DEF GetSource, Return, cluster, world, StageMoves
<1>3. CASE BuildManifests
  <2>1. /\ Same(MarkNotReady("ReconciliationFailed"))
        /\ IsFalse(MarkNotReady("ReconciliationFailed"))
    BY <1>1 DEF FailedReasons
  <2> QED BY <1>3, <2>1 DEF BuildManifests, Return, cluster, world, StageMoves
<1>4. CASE ApplyFails
  <2>1. /\ Same(MarkNotReady("ReconciliationFailed"))
        /\ IsFalse(MarkNotReady("ReconciliationFailed"))
    BY <1>1 DEF FailedReasons
  <2> QED BY <1>4, <2>1 DEF ApplyFails, Fault, Return, cluster, world, run, StageMoves
<1>5. CASE PruneReturns
  <2>1. Same(MarkNotReady("PruneFailed")) /\ IsFalse(MarkNotReady("PruneFailed"))
    BY <1>1 DEF FailedReasons
  <2> QED BY <1>5, <2>1 DEF PruneReturns, Return, cluster, world, run, StageMoves
<1>6. CASE WaitForSet
  <2> DEFINE h == [obj EXCEPT !.healthy = "True"]
             e == [obj EXCEPT !.ready = "HealthCheckFailed", !.healthy = "False"]
  <2>1. Same(h) /\ h.ready = obj.ready /\ h.healthy = "True"
    BY <1>0 DEF LanguageModels
  <2>2. Same(e) /\ IsFalse(e)
    BY <1>0 DEF LanguageModels, IsFalse, FailedReasons
  <2>3. /\ pc = "wait" /\ UNCHANGED <<api, live, cache, before, account, failed, art, sent>>
        /\ \/ obj' = h /\ pc' = "healthy"
           \/ obj' = e /\ pc' = "finalizeStatus"
    BY <1>6 DEF WaitForSet, Return, cluster, world, run
  <2> HIDE DEF h, e
  <2> QED BY <2>1, <2>2, <2>3 DEF StageMoves
<1>7. CASE Succeed
  <2> DEFINE o == [obj EXCEPT !.applied = art, !.ready = "ReconciliationSucceeded"]
  <2>1. Same(o) /\ IsTrue(o)
    BY <1>0 DEF LanguageModels, IsTrue
  <2>2. /\ pc = "succeed" /\ UNCHANGED <<api, live, cache, before, account, failed, sent>>
        /\ obj' = o /\ pc' = "finalizeStatus"
    BY <1>7 DEF Succeed, Return, cluster, world, run
  <2> HIDE DEF o
  <2> QED BY <2>1, <2>2 DEF StageMoves
<1> QED BY <1>2, <1>3, <1>4, <1>5, <1>6, <1>7

\* No object is gained by a deletion, a takeover or an annotation.
LEMMA NothingGained ==
    ASSUME TypeOK, NEW j \in Kinds, Owned(j)',
           (\E k \in Kinds : DeleteObject(k)) \/ ObjectDrifts \/ ObjectIsAnnotated
    PROVE  Owned(j)
<1>1. CASE live' = live
  BY <1>1 DEF Owned
<1>2. ASSUME NEW k \in Kinds, NEW o \in {NoObject, ForeignObject},
             live' = [live EXCEPT ![k] = o]
      PROVE  Owned(j)
  <2>1. live'[k] = o /\ \A i \in Kinds \ {k} : live'[i] = live[i]
    BY <1>2 DEF TypeOK
  <2> QED BY <2>1 DEF Owned, NoObject, ForeignObject
<1>3. ASSUME NEW k \in Kinds, NEW n, live[k].note = "none",
             live' = [live EXCEPT ![k].note = n]
      PROVE  Owned(j)
  <2>1. /\ live'[k].owner = live[k].owner
        /\ \A i \in Kinds \ {k} : live'[i] = live[i]
    BY <1>3 DEF TypeOK, Objects
  <2> QED BY <1>3, <2>1 DEF Owned, NotDeleted
<1>4. CASE \E k \in Kinds : DeleteObject(k)
  BY <1>1, <1>2, <1>4 DEF DeleteObject
<1>5. CASE ObjectDrifts
  BY <1>2, <1>5 DEF ObjectDrifts
<1>6. CASE ObjectIsAnnotated
  BY <1>3, <1>6 DEF ObjectIsAnnotated
<1> QED BY <1>4, <1>5, <1>6

-----------------------------------------------------------------------------
(***************************************************************************)
(* The finalizer protocol.  Only the controller writes its finalizer, but  *)
(* it decides from a cache that may lag behind a deletion and a            *)
(* recreation, so the invariant has to say what a lagging copy still tells *)
(* about the stored object.                                                *)
(***************************************************************************)

RunStages == {"getSource", "fetching", "building", "build", "detecting", "apply",
              "prune", "checkHealth", "wait", "healthy", "succeed"}

\* The server keeps a deleted object only for its finalizer.
Storable(lm) == (lm.fin => lm.exists) /\ (lm.deleting => lm.fin)

\* What a run knows that found the object alive, or under deletion.
SeesDeletion == cache.deleting => api.deleting
RunsFinalize == /\ obj.deleting /\ before.fin
                /\ api.fin => api.deleting
                /\ cache.fin => cache.deleting

FinalizerInv ==
    /\ Storable(api) /\ Storable(cache)
    /\ cache.fin /\ ~cache.deleting => api.fin
    /\ cache.deleting /\ api.fin => api.deleting
    /\ pc \in RunStages =>
          api.fin /\ obj.fin /\ before.fin /\ ~obj.deleting /\ SeesDeletion
    /\ pc \in {"finalize", "deleteAll"} => RunsFinalize
    /\ pc = "finalizeStatus" =>
          IF obj.deleting THEN RunsFinalize ELSE obj.fin /\ SeesDeletion

\* What a patch does to the finalizer: it stays when the working copy has it,
\* and a patch whose base has it never brings it in.
LEMMA PatchedFinalizer ==
    ASSUME api \in LanguageModels, before \in LanguageModels,
           NEW o \in LanguageModels, NEW parts,
           api.exists, Storable(api)
    PROVE  LET new == Patched(o, parts)
           IN  /\ Storable(new)
               /\ o.fin => /\ new.deleting = api.deleting
                           /\ api.fin => new.fin
               /\ before.fin /\ new.fin => api.fin /\ new.deleting = api.deleting
<1> DEFINE c == IF "conditions" \in parts THEN PatchConditions(o, api) ELSE api
           f == IF "finalizers" \in parts THEN PatchFinalizers(o, c) ELSE c
           new == IF "status" \in parts THEN PatchStatus(o, f) ELSE f
<1>1. /\ c \in LanguageModels /\ c.exists /\ c.fin = api.fin
      /\ c.deleting = api.deleting
  BY DEF PatchConditions, Changed, LanguageModels
<1>2. /\ f \in LanguageModels /\ Storable(f)
      /\ o.fin => f.deleting = c.deleting /\ (c.fin => f.fin)
      /\ before.fin /\ f.fin => c.fin /\ f.deleting = c.deleting
  <2> HIDE DEF c
  <2>1. Storable(c)
    BY <1>1 DEF Storable
  <2>2. CASE ~("finalizers" \in parts)
    BY <1>1, <2>1, <2>2
  <2>3. CASE "finalizers" \in parts
    <3> DEFINE b == Changed(before.fin, o.fin, c.fin)
    <3>0. o.fin \in BOOLEAN /\ before.fin \in BOOLEAN /\ c.fin \in BOOLEAN
          /\ c.deleting \in BOOLEAN
      BY <1>1 DEF LanguageModels
    <3>1. /\ b \in BOOLEAN
          /\ o.fin => (c.fin => b)
          /\ o.fin /\ c.deleting => b
          /\ before.fin /\ b => c.fin
      BY <2>1, <3>0 DEF Changed, Storable
    <3>2. f = IF c.deleting /\ ~b THEN Absent ELSE [c EXCEPT !.fin = b]
      BY <2>3 DEF PatchFinalizers
    <3> HIDE DEF f, b
    <3>3. CASE c.deleting /\ ~b
      BY <3>0, <3>1, <3>2, <3>3, AbsentType DEF Storable
    <3>4. CASE ~(c.deleting /\ ~b)
      <4>1. f \in LanguageModels /\ f.fin = b /\ f.exists = c.exists
            /\ f.deleting = c.deleting
        BY <1>1, <3>1, <3>2, <3>4 DEF LanguageModels
      <4> QED BY <1>1, <2>1, <3>1, <3>4, <4>1 DEF Storable
    <3> QED BY <3>3, <3>4
  <2> QED BY <2>2, <2>3
<1>3. new.exists = f.exists /\ new.fin = f.fin /\ new.deleting = f.deleting
  <2> HIDE DEF f
  <2> QED BY <1>2 DEF PatchStatus, LanguageModels
<1>4. Patched(o, parts) = new
  BY DEF Patched
<1> HIDE DEF c, f, new
<1>5. Storable(new)
  BY <1>2, <1>3 DEF Storable
<1> QED BY <1>1, <1>2, <1>3, <1>4, <1>5

\* What any request of r.patch does to the stored finalizer.
LEMMA PatchFinalizer ==
    ASSUME TypeOK, Storable(api), NEW o \in LanguageModels,
           PatchSends(o) \/ PatchSucceeds(o) \/ PatchFails(o)
    PROVE  /\ Storable(api')
           /\ o.fin => /\ api'.deleting = api.deleting
                       /\ api.fin => api'.fin
           /\ before.fin /\ api'.fin => api.fin /\ api'.deleting = api.deleting
<1>1. CASE api' = api
  BY <1>1
<1>2. CASE api.exists /\ \E parts : api' = Patched(o, parts)
  BY <1>2, PatchedFinalizer DEF TypeOK
<1> QED BY <1>1, <1>2 DEF PatchSends, PatchSucceeds, PatchFails

\* A patch in the middle of a run, on to the next request or
\* stage, or out of it.
LEMMA PatchKeepsFinalizerInv ==
    ASSUME TypeOK, FinalizerInv, pc \in RunStages,
           NEW o \in LanguageModels, o.fin, ~o.deleting,
           NEW e \in LanguageModels, e.fin, ~e.deleting,
           NEW next \in RunStages, Patch(o, next, e)
    PROVE  FinalizerInv'
<1>1. /\ Storable(api') /\ api'.deleting = api.deleting
      /\ api.fin => api'.fin
      /\ before.fin /\ api'.fin => api.fin
  BY PatchFinalizer DEF Patch, FinalizerInv
<1>2. cache' = cache
  BY DEF Patch
<1>3. api.fin /\ before.fin /\ SeesDeletion
  BY DEF FinalizerInv
<1>4. /\ Storable(api') /\ Storable(cache')
      /\ cache'.fin /\ ~cache'.deleting => api'.fin
      /\ cache'.deleting /\ api'.fin => api'.deleting
      /\ SeesDeletion' /\ api'.fin
  BY <1>1, <1>2, <1>3 DEF FinalizerInv, SeesDeletion
<1>5. CASE pc' = next /\ obj' = o /\ before' = o
  <2>1. pc' \in RunStages /\ pc' \notin {"finalize", "deleteAll", "finalizeStatus"}
    BY <1>5 DEF RunStages
  <2> QED BY <1>4, <1>5, <2>1 DEF FinalizerInv, Storable
<1>6. CASE pc' = "finalizeStatus" /\ obj' = e /\ before' = before
  <2>1. pc' \notin RunStages /\ pc' \notin {"finalize", "deleteAll"}
    BY <1>6 DEF RunStages
  <2> QED BY <1>4, <1>6, <2>1 DEF FinalizerInv, Storable
<1>7. CASE UNCHANGED <<pc, obj, before>>
  <2>1. pc' \in RunStages /\ pc' \notin {"finalize", "deleteAll", "finalizeStatus"}
    BY <1>7 DEF RunStages
  <2> QED BY <1>4, <1>7, <2>1 DEF FinalizerInv, Storable
<1> QED BY <1>5, <1>6, <1>7 DEF Patch, Return

\* A step of a run that writes nothing to the stored object.
LEMMA StageKeepsFinalizerInv ==
    ASSUME FinalizerInv, UNCHANGED <<api, cache, before>>, pc \in RunStages,
           obj'.fin = obj.fin, obj'.deleting = obj.deleting,
           pc' \in RunStages \cup {"finalizeStatus"}
    PROVE  FinalizerInv'
  BY DEF FinalizerInv, RunStages, Storable, SeesDeletion, RunsFinalize

\* A step that touches nothing the invariant is about.
LEMMA StutterKeepsFinalizerInv ==
    ASSUME FinalizerInv, UNCHANGED <<api, cache, before, obj, pc>>
    PROVE  FinalizerInv'
  BY DEF FinalizerInv, Storable, SeesDeletion, RunsFinalize

\* The read at the start of Reconcile and the early returns.
LEMMA GetKeepsFinalizerInv ==
    ASSUME TypeOK, FinalizerInv,
           GetFails \/ ReconcileNotFound \/ ReconcileDeletion \/ AddFinalizer
              \/ SkipSuspended \/ StartReconcile
    PROVE  FinalizerInv'
<1>1. UNCHANGED <<api, cache>> /\ cache \in LanguageModels /\ pc = "idle"
  BY DEF GetFails, ReconcileNotFound, ReconcileDeletion, AddFinalizer, SkipSuspended,
         StartReconcile, Get, cluster, TypeOK
<1>2. CASE GetFails \/ ReconcileNotFound
  BY <1>1, <1>2, StutterKeepsFinalizerInv DEF GetFails, ReconcileNotFound
<1>3. CASE ReconcileDeletion
  <2>1. obj' = cache /\ before' = cache /\ pc' = "finalize" /\ cache.deleting
    BY <1>3 DEF ReconcileDeletion
  <2>2. pc' \notin RunStages /\ pc' # "finalizeStatus"
    BY <2>1 DEF RunStages
  <2> QED BY <1>1, <2>1, <2>2 DEF FinalizerInv, Storable, RunsFinalize
<1>4. CASE AddFinalizer
  <2>1. /\ obj' = [cache EXCEPT !.fin = TRUE] /\ pc' = "finalizeStatus"
        /\ ~cache.deleting
    BY <1>4 DEF AddFinalizer, Return
  <2>2. pc' \notin RunStages
    BY <2>1 DEF RunStages
  <2>3. obj'.fin /\ ~obj'.deleting
    BY <1>1, <2>1 DEF LanguageModels
  <2> QED BY <1>1, <2>1, <2>2, <2>3 DEF FinalizerInv, Storable, SeesDeletion
<1>5. CASE SkipSuspended
  <2>1. obj' = cache /\ pc' = "finalizeStatus" /\ cache.fin /\ ~cache.deleting
    BY <1>5 DEF SkipSuspended, Return
  <2>2. pc' \notin RunStages
    BY <2>1 DEF RunStages
  <2> QED BY <1>1, <2>1, <2>2 DEF FinalizerInv, Storable, SeesDeletion
<1>6. CASE StartReconcile
  <2>1. /\ obj' = cache /\ before' = cache /\ pc' = "getSource"
        /\ cache.fin /\ ~cache.deleting
    BY <1>6 DEF StartReconcile
  <2> QED BY <1>1, <2>1 DEF FinalizerInv, Storable, SeesDeletion
<1> QED BY <1>2, <1>3, <1>4, <1>5, <1>6

\* The stages of a run.
LEMMA RunKeepsFinalizerInv ==
    ASSUME TypeOK, FinalizerInv,
           \/ GetSource \/ ReportFetching \/ ReportBuilding \/ BuildManifests
           \/ ReportDetecting \/ (\E k \in Kinds : ApplyObject(k)) \/ ApplyFails
           \/ RecordInventory \/ PruneReturns \/ CheckHealth \/ WaitForSet
           \/ ReportHealthy \/ Succeed
    PROVE  FinalizerInv'
<1>1. CASE GetSource \/ BuildManifests \/ ApplyFails \/ PruneReturns \/ WaitForSet \/ Succeed
  <2>1. StageMoves
    BY <1>1, StageMove
  <2>2. /\ UNCHANGED <<api, cache, before>>
        /\ obj'.fin = obj.fin /\ obj'.deleting = obj.deleting
        /\ pc \in RunStages /\ pc' \in RunStages \cup {"finalizeStatus"}
    BY <2>1 DEF StageMoves, RunStages
  <2> QED BY <2>2, StageKeepsFinalizerInv
<1>2. CASE \/ ReportFetching \/ ReportBuilding \/ ReportDetecting
           \/ CheckHealth \/ ReportHealthy
  <2>1. PICK o \in LanguageModels, e \in LanguageModels :
           \E next : Patch(o, next, e) /\ ReportsWith(o, e, next)
    BY <1>2, RunPatch
  <2>2. PICK next : Patch(o, next, e) /\ ReportsWith(o, e, next)
    BY <2>1
  <2>3. /\ pc \in RunStages /\ next \in RunStages
        /\ o.fin = obj.fin /\ o.deleting = obj.deleting
        /\ e.fin = obj.fin /\ e.deleting = obj.deleting
    BY <2>2 DEF ReportsWith, RunStages
  <2>4. obj.fin /\ ~obj.deleting
    BY <2>3 DEF FinalizerInv
  <2> QED BY <2>2, <2>3, <2>4, PatchKeepsFinalizerInv
<1>3. CASE \E k \in Kinds : ApplyObject(k)
  BY <1>3, StutterKeepsFinalizerInv DEF ApplyObject
<1>4. CASE RecordInventory
  <2>1. UNCHANGED <<api, cache, before>> /\ pc \in RunStages
    BY <1>4 DEF RecordInventory, SetInventory, cluster, RunStages
  <2>2. obj'.fin = obj.fin /\ obj'.deleting = obj.deleting
    BY <1>4 DEF RecordInventory, SetInventory, TypeOK, LanguageModels
  <2>3. pc' \in RunStages
    BY <1>4 DEF RecordInventory, SetInventory, RunStages
  <2> QED BY <2>1, <2>2, <2>3, StageKeepsFinalizerInv
<1> QED BY <1>1, <1>2, <1>3, <1>4

\* The stages of finalize: nothing is written to the stored object.
LEMMA FinalizeKeepsFinalizerInv ==
    ASSUME TypeOK, FinalizerInv, Finalize \/ DeleteAllReturns
    PROVE  FinalizerInv'
<1>1. /\ UNCHANGED <<api, cache, before>> /\ pc \in {"finalize", "deleteAll"}
      /\ pc' \in {"deleteAll", "finalizeStatus"}
  BY DEF Finalize, DeleteAllReturns, GetClientFails, DeleteAllFails, RemoveFinalizer,
         Return, cluster
<1>2. [obj EXCEPT !.fin = FALSE].deleting = obj.deleting
  BY DEF TypeOK, LanguageModels
<1>3. obj'.deleting = obj.deleting
  BY <1>2 DEF Finalize, DeleteAllReturns, GetClientFails, DeleteAllFails,
              RemoveFinalizer, Return
<1>4. pc' \notin RunStages
  BY <1>1 DEF RunStages
<1> QED BY <1>1, <1>3, <1>4 DEF FinalizerInv, Storable, RunsFinalize

\* The patch of finalizeStatus, the only one that may drop the finalizer.
LEMMA FinalizeStatusKeepsFinalizerInv ==
    ASSUME TypeOK, FinalizerInv, FinalizeStatus
    PROVE  FinalizerInv'
<1> DEFINE o == Finalized(obj)
<1>1. o \in LanguageModels
  BY FinalizedType DEF TypeOK
<1>2. o.fin = obj.fin
  BY DEF Finalized, TypeOK, LanguageModels
<1>3. /\ PatchSends(o) \/ PatchSucceeds(o) \/ PatchFails(o)
      /\ cache' = cache /\ pc = "finalizeStatus"
      /\ pc' = "idle" \/ UNCHANGED <<pc, obj, before>>
  BY DEF FinalizeStatus, Forget
<1> HIDE DEF o
<1>4. /\ Storable(api')
      /\ o.fin => api'.deleting = api.deleting /\ (api.fin => api'.fin)
      /\ before.fin /\ api'.fin => api.fin /\ api'.deleting = api.deleting
  BY <1>1, <1>3, PatchFinalizer DEF FinalizerInv
<1>5. pc' \notin RunStages \cup {"finalize", "deleteAll"}
  BY <1>3 DEF RunStages
<1>6. /\ cache.fin /\ ~cache.deleting => api'.fin
      /\ cache.deleting /\ api'.fin => api'.deleting
  <2>1. CASE obj.deleting
    BY <1>3, <1>4, <2>1 DEF FinalizerInv, RunsFinalize
  <2>2. CASE ~obj.deleting
    BY <1>2, <1>3, <1>4, <2>2 DEF FinalizerInv, SeesDeletion
  <2> QED BY <2>1, <2>2
<1>7. CASE pc' = "idle"
  BY <1>3, <1>4, <1>5, <1>6, <1>7 DEF FinalizerInv, Storable
<1>8. CASE UNCHANGED <<pc, obj, before>> /\ obj.deleting
  <2>1. RunsFinalize'
    BY <1>3, <1>4, <1>8 DEF FinalizerInv, RunsFinalize
  <2> QED BY <1>3, <1>4, <1>5, <1>6, <1>8, <2>1 DEF FinalizerInv, Storable
<1>9. CASE UNCHANGED <<pc, obj, before>> /\ ~obj.deleting
  <2>1. SeesDeletion'
    BY <1>2, <1>3, <1>4, <1>9 DEF FinalizerInv, SeesDeletion
  <2> QED BY <1>3, <1>4, <1>5, <1>6, <1>9, <2>1 DEF FinalizerInv, Storable
<1> QED BY <1>3, <1>7, <1>8, <1>9

\* A change of the stored object by a user: the finalizer is not theirs, and
\* an object that holds it does not go away.
LEMMA UserKeepsFinalizerInv ==
    ASSUME TypeOK, FinalizerInv,
           UserCreates \/ UserEdits \/ UserDeletes \/ UserRequests
    PROVE  FinalizerInv'
<1>1. UNCHANGED <<cache, before, obj, pc>>
  BY DEF UserCreates, UserEdits, UserDeletes, UserRequests, ChangeOfApi
<1>2. /\ Storable(api') /\ api'.fin = api.fin
      /\ api.fin => (api.deleting => api'.deleting)
  <2>0. api \in LanguageModels /\ Storable(api)
    BY DEF TypeOK, FinalizerInv
  <2>1. CASE UserCreates
    <3>1. PICK s \in Specs : api' = NewLanguageModel(s, changes)
      BY <2>1 DEF UserCreates
    <3>2. ~api'.fin /\ ~api'.deleting /\ api'.fin \in BOOLEAN
      BY <3>1 DEF NewLanguageModel
    <3>3. ~api.fin /\ api.fin \in BOOLEAN
      BY <2>0, <2>1 DEF UserCreates, Storable, LanguageModels
    <3> QED BY <3>2, <3>3 DEF Storable
  <2>2. CASE UserEdits
    <3>1. PICK s : api' = [api EXCEPT !.spec = s, !.gen = @ + 1]
      BY <2>2 DEF UserEdits
    <3>2. api'.exists = api.exists /\ api'.fin = api.fin /\ api'.deleting = api.deleting
      BY <2>0, <3>1 DEF LanguageModels
    <3> QED BY <2>0, <3>2 DEF Storable
  <2>3. CASE UserDeletes
    <3>1. CASE api.fin
      <4>1. api' = [api EXCEPT !.deleting = TRUE, !.gen = @ + 1]
        BY <2>3, <3>1 DEF UserDeletes
      <4>2. api'.exists = api.exists /\ api'.fin = api.fin /\ api'.deleting
        BY <2>0, <4>1 DEF LanguageModels
      <4> QED BY <2>0, <3>1, <4>2 DEF Storable
    <3>2. CASE ~api.fin
      <4>1. api' = Absent /\ api.fin \in BOOLEAN /\ api'.fin \in BOOLEAN
        BY <2>0, <2>3, <3>2, AbsentType DEF UserDeletes, LanguageModels
      <4> QED BY <3>2, <4>1, AbsentType DEF Storable
    <3> QED BY <3>1, <3>2
  <2>4. CASE UserRequests
    <3>1. api' = [api EXCEPT !.asked = @ + 1]
      BY <2>4 DEF UserRequests
    <3>2. api'.exists = api.exists /\ api'.fin = api.fin /\ api'.deleting = api.deleting
      BY <2>0, <3>1 DEF LanguageModels
    <3> QED BY <2>0, <3>2 DEF Storable
  <2> QED BY <2>1, <2>2, <2>3, <2>4
<1>3. SeesDeletion /\ Storable(api) => SeesDeletion'
  BY <1>1, <1>2 DEF SeesDeletion, Storable
<1>4. RunsFinalize /\ Storable(api) => RunsFinalize'
  BY <1>1, <1>2 DEF RunsFinalize, Storable
<1> QED BY <1>1, <1>2, <1>3, <1>4 DEF FinalizerInv, Storable

\* The finalizer protocol is an invariant of every behaviour.
THEOREM FinalizerInvariant == Spec => []FinalizerInv
<1>1. Init => FinalizerInv
  <2> SUFFICES ASSUME Init PROVE FinalizerInv
    OBVIOUS
  <2>1. PICK s \in Specs : api = NewLanguageModel(s, MaxChanges + 1)
    BY DEF Init
  <2>2. ~api.fin /\ ~api.deleting
    BY <2>1 DEF NewLanguageModel
  <2>3. cache = api /\ pc = "idle"
    BY DEF Init
  <2>4. pc \notin RunStages
    BY <2>3 DEF RunStages
  <2> QED BY <2>2, <2>3, <2>4 DEF FinalizerInv, Storable
<1>2. TypeOK /\ FinalizerInv /\ [Next]_vars => FinalizerInv'
  <2> SUFFICES ASSUME TypeOK, FinalizerInv, [Next]_vars PROVE FinalizerInv'
    OBVIOUS
  <2>1. ASSUME NEW k \in Kinds, DeleteObject(k) PROVE FinalizerInv'
    BY <2>1, StutterKeepsFinalizerInv DEF DeleteObject
  <2>2. CASE TimerFires
    BY <2>2, StutterKeepsFinalizerInv DEF TimerFires, cluster
  <2>3. CASE SyncCache
    <3>1. cache' = api /\ UNCHANGED <<api, before, obj, pc>>
      BY <2>3 DEF SyncCache, cluster
    <3> QED BY <3>1 DEF FinalizerInv, Storable, SeesDeletion, RunsFinalize
  <2>4. CASE SourceChanges \/ AccountChanges \/ ObjectDrifts \/ ObjectIsAnnotated
    BY <2>4, StutterKeepsFinalizerInv
       DEF SourceChanges, AccountChanges, ObjectDrifts, ObjectIsAnnotated,
           ChangeOfObjects, cluster
  <2>5. CASE Restart
    <3>1. cache' = api /\ api' = api /\ pc' = "idle"
      BY <2>5 DEF Restart, Forget, cluster
    <3>2. pc' \notin RunStages
      BY <3>1 DEF RunStages
    <3> QED BY <3>1, <3>2 DEF FinalizerInv, Storable
  <2>6. CASE UNCHANGED vars
    BY <2>6, StutterKeepsFinalizerInv DEF vars
  <2> QED
    BY <2>1, <2>2, <2>3, <2>4, <2>5, <2>6, GetKeepsFinalizerInv, RunKeepsFinalizerInv,
       FinalizeKeepsFinalizerInv, FinalizeStatusKeepsFinalizerInv, UserKeepsFinalizerInv
       DEF Next, Worker, Surroundings
<1> QED BY <1>1, <1>2, TypeCorrect, PTL DEF Spec

\* finalize never takes down the workload of a LanguageModel that is not
\* under deletion, however far the cache lags.
THEOREM FinalizeIsSafe == Spec => []FinalizeSparesSuccessor
<1>1. FinalizerInv => FinalizeSparesSuccessor
  BY DEF FinalizerInv, RunsFinalize, FinalizeSparesSuccessor
<1> QED BY <1>1, FinalizerInvariant, PTL

\* The workload is written only under the finalizer, so a deletion cannot
\* complete behind the back of a run.
THEOREM ApplyIsProtected == Spec => AppliesUnderFinalizer
<1> DEFINE Written(k) == live'[k].content # live[k].content /\ live'[k].owner = "lm"
<1>1. TypeOK /\ FinalizerInv /\ [Next]_vars
         => [\A k \in Kinds : Written(k) => api.exists /\ api.fin]_vars
  <2> SUFFICES ASSUME TypeOK, FinalizerInv, Next, NEW k \in Kinds, Written(k)
               PROVE  api.exists /\ api.fin
    OBVIOUS
  <2>1. CASE \E j \in Kinds : ApplyObject(j)
    <3>1. pc \in RunStages
      BY <2>1 DEF ApplyObject, RunStages
    <3> QED BY <3>1 DEF FinalizerInv, Storable
  <2>2. CASE live' = live
    BY <2>2
  <2>3. ASSUME NEW j \in Kinds, NEW o \in {NoObject, ForeignObject},
               live' = [live EXCEPT ![j] = o]
        PROVE  FALSE
    BY <2>3 DEF TypeOK, NoObject, ForeignObject
  <2>4. ASSUME NEW j \in Kinds, NEW n, live' = [live EXCEPT ![j].note = n]
        PROVE  FALSE
    BY <2>4 DEF TypeOK, Objects
  <2>5. CASE \E j \in Kinds : DeleteObject(j)
    BY <2>2, <2>3, <2>5 DEF DeleteObject
  <2>6. CASE ObjectDrifts
    BY <2>3, <2>6 DEF ObjectDrifts
  <2>7. CASE ObjectIsAnnotated
    BY <2>4, <2>7 DEF ObjectIsAnnotated
  <2>8. CASE \/ GetFails \/ ReconcileNotFound \/ ReconcileDeletion \/ AddFinalizer
             \/ SkipSuspended \/ StartReconcile \/ GetSource
             \/ BuildManifests \/ ApplyFails \/ RecordInventory \/ PruneReturns
             \/ WaitForSet \/ Succeed \/ Finalize \/ DeleteAllReturns
    BY <2>2, <2>8 DEF GetFails, ReconcileNotFound, ReconcileDeletion, AddFinalizer, SkipSuspended,
       StartReconcile, Get, GetSource, BuildManifests, ApplyFails, RecordInventory,
       SetInventory, PruneReturns, WaitForSet, Succeed, Finalize, DeleteAllReturns, cluster
  <2>9. CASE \/ ReportFetching \/ ReportBuilding \/ ReportDetecting
             \/ CheckHealth \/ ReportHealthy \/ FinalizeStatus
    BY <2>2, <2>9 DEF ReportFetching, ReportBuilding, ReportDetecting, CheckHealth,
       ReportHealthy, FinalizeStatus, Patch
  <2>10. CASE \/ TimerFires \/ SyncCache \/ Restart \/ UserCreates \/ UserEdits
              \/ UserDeletes \/ UserRequests \/ SourceChanges \/ AccountChanges
    BY <2>2, <2>10 DEF TimerFires, SyncCache, Restart, UserCreates, UserEdits,
       UserDeletes, UserRequests, SourceChanges, AccountChanges, ChangeOfApi, cluster
  <2> QED BY <2>1, <2>5, <2>6, <2>7, <2>8, <2>9, <2>10 DEF Next, Worker, Surroundings
<1>2. [][\A k \in Kinds : Written(k) => api.exists /\ api.fin]_vars
         => AppliesUnderFinalizer
  BY DEF AppliesUnderFinalizer
<1> QED BY <1>1, <1>2, TypeCorrect, FinalizerInvariant, PTL DEF Spec
=============================================================================
