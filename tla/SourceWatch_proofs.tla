------------------------- MODULE SourceWatch_proofs -------------------------
(***************************************************************************)
(* Proofs about SourceWatch, for any number of LanguageModels, sources,    *)
(* workers, failures and changes.                                          *)
(***************************************************************************)
EXTENDS SourceWatch, TLAPS

-----------------------------------------------------------------------------
(* Type correctness *)

\* A worker that is not idle has a key and an object, and a revision once it
\* has found the source.
LEMMA JobFields ==
    ASSUME NEW j \in Jobs
    PROVE  /\ j.stage = "idle" <=> j = NoJob
           /\ j # NoJob => j.lm \in LMs /\ j.obj \in Objects
                           /\ j.stage \in {"getSource", "reconcile"}
           /\ j.stage = "reconcile" => j.rev \in Revisions
  BY DEF Jobs, NoJob

\* The references of the LanguageModels name known sources.
LEMMA SourceOfType ==
    ASSUME NEW lm \in LMs, NEW o \in Objects
    PROVE  SourceOf(lm, o.ref) \in SourceKeys
  BY WatchAssumption DEF Objects

\* A failure uses up one of those that remain.
LEMMA FaultCounts ==
    ASSUME faults \in Nat, NEW kind, Fault(kind)
    PROVE  faults' \in Nat
  BY DEF Fault

\* The result of a run frees the worker and sets the timer of its key.
LEMMA ReturnType ==
    ASSUME TypeOK, NEW w \in Workers, job[w] # NoJob, NEW after \in {"retry", "interval"},
           Return(w, after)
    PROVE  /\ job' \in [Workers -> Jobs]
           /\ timer' \in [LMs -> {"none", "interval", "retry"}]
  BY DEF Return, TypeOK, Jobs

\* Every variable stays within its type.
THEOREM WatchTyped == Spec => []TypeOK
<1>1. Init => TypeOK
  <2> SUFFICES ASSUME Init PROVE TypeOK
    OBVIOUS
  <2>1. seen \in [SourceKeys -> States]
    BY DEF Init, Listed, States
  <2>2. job \in [Workers -> Jobs]
    BY DEF Init, Jobs
  <2> QED BY <2>1, <2>2, WatchAssumption DEF Init, TypeOK, Deployments
<1>2. TypeOK /\ [Next]_vars => TypeOK'
  <2> SUFFICES ASSUME TypeOK, [Next]_vars PROVE TypeOK'
    OBVIOUS
  <2> USE DEF TypeOK, server, informers, events
  <2>1. ASSUME NEW lm \in LMs, SyncObject(lm) \/ HandleObject(lm) PROVE TypeOK'
    BY <2>1 DEF SyncObject, HandleObject
  <2>2. ASSUME NEW s \in SourceKeys, SyncSource(s) PROVE TypeOK'
    BY <2>2 DEF SyncSource
  <2>3. ASSUME NEW s \in SourceKeys, HandleSource(s) PROVE TypeOK'
    <3>1. faults' \in Nat
      BY <2>3, FaultCounts DEF HandleSource
    <3> QED BY <2>3, <3>1 DEF HandleSource, RequestsForRevisionChangeOf
  <2>4. ASSUME NEW w \in Workers, NEW lm \in LMs, Take(w, lm) PROVE TypeOK'
    <3>1. [stage |-> "getSource", lm |-> lm, obj |-> cached[lm]] \in Jobs
      BY DEF Jobs
    <3>2. job' \in [Workers -> Jobs]
      BY <2>4, <3>1 DEF Take
    <3> QED BY <2>4, <3>2 DEF Take
  <2>5. ASSUME NEW w \in Workers, GetSource(w) PROVE TypeOK'
    <3>1. job[w] \in Jobs /\ job[w] # NoJob
      BY <2>5 DEF GetSource, NoJob
    <3> DEFINE rev == seen[SourceOf(job[w].lm, job[w].obj.ref)]
    <3>2. CASE Return(w, "retry") /\ (UNCHANGED faults \/ Fault("source"))
      BY <2>5, <3>1, <3>2, ReturnType, FaultCounts DEF GetSource
    <3>3. CASE /\ Usable(job[w].lm, job[w].obj.ref, rev)
               /\ job' = [job EXCEPT ![w] = [stage |-> "reconcile", lm |-> job[w].lm,
                                             obj |-> job[w].obj, rev |-> rev]]
               /\ UNCHANGED <<timer, faults>>
      <4>1. rev \in Revisions
        BY <3>3 DEF Usable
      <4>2. [stage |-> "reconcile", lm |-> job[w].lm, obj |-> job[w].obj, rev |-> rev] \in Jobs
        <5> HIDE DEF rev
        <5> QED BY <3>1, <4>1, JobFields DEF Jobs
      <4>3. job' \in [Workers -> Jobs]
        BY <3>3, <4>2
      <4> QED BY <2>5, <3>3, <4>3 DEF GetSource
    <3> QED BY <2>5, <3>2, <3>3 DEF GetSource
  <2>6. ASSUME NEW w \in Workers, Reconcile(w) PROVE TypeOK'
    <3>1. job[w] \in Jobs /\ job[w] # NoJob /\ job[w].stage = "reconcile"
      BY <2>6 DEF Reconcile, NoJob
    <3> DEFINE d == From(SourceOf(job[w].lm, job[w].obj.ref), job[w].rev)
    <3>2. d \in Deployments
      BY <3>1, JobFields, SourceOfType DEF From, Deployments
    <3>3. deployed' \in [LMs -> Deployments]
      BY <2>6, <3>2 DEF Reconcile
    <3>4. faults' \in Nat
      BY <2>6, FaultCounts DEF Reconcile
    <3>5. job' \in [Workers -> Jobs] /\ timer' \in [LMs -> {"none", "interval", "retry"}]
      BY <2>6, <3>1, ReturnType DEF Reconcile
    <3> QED BY <2>6, <3>3, <3>4, <3>5 DEF Reconcile
  <2>7. ASSUME NEW lm \in LMs, TimerFires(lm) PROVE TypeOK'
    BY <2>7 DEF TimerFires
  <2>8. ASSUME NEW lm \in LMs, UserWrites(lm) PROVE TypeOK'
    BY <2>8 DEF UserWrites, Change
  <2>9. ASSUME NEW s \in SourceKeys, SourceMoves(s) PROVE TypeOK'
    BY <2>9 DEF SourceMoves, Change
  <2>10. CASE Restart
    <3>1. faults' \in Nat
      BY <2>10, FaultCounts DEF Restart
    <3>2. seen' \in [SourceKeys -> States]
      BY <2>10 DEF Restart, Listed, States
    <3>3. job' \in [Workers -> Jobs]
      BY <2>10 DEF Restart, Jobs
    <3> QED BY <2>10, <3>1, <3>2, <3>3 DEF Restart
  <2>11. CASE UNCHANGED vars
    BY <2>11 DEF vars
  <2> QED
    BY <2>1, <2>2, <2>3, <2>4, <2>5, <2>6, <2>7, <2>8, <2>9, <2>10, <2>11
       DEF Next, Informers
<1> QED BY <1>1, <1>2, PTL DEF Spec

-----------------------------------------------------------------------------
(* One worker per key: what the work queue guarantees, and what the proof  *)
(* that no revision is lost uses of it.                                    *)

OneWorkerPerKey ==
    \A v, w \in Workers :
        job[v] # NoJob /\ job[w] # NoJob /\ job[v].lm = job[w].lm => v = w

\* A worker that returns leaves its key to nobody.
LEMMA ReturnFrees ==
    ASSUME TypeOK, OneWorkerPerKey, NEW w \in Workers, job[w] # NoJob, NEW after,
           Return(w, after)
    PROVE  /\ OneWorkerPerKey'
           /\ \A v \in Workers : job'[v] # NoJob => job'[v] = job[v] /\ job[v].lm # job[w].lm
<1>1. job'[w] = NoJob /\ \A v \in Workers \ {w} : job'[v] = job[v]
  BY DEF Return, TypeOK
<1>2. \A v \in Workers \ {w} : job[v] # NoJob => job[v].lm # job[w].lm
  BY DEF OneWorkerPerKey
<1> QED BY <1>1, <1>2 DEF OneWorkerPerKey

\* A worker that goes on keeps its key.
LEMMA GoesOn ==
    ASSUME TypeOK, OneWorkerPerKey, NEW w \in Workers, job[w] # NoJob,
           NEW j \in Jobs, j # NoJob, j.lm = job[w].lm, job' = [job EXCEPT ![w] = j]
    PROVE  /\ OneWorkerPerKey'
           /\ job'[w] = j /\ \A v \in Workers \ {w} : job'[v] = job[v]
<1>1. job'[w] = j /\ \A v \in Workers \ {w} : job'[v] = job[v]
  BY DEF TypeOK
<1> QED BY <1>1 DEF OneWorkerPerKey

\* The two outcomes of getSource.
LEMMA GetSourceOutcome ==
    ASSUME TypeOK, NEW w \in Workers, GetSource(w)
    PROVE  LET rev == seen[SourceOf(job[w].lm, job[w].obj.ref)]
               j == [stage |-> "reconcile", lm |-> job[w].lm, obj |-> job[w].obj, rev |-> rev]
           IN  /\ job[w] # NoJob /\ job[w].lm \in LMs
               /\ \/ Return(w, "retry")
                  \/ /\ job' = [job EXCEPT ![w] = j] /\ timer' = timer
                     /\ j \in Jobs /\ j # NoJob
<1> DEFINE rev == seen[SourceOf(job[w].lm, job[w].obj.ref)]
           j == [stage |-> "reconcile", lm |-> job[w].lm, obj |-> job[w].obj, rev |-> rev]
<1>1. job[w] \in Jobs /\ job[w] # NoJob
  BY DEF GetSource, NoJob, TypeOK
<1>2. job[w].lm \in LMs /\ job[w].obj \in Objects
  BY <1>1, JobFields
<1>3. CASE Return(w, "retry")
  BY <1>1, <1>2, <1>3
<1>4. CASE /\ Usable(job[w].lm, job[w].obj.ref, rev)
           /\ job' = [job EXCEPT ![w] = j]
           /\ UNCHANGED <<timer, faults>>
  <2>1. rev \in Revisions
    BY <1>4 DEF Usable
  <2>2. j \in Jobs /\ j # NoJob
    <3> HIDE DEF rev
    <3> QED BY <1>2, <2>1 DEF Jobs, NoJob
  <2> QED BY <1>1, <1>2, <1>4, <2>2
<1> QED BY <1>3, <1>4 DEF GetSource

\* No step lets a second worker have a key.
LEMMA StepKeepsOneWorker ==
    ASSUME TypeOK, OneWorkerPerKey, [Next]_vars
    PROVE  OneWorkerPerKey'
<1>1. CASE job' = job
  BY <1>1 DEF OneWorkerPerKey
<1>2. ASSUME NEW w \in Workers, NEW lm \in LMs, Take(w, lm) PROVE OneWorkerPerKey'
  <2> DEFINE j == [stage |-> "getSource", lm |-> lm, obj |-> cached[lm]]
  <2>1. lm \notin Processing /\ (job' = job \/ job' = [job EXCEPT ![w] = j])
    BY <1>2 DEF Take, Available
  <2>2. CASE job' = [job EXCEPT ![w] = j]
    <3>1. job'[w] = j /\ j.lm = lm /\ \A v \in Workers \ {w} : job'[v] = job[v]
      BY <2>2 DEF TypeOK
    <3>2. \A v \in Workers : job[v] # NoJob => job[v].lm # lm
      BY <2>1 DEF Processing
    <3> HIDE DEF j
    <3> QED BY <3>1, <3>2 DEF OneWorkerPerKey
  <2> QED BY <1>1, <2>1, <2>2
<1>3. ASSUME NEW w \in Workers, GetSource(w) PROVE OneWorkerPerKey'
  BY <1>3, GetSourceOutcome, ReturnFrees, GoesOn
<1>4. ASSUME NEW w \in Workers, Reconcile(w) PROVE OneWorkerPerKey'
  <2>1. job[w] # NoJob
    BY <1>4 DEF Reconcile, NoJob
  <2> QED BY <1>4, <2>1, ReturnFrees DEF Reconcile
<1>5. CASE Restart
  BY <1>5 DEF Restart, OneWorkerPerKey
<1>6. CASE \/ Informers
           \/ \E lm \in LMs : TimerFires(lm) \/ UserWrites(lm)
           \/ \E s \in SourceKeys : SourceMoves(s)
           \/ UNCHANGED vars
  BY <1>1, <1>6 DEF Informers, SyncObject, HandleObject, SyncSource, HandleSource,
     TimerFires, UserWrites, SourceMoves, Change, vars
<1> QED BY <1>2, <1>3, <1>4, <1>5, <1>6 DEF Next

\* Two workers never reconcile the same LanguageModel, whatever is queued,
\* delayed or retried in the meantime.
LEMMA KeysAreExclusive == Spec => []OneWorkerPerKey
<1>1. Init => OneWorkerPerKey
  BY DEF Init, OneWorkerPerKey
<1> QED BY <1>1, StepKeepsOneWorker, WatchTyped, PTL DEF Spec

-----------------------------------------------------------------------------
(* No lost revisions *)

\* The source of lm as the informer has it.
Src(lm) == SourceOf(lm, cached[lm].ref)

\* An event or a key in the queue will bring a worker to lm, or an error has
\* kept one away.
Pending(lm) ==
    \/ lm \in objectEvents
    \/ Src(lm) \in sourceEvents
    \/ lm \in dirty
    \/ lm \in missed

\* The worker j is about to deploy lm from the copies as they are.
UpToDate(j, lm) ==
    /\ j # NoJob
    /\ j.lm = lm
    /\ j.obj = cached[lm]
    /\ \/ j.stage = "getSource"
       \/ j.rev = seen[Src(lm)]

Working(lm) == \E w \in Workers : UpToDate(job[w], lm)

\* Nobody works on lm, which is deployed or waits for its retry.
Settled(lm) ==
    /\ lm \notin Processing
    /\ \/ timer[lm] = "retry"
       \/ deployed[lm] = From(Src(lm), seen[Src(lm)])

Accounted(lm) == Pending(lm) \/ Working(lm) \/ Settled(lm)

\* Whatever the copies ask for is under way or done.
WatchInv == \A lm \in LMs : Wants(lm, cached[lm], seen) => Accounted(lm)

\* The worker j has lm.
Has(j, lm) == j # NoJob /\ j.lm = lm

\* A step that leaves the copies for lm, its workers, its timer and what it is
\* deployed from alone.
Spares(lm) ==
    /\ cached'[lm] = cached[lm]
    /\ seen'[Src(lm)] = seen[Src(lm)]
    /\ \A w \in Workers : Has(job[w], lm) \/ Has(job'[w], lm) => job'[w] = job[w]
    /\ timer'[lm] = timer[lm]
    /\ deployed'[lm] = deployed[lm]

\* Such a step changes nothing of what lm is accounted for by, but for what is
\* pending.
LEMMA SparesAccount ==
    ASSUME NEW lm \in LMs, Spares(lm)
    PROVE  /\ Wants(lm, cached[lm], seen)' <=> Wants(lm, cached[lm], seen)
           /\ Src(lm)' = Src(lm)
           /\ Working(lm) => Working(lm)'
           /\ Settled(lm) => Settled(lm)'
<1>1. Src(lm)' = Src(lm)
  BY DEF Spares, Src
<1>2. Wants(lm, cached[lm], seen)' <=> Wants(lm, cached[lm], seen)
  BY DEF Spares, Src, Wants
<1>3. Working(lm) => Working(lm)'
  <2> SUFFICES ASSUME NEW w \in Workers, UpToDate(job[w], lm) PROVE Working(lm)'
    BY DEF Working
  <2>1. job'[w] = job[w]
    BY DEF Spares, UpToDate, Has
  <2>2. UpToDate(job[w], lm)'
    BY <1>1, <2>1 DEF Spares, UpToDate
  <2> QED BY <2>2 DEF Working
<1>4. Settled(lm) => Settled(lm)'
  <2>1. lm \notin Processing => lm \notin Processing'
    BY DEF Spares, Processing, Has
  <2> QED BY <1>1, <2>1 DEF Spares, Settled
<1> QED BY <1>1, <1>2, <1>3, <1>4

\* A new revision in a copy always makes an event.
LEMMA RevisionsMakeEvents ==
    ASSUME NEW was \in States, NEW is \in Revisions, was # is
    PROVE  SourceEvent(was, is)
<1>1. Gone \notin Revisions /\ NoArtifact \notin Revisions /\ Gone # NoArtifact
  BY WatchAssumption DEF Gone, NoArtifact
<1> QED BY <1>1 DEF SourceEvent, SourceRevisionChange, States

\* Copies that change, and events that are handled.
LEMMA InformersAccount ==
    ASSUME TypeOK, WatchInv, Informers, NEW lm \in LMs, Wants(lm, cached[lm], seen)'
    PROVE  Accounted(lm)'
<1> USE DEF server, informers
<1>1. ASSUME Spares(lm), Pending(lm) => Pending(lm)' PROVE Accounted(lm)'
  BY <1>1, SparesAccount DEF WatchInv, Accounted
<1>2. ASSUME NEW x \in LMs, SyncObject(x) PROVE Accounted(lm)'
  <2>1. CASE x = lm
    BY <1>2, <2>1 DEF SyncObject, Accounted, Pending
  <2>2. CASE x # lm
    <3>1. Spares(lm)
      BY <1>2, <2>2 DEF SyncObject, Spares, TypeOK
    <3>2. Pending(lm) => Pending(lm)'
      BY <1>2, <3>1, SparesAccount DEF SyncObject, Pending
    <3> QED BY <1>1, <3>1, <3>2
  <2> QED BY <2>1, <2>2
<1>3. ASSUME NEW x \in LMs, HandleObject(x) PROVE Accounted(lm)'
  <2>1. Spares(lm)
    BY <1>3 DEF HandleObject, Spares
  <2>2. Pending(lm) => Pending(lm)'
    BY <1>3, <2>1, SparesAccount DEF HandleObject, Pending
  <2> QED BY <1>1, <2>1, <2>2
<1>4. ASSUME NEW s \in SourceKeys, SyncSource(s) PROVE Accounted(lm)'
  <2>1. CASE s = Src(lm)
    <3>1. seen'[s] = source[s] /\ Src(lm)' = s
      BY <1>4, <2>1 DEF SyncSource, Src, TypeOK
    <3>2. source[s] \in Revisions
      BY <3>1 DEF Wants, Usable, Src
    <3>3. SourceEvent(seen[s], source[s])
      BY <1>4, <3>2, RevisionsMakeEvents DEF SyncSource, TypeOK
    <3> QED BY <1>4, <3>1, <3>3 DEF SyncSource, Accounted, Pending
  <2>2. CASE s # Src(lm)
    <3>0. Src(lm) \in SourceKeys
      BY SourceOfType DEF Src, TypeOK
    <3>1. Spares(lm)
      BY <1>4, <2>2, <3>0 DEF SyncSource, Spares, TypeOK
    <3>2. Pending(lm) => Pending(lm)'
      BY <1>4, <3>1, SparesAccount DEF SyncSource, Pending
    <3> QED BY <1>1, <3>1, <3>2
  <2> QED BY <2>1, <2>2
<1>5. ASSUME NEW s \in SourceKeys, HandleSource(s) PROVE Accounted(lm)'
  <2>1. Spares(lm)
    BY <1>5 DEF HandleSource, Spares
  <2>2. Src(lm)' = Src(lm) /\ cached[lm].managed
    BY <2>1, SparesAccount DEF Wants
  <2>3. Src(lm) = s => lm \in RequestsForRevisionChangeOf(s)
    BY <2>2 DEF RequestsForRevisionChangeOf, IndexBy, Src
  <2>4. Pending(lm) => Pending(lm)'
    BY <1>5, <2>2, <2>3 DEF HandleSource, Pending
  <2> QED BY <1>1, <2>1, <2>4
<1> QED BY <1>2, <1>3, <1>4, <1>5 DEF Informers

\* The worker that has lm, and that nobody else can have, is up to date unless
\* a wake-up is pending.
LEMMA TheWorker ==
    ASSUME TypeOK, OneWorkerPerKey, WatchInv, NEW w \in Workers, NEW lm \in LMs,
           Has(job[w], lm), Wants(lm, cached[lm], seen)
    PROVE  Pending(lm) \/ UpToDate(job[w], lm)
<1>1. lm \in Processing
  BY DEF Has, Processing
<1>2. ASSUME NEW v \in Workers, UpToDate(job[v], lm) PROVE v = w
  BY <1>2 DEF UpToDate, Has, OneWorkerPerKey
<1> QED BY <1>1, <1>2 DEF WatchInv, Accounted, Settled, Working

\* A worker that has failed leaves a retry behind.
LEMMA ReturnsForRetry ==
    ASSUME TypeOK, OneWorkerPerKey, NEW w \in Workers, NEW lm \in LMs,
           Has(job[w], lm), Return(w, "retry")
    PROVE  Settled(lm)'
<1>1. lm \notin Processing'
  BY ReturnFrees DEF Has, Processing
<1>2. timer'[lm] = "retry"
  BY DEF Return, Has, TypeOK
<1> QED BY <1>1, <1>2 DEF Settled

\* A worker that has lm takes the next step of its run.
LEMMA WorkerAccounts ==
    ASSUME TypeOK, OneWorkerPerKey, WatchInv, NEW w \in Workers, NEW lm \in LMs,
           Has(job[w], lm), GetSource(w) \/ Reconcile(w), Wants(lm, cached[lm], seen)'
    PROVE  Accounted(lm)'
<1>1. /\ cached' = cached /\ seen' = seen
      /\ objectEvents' = objectEvents /\ sourceEvents' = sourceEvents
      /\ dirty' = dirty /\ missed' = missed
  BY DEF GetSource, Reconcile, informers, events
<1>2. Src(lm)' = Src(lm) /\ Wants(lm, cached[lm], seen)
  BY <1>1 DEF Src, Wants
<1>3. CASE Pending(lm)
  BY <1>1, <1>2, <1>3 DEF Pending, Accounted
<1>4. CASE Return(w, "retry")
  BY <1>4, ReturnsForRetry DEF Accounted
<1>5. CASE GetSource(w) /\ UpToDate(job[w], lm) /\ ~Return(w, "retry")
  <2> DEFINE rev == seen[SourceOf(job[w].lm, job[w].obj.ref)]
             j == [stage |-> "reconcile", lm |-> job[w].lm, obj |-> job[w].obj, rev |-> rev]
  <2>1. job' = [job EXCEPT ![w] = j] /\ j # NoJob
    BY <1>5, GetSourceOutcome
  <2>2. job'[w] = j
    BY <2>1 DEF TypeOK
  <2>3. j.lm = lm /\ j.obj = cached[lm] /\ j.rev = seen[Src(lm)]
    BY <1>5 DEF UpToDate, Src
  <2> HIDE DEF j
  <2>4. UpToDate(job[w], lm)'
    BY <1>1, <1>2, <2>1, <2>2, <2>3 DEF UpToDate
  <2> QED BY <2>4 DEF Working, Accounted
<1>6. CASE Reconcile(w) /\ UpToDate(job[w], lm) /\ ~Return(w, "retry")
  <2>1. Return(w, "interval")
    BY <1>6 DEF Reconcile
  <2>2. deployed' = [deployed EXCEPT ![lm] = From(SourceOf(lm, job[w].obj.ref), job[w].rev)]
    BY <1>6 DEF Reconcile, UpToDate
  <2>3. job[w].obj = cached[lm] /\ job[w].rev = seen[Src(lm)]
    BY <1>6 DEF Reconcile, UpToDate
  <2>4. deployed'[lm] = From(Src(lm), seen[Src(lm)])
    BY <2>2, <2>3 DEF TypeOK, Src
  <2>5. lm \notin Processing'
    BY <2>1, ReturnFrees DEF Has, Processing
  <2> QED BY <1>1, <1>2, <2>4, <2>5 DEF Settled, Accounted
<1> QED BY <1>2, <1>3, <1>4, <1>5, <1>6, TheWorker

\* A worker that does not have lm takes the next step of its run.
LEMMA OtherWorkerSpares ==
    ASSUME TypeOK, OneWorkerPerKey, NEW w \in Workers, NEW lm \in LMs,
           ~Has(job[w], lm), GetSource(w) \/ Reconcile(w)
    PROVE  Spares(lm)
<1>1. cached' = cached /\ seen' = seen
  BY DEF GetSource, Reconcile, informers
<1>2. job[w] # NoJob /\ job[w].lm # lm
  BY DEF GetSource, Reconcile, Has, NoJob
<1>3. ASSUME NEW after, Return(w, after), deployed'[lm] = deployed[lm] PROVE Spares(lm)
  <2>1. timer'[lm] = timer[lm]
    BY <1>2, <1>3 DEF Return, TypeOK
  <2>2. \A v \in Workers : Has(job[v], lm) \/ Has(job'[v], lm) => job'[v] = job[v]
    BY <1>2, <1>3 DEF Return, Has, TypeOK
  <2> QED BY <1>1, <1>3, <2>1, <2>2 DEF Spares
<1>4. CASE GetSource(w)
  <2> DEFINE rev == seen[SourceOf(job[w].lm, job[w].obj.ref)]
             j == [stage |-> "reconcile", lm |-> job[w].lm, obj |-> job[w].obj, rev |-> rev]
  <2>1. deployed' = deployed
    BY <1>4 DEF GetSource
  <2>2. CASE job' = [job EXCEPT ![w] = j] /\ timer' = timer
    <3>1. job'[w] = j /\ j.lm # lm /\ \A v \in Workers \ {w} : job'[v] = job[v]
      BY <1>2, <2>2 DEF TypeOK
    <3> HIDE DEF j
    <3>2. \A v \in Workers : Has(job[v], lm) \/ Has(job'[v], lm) => job'[v] = job[v]
      BY <1>2, <3>1 DEF Has
    <3> QED BY <1>1, <2>1, <2>2, <3>2 DEF Spares
  <2> QED BY <1>3, <1>4, <2>1, <2>2, GetSourceOutcome
<1>5. CASE Reconcile(w)
  <2>1. deployed'[lm] = deployed[lm]
    BY <1>2, <1>5 DEF Reconcile, TypeOK
  <2> QED BY <1>3, <1>5, <2>1 DEF Reconcile
<1> QED BY <1>4, <1>5

\* Whatever the copies ask for stays under way or done.
LEMMA StepKeepsAccount ==
    ASSUME TypeOK, OneWorkerPerKey, WatchInv, [Next]_vars
    PROVE  WatchInv'
<1> SUFFICES ASSUME NEW lm \in LMs, Wants(lm, cached[lm], seen)' PROVE Accounted(lm)'
  BY DEF WatchInv
<1> USE DEF server, informers, events
<1>1. ASSUME Spares(lm), Pending(lm) => Pending(lm)' PROVE Accounted(lm)'
  BY <1>1, SparesAccount DEF WatchInv, Accounted
<1>2. CASE Informers
  BY <1>2, InformersAccount
<1>3. ASSUME NEW w \in Workers, NEW x \in LMs, Take(w, x) PROVE Accounted(lm)'
  <2> DEFINE j == [stage |-> "getSource", lm |-> x, obj |-> cached[x]]
  <2>1. CASE x = lm
    <3>1. cached[lm].managed /\ ~cached[lm].suspend
      BY <1>3 DEF Take, Wants
    <3>2. job' = [job EXCEPT ![w] = j]
      BY <1>3, <2>1, <3>1 DEF Take
    <3>3. job'[w] = j
      BY <3>2 DEF TypeOK
    <3>4. j # NoJob /\ j.lm = lm /\ j.obj = cached[lm] /\ j.stage = "getSource"
      BY <2>1 DEF NoJob
    <3> HIDE DEF j
    <3>5. UpToDate(job[w], lm)'
      BY <1>3, <3>3, <3>4 DEF Take, UpToDate
    <3> QED BY <3>5 DEF Working, Accounted
  <2>2. CASE x # lm
    <3>1. job[w] = NoJob /\ (job' = job \/ job' = [job EXCEPT ![w] = j])
      BY <1>3 DEF Take
    <3>2. j.lm # lm
      BY <2>2
    <3>3. \A v \in Workers : Has(job[v], lm) \/ Has(job'[v], lm) => job'[v] = job[v]
      <4> HIDE DEF j
      <4> QED BY <3>1, <3>2 DEF Has, TypeOK
    <3>4. Spares(lm)
      BY <1>3, <3>3 DEF Take, Spares
    <3>5. Pending(lm) => Pending(lm)'
      BY <1>3, <2>2, <3>4, SparesAccount DEF Take, Pending
    <3> QED BY <1>1, <3>4, <3>5
  <2> QED BY <2>1, <2>2
<1>4. ASSUME NEW w \in Workers, GetSource(w) \/ Reconcile(w) PROVE Accounted(lm)'
  <2>1. CASE Has(job[w], lm)
    BY <1>4, <2>1, WorkerAccounts
  <2>2. CASE ~Has(job[w], lm)
    <3>1. Spares(lm)
      BY <1>4, <2>2, OtherWorkerSpares
    <3>2. Pending(lm) => Pending(lm)'
      BY <1>4, <3>1, SparesAccount DEF GetSource, Reconcile, Pending
    <3> QED BY <1>1, <3>1, <3>2
  <2> QED BY <2>1, <2>2
<1>5. ASSUME NEW x \in LMs, TimerFires(x) PROVE Accounted(lm)'
  <2>1. CASE x = lm
    BY <1>5, <2>1 DEF TimerFires, Accounted, Pending
  <2>2. CASE x # lm
    <3>1. Spares(lm)
      BY <1>5, <2>2 DEF TimerFires, Spares, TypeOK
    <3>2. Pending(lm) => Pending(lm)'
      BY <1>5, <3>1, SparesAccount DEF TimerFires, Pending
    <3> QED BY <1>1, <3>1, <3>2
  <2> QED BY <2>1, <2>2
<1>6. CASE \/ \E x \in LMs : UserWrites(x)
           \/ \E s \in SourceKeys : SourceMoves(s)
           \/ UNCHANGED vars
  <2>1. Spares(lm)
    BY <1>6 DEF UserWrites, SourceMoves, Change, vars, Spares
  <2>2. Pending(lm) => Pending(lm)'
    BY <1>6, <2>1, SparesAccount DEF UserWrites, SourceMoves, Change, vars, Pending
  <2> QED BY <1>1, <2>1, <2>2
<1>7. CASE Restart
  BY <1>7 DEF Restart, Wants, Accounted, Pending
<1> QED BY <1>2, <1>3, <1>4, <1>5, <1>6, <1>7 DEF Next

\* No wake-up is lost: with any number of LanguageModels, sources and workers,
\* in any order of syncs, events, edits, failures and crashes, a LanguageModel
\* with nothing under way is deployed from the current revision of the source
\* it refers to.
THEOREM NoRevisionIsLost == Spec => []NoLostRevision
<1>1. Init => WatchInv
  BY DEF Init, WatchInv, Wants, Accounted, Pending
<1>2. TypeOK /\ WatchInv => NoLostRevision
  <2> SUFFICES ASSUME TypeOK, WatchInv, NEW lm \in LMs, Wants(lm, stored[lm], source), Rests(lm)
               PROVE  deployed[lm] = From(SourceOf(lm, stored[lm].ref),
                                          source[SourceOf(lm, stored[lm].ref)])
    BY DEF NoLostRevision
  <2>1. cached[lm] = stored[lm] /\ seen[Src(lm)] = source[Src(lm)]
    BY DEF Rests, Src
  <2>2. Wants(lm, cached[lm], seen)
    BY <2>1 DEF Wants, Src
  <2>3. ~Pending(lm)
    BY <2>1 DEF Rests, Pending, Src
  <2>4. ~Working(lm)
    BY DEF Rests, Working, UpToDate, Processing
  <2>5. Settled(lm) /\ timer[lm] # "retry"
    BY <2>2, <2>3, <2>4 DEF WatchInv, Accounted, Rests
  <2> QED BY <2>1, <2>5 DEF Settled, Src
<1> QED BY <1>1, <1>2, StepKeepsAccount, WatchTyped, KeysAreExclusive, PTL DEF Spec
=============================================================================
