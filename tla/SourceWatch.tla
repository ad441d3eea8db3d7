---------------------------- MODULE SourceWatch ----------------------------
(***************************************************************************)
(* How a new revision of a source finds the LanguageModels that refer to   *)
(* it (languagemodel_indexers.go, source_predicate.go, SetupWithManager,   *)
(* cmd/main.go): several LanguageModels and sources, two kinds of informer *)
(* that lag independently, events that are handled after the caches have   *)
(* moved on, one work queue and several workers.  What a run does to the   *)
(* cluster is one step here; LanguageModelReconciler has its details.      *)
(***************************************************************************)
EXTENDS Integers

CONSTANTS
    LMs,                   \* the LanguageModels
    NamespaceOf,           \* the namespace of each
    Refs,                  \* the sourceRef values users give; namespace may be ""
    SourceKeys,            \* the source objects, by kind, namespace and name
    WatchedNamespaces,     \* those the manager's cache covers
    NoCrossNamespaceRefs,  \* the --no-cross-namespace-refs flag
    Workers,               \* as many as --concurrent says
    Revisions,             \* the revisions an artifact may carry
    Faults, MaxFaults,     \* kinds and number of failures
    Changes, MaxChanges    \* kinds and number of changes outside

SourceKinds == {"OCIRepository", "GitRepository", "Bucket"}
KeyType == [kind : SourceKinds, namespace : STRING, name : STRING]
FaultKinds == {"list", "source", "run", "crash"}
ChangeKinds == {"object", "source"}

\* What the schema makes of a LanguageModel here.  managed: it exists and
\* carries the label that --watch-label-selector asks for.
Objects == [managed : BOOLEAN, ref : Refs, suspend : BOOLEAN]

Gone == -1           \* the source does not exist
NoArtifact == 0      \* it exists and has no artifact
States == {Gone, NoArtifact} \cup Revisions

\* The namespace of the reference defaults to that of the LanguageModel.
SourceOf(lm, ref) ==
    [kind |-> ref.kind, name |-> ref.name,
     namespace |-> IF ref.namespace = "" THEN NamespaceOf[lm] ELSE ref.namespace]

ASSUME WatchAssumption ==
    /\ NamespaceOf \in [LMs -> STRING]
    /\ Refs \subseteq KeyType /\ SourceKeys \subseteq KeyType
    /\ \A lm \in LMs, ref \in Refs : SourceOf(lm, ref) \in SourceKeys
    /\ NoCrossNamespaceRefs \in BOOLEAN
    /\ Revisions \subseteq Nat \ {0}
    /\ Faults \subseteq FaultKinds /\ MaxFaults \in Nat
    /\ Changes \subseteq ChangeKinds /\ MaxChanges \in Nat

VARIABLES
    stored,        \* the LanguageModels in the API server
    cached,        \* the informer's copies, which the indexes are made of
    source,        \* the sources in the API server
    seen,          \* the informers' copies of them
    objectEvents,  \* LanguageModels with an event that is not handled yet
    sourceEvents,  \* sources with one
    dirty,         \* keys in the work queue
    job,           \* what each worker is doing
    timer,         \* the delayed add of each key, by what it was made for
    deployed,      \* what each LanguageModel was last deployed from
    missed,        \* history: keys whose event an error dropped, and that no
                   \* worker has taken since
    faults,        \* failures still allowed (bound MaxFaults)
    changes        \* outside changes still allowed (bound MaxChanges)

server == <<stored, source, changes>>
informers == <<cached, seen>>
events == <<objectEvents, sourceEvents>>
vars == <<stored, cached, source, seen, objectEvents, sourceEvents, dirty, job,
          timer, deployed, missed, faults, changes>>

Watched(s) == s.namespace \in WatchedNamespaces

NoJob == [stage |-> "idle"]
Jobs ==
    {NoJob} \cup [stage : {"getSource"}, lm : LMs, obj : Objects]
            \cup [stage : {"reconcile"}, lm : LMs, obj : Objects, rev : Revisions]

Processing == {lm \in LMs : \E w \in Workers : job[w] # NoJob /\ job[w].lm = lm}

Nothing == [rev |-> 0]
Deployments == {Nothing} \cup [source : SourceKeys, rev : Revisions]
From(s, r) == [source |-> s, rev |-> r]

\* The copies after the initial lists: the manager's caches are filled before
\* the workers start.
Listed == [s \in SourceKeys |-> IF Watched(s) THEN source[s] ELSE Gone]

Init ==
    /\ stored \in [LMs -> Objects]
    /\ cached = stored
    /\ source \in [SourceKeys -> States]
    /\ seen = Listed
    /\ objectEvents = {} /\ sourceEvents = {}
    /\ dirty = {lm \in LMs : stored[lm].managed}
    /\ job = [w \in Workers |-> NoJob]
    /\ timer = [lm \in LMs |-> "none"]
    /\ deployed = [lm \in LMs |-> Nothing]
    /\ missed = {}
    /\ faults = MaxFaults
    /\ changes = MaxChanges

Fault(kind) ==
    /\ kind \in Faults
    /\ faults > 0
    /\ faults' = faults - 1

-----------------------------------------------------------------------------
(* Informers and event handlers.  A copy changes before its event is       *)
(* handled, and the informers do not wait for each other.                  *)

\* Every change modelled here makes or ends an object or is a new generation,
\* so it passes the predicates of the LanguageModel watch.
SyncObject(lm) ==
    /\ cached[lm] # stored[lm]
    /\ cached' = [cached EXCEPT ![lm] = stored[lm]]
    /\ objectEvents' = objectEvents \cup {lm}
    /\ UNCHANGED <<server, seen, sourceEvents, dirty, job, timer, deployed, missed, faults>>

HandleObject(lm) ==
    /\ lm \in objectEvents
    /\ objectEvents' = objectEvents \ {lm}
    /\ dirty' = dirty \cup {lm}
    /\ UNCHANGED <<server, informers, sourceEvents, job, timer, deployed, missed, faults>>

\* Mutant: only a change from one artifact to another counts.
SourceRevisionChangeOfArtifact(was, is) ==
    was \in Revisions /\ is \in Revisions /\ was # is

SourceRevisionChange(was, is) ==
    \/ was = NoArtifact /\ is \in Revisions
    \/ was \in Revisions /\ is \in Revisions /\ was # is

\* Creations and deletions pass the predicate, and count when the object in
\* the event has an artifact.
SourceEvent(was, is) ==
    CASE was = Gone -> is \in Revisions
      [] is = Gone -> was \in Revisions
      [] OTHER -> SourceRevisionChange(was, is)

SyncSource(s) ==
    /\ Watched(s)
    /\ seen[s] # source[s]
    /\ seen' = [seen EXCEPT ![s] = source[s]]
    /\ sourceEvents' = IF SourceEvent(seen[s], source[s])
                          THEN sourceEvents \cup {s} ELSE sourceEvents
    /\ UNCHANGED <<server, cached, objectEvents, dirty, job, timer, deployed, missed,
                   faults>>

\* The key a cached LanguageModel has in the index for the kind it refers to.
IndexBy(lm) == SourceOf(lm, cached[lm].ref)

RequestsForRevisionChangeOf(s) ==
    {lm \in LMs : cached[lm].managed /\ IndexBy(lm) = s}

\* An error of the list drops the event.
HandleSource(s) ==
    /\ s \in sourceEvents
    /\ sourceEvents' = sourceEvents \ {s}
    /\ \/ /\ dirty' = dirty \cup RequestsForRevisionChangeOf(s)
          /\ UNCHANGED <<missed, faults>>
       \/ /\ Fault("list")
          /\ missed' = missed \cup RequestsForRevisionChangeOf(s)
          /\ UNCHANGED dirty
    /\ UNCHANGED <<server, informers, objectEvents, job, timer, deployed>>

-----------------------------------------------------------------------------
(* Work queue and workers *)

\* A key is handed to one worker at a time; an add in the meantime waits.
Available(lm) == lm \in dirty /\ lm \notin Processing

\* A worker takes a key and reads the object.  One that is gone, or suspended,
\* needs nothing.
Take(w, lm) ==
    LET o == cached[lm]
    IN
    /\ job[w] = NoJob
    /\ Available(lm)
    /\ dirty' = dirty \ {lm}
    /\ missed' = missed \ {lm}
    /\ job' = IF o.managed /\ ~o.suspend
                 THEN [job EXCEPT ![w] = [stage |-> "getSource", lm |-> lm, obj |-> o]]
                 ELSE job
    /\ UNCHANGED <<server, informers, events, timer, deployed, faults>>

Denied(lm, ref) ==
    NoCrossNamespaceRefs /\ SourceOf(lm, ref).namespace # NamespaceOf[lm]

\* Mutant: the artifact is not checked.
UsableIfFound(lm, ref, state) == ~Denied(lm, ref) /\ state # Gone

\* getSource may look the source up, finds it, and it has an artifact.
Usable(lm, ref, state) == ~Denied(lm, ref) /\ state \in Revisions

\* Mutant: only a failed run comes back.
ReturnForRetry(w, after) ==
    /\ job' = [job EXCEPT ![w] = NoJob]
    /\ timer' = [timer EXCEPT ![job[w].lm] = IF after = "retry" THEN after ELSE @]

\* The queue keeps one delayed add per key.
Return(w, after) ==
    /\ job' = [job EXCEPT ![w] = NoJob]
    /\ timer' = [timer EXCEPT ![job[w].lm] = after]

\* getSource reads the informer's copy, which may be newer than the event that
\* led here, or older than the server.
GetSource(w) ==
    LET lm == job[w].lm
        ref == job[w].obj.ref
        rev == seen[SourceOf(lm, ref)]
    IN
    /\ job[w].stage = "getSource"
    /\ \/ /\ ~Usable(lm, ref, rev)
          /\ Return(w, "retry")
          /\ UNCHANGED faults
       \/ /\ Fault("source")
          /\ Return(w, "retry")
       \/ /\ Usable(lm, ref, rev)
          /\ job' = [job EXCEPT ![w] = [stage |-> "reconcile", lm |-> lm,
                                        obj |-> job[w].obj, rev |-> rev]]
          /\ UNCHANGED <<timer, faults>>
    /\ UNCHANGED <<server, informers, events, dirty, deployed, missed>>

Reconcile(w) ==
    LET lm == job[w].lm
        new == [deployed EXCEPT ![lm] = From(SourceOf(lm, job[w].obj.ref), job[w].rev)]
    IN
    /\ job[w].stage = "reconcile"
    /\ \/ deployed' = new /\ Return(w, "interval") /\ UNCHANGED faults
       \/ deployed' \in {deployed, new} /\ Return(w, "retry") /\ Fault("run")
    /\ UNCHANGED <<server, informers, events, dirty, missed>>

TimerFires(lm) ==
    /\ timer[lm] # "none"
    /\ timer' = [timer EXCEPT ![lm] = "none"]
    /\ dirty' = dirty \cup {lm}
    /\ UNCHANGED <<server, informers, events, job, deployed, missed, faults>>

\* The process dies and the next one lists everything.
Restart ==
    /\ Fault("crash")
    /\ cached' = stored
    /\ seen' = Listed
    /\ objectEvents' = {} /\ sourceEvents' = {}
    /\ dirty' = {lm \in LMs : stored[lm].managed}
    /\ job' = [w \in Workers |-> NoJob]
    /\ timer' = [lm \in LMs |-> "none"]
    /\ missed' = {}
    /\ UNCHANGED <<server, deployed>>

-----------------------------------------------------------------------------
(* Users and source-controller *)

Change(kind) ==
    /\ kind \in Changes
    /\ changes > 0
    /\ changes' = changes - 1
    /\ UNCHANGED <<informers, events, dirty, job, timer, deployed, missed, faults>>

UserWrites(lm) ==
    /\ Change("object")
    /\ \E o \in Objects \ {stored[lm]} : stored' = [stored EXCEPT ![lm] = o]
    /\ UNCHANGED source

SourceMoves(s) ==
    /\ Change("source")
    /\ \E r \in States \ {source[s]} : source' = [source EXCEPT ![s] = r]
    /\ UNCHANGED stored

Informers ==
    \/ \E lm \in LMs : SyncObject(lm) \/ HandleObject(lm)
    \/ \E s \in SourceKeys : SyncSource(s) \/ HandleSource(s)

Next ==
    \/ Informers
    \/ \E w \in Workers : (\E lm \in LMs : Take(w, lm)) \/ GetSource(w) \/ Reconcile(w)
    \/ \E lm \in LMs : TimerFires(lm) \/ UserWrites(lm)
    \/ \E s \in SourceKeys : SourceMoves(s)
    \/ Restart

Spec == Init /\ [][Next]_vars

\* Watches deliver, workers run, timers fire.  The queue is first in, first
\* out, so a key that keeps waiting for a free worker is taken at last.
Fairness ==
    /\ WF_vars(Informers)
    /\ \A w \in Workers : WF_vars(GetSource(w) \/ Reconcile(w))
    /\ \A lm \in LMs : SF_vars(\E w \in Workers : Take(w, lm))
    /\ \A lm \in LMs : WF_vars(TimerFires(lm))

FairSpec == Spec /\ Fairness

-----------------------------------------------------------------------------
(* Properties *)

\* Every variable stays within its type.
TypeOK ==
    /\ stored \in [LMs -> Objects] /\ cached \in [LMs -> Objects]
    /\ source \in [SourceKeys -> States] /\ seen \in [SourceKeys -> States]
    /\ objectEvents \subseteq LMs /\ sourceEvents \subseteq SourceKeys
    /\ dirty \subseteq LMs /\ missed \subseteq LMs
    /\ job \in [Workers -> Jobs]
    /\ timer \in [LMs -> {"none", "interval", "retry"}]
    /\ deployed \in [LMs -> Deployments]
    /\ faults \in Nat /\ changes \in Nat

\* The LanguageModel o has a source with an artifact that it may use.
Wants(lm, o, revisions) ==
    /\ o.managed /\ ~o.suspend
    /\ Watched(SourceOf(lm, o.ref))
    /\ Usable(lm, o.ref, revisions[SourceOf(lm, o.ref)])

\* Nothing is under way for lm: the copies are current, their events handled,
\* the key is neither queued nor worked on, no failed run waits for its retry,
\* and no event was dropped.  The delayed add of a successful run, which is
\* there for those, does not count.
Rests(lm) ==
    LET s == SourceOf(lm, stored[lm].ref)
    IN  /\ cached[lm] = stored[lm] /\ seen[s] = source[s]
        /\ lm \notin objectEvents /\ s \notin sourceEvents
        /\ lm \notin dirty /\ lm \notin Processing
        /\ timer[lm] # "retry" /\ lm \notin missed

\* No wake-up is lost: when nothing is under way for a LanguageModel, it is
\* deployed from the current revision of the source it refers to now, without
\* waiting for the interval.  Edits of the reference, revisions that move back
\* and forth, and suspensions may fall before, between and after any read.
NoLostRevision ==
    \A lm \in LMs :
        Wants(lm, stored[lm], source) /\ Rests(lm)
            => LET s == SourceOf(lm, stored[lm].ref)
               IN  deployed[lm] = From(s, source[s])

\* "Interval at which to check for new versions of the model, and update the
\* model deployment": even when events are dropped and runs fail, every
\* LanguageModel ends up on the current revision once the surroundings rest.
RevisionsArrive ==
    \A lm \in LMs :
        <>[](Wants(lm, stored[lm], source)
                => LET s == SourceOf(lm, stored[lm].ref)
                   IN  deployed[lm] = From(s, source[s]))
=============================================================================
