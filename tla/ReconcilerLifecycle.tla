------------------------ MODULE ReconcilerLifecycle ------------------------
(***************************************************************************)
(* LanguageModelReconciler implements Lifecycle: the phase is read off the *)
(* stored object, the workload off the owner labels in the cluster; the    *)
(* cache, the queue and the worker's state are invisible.                  *)
(***************************************************************************)
EXTENDS LanguageModelReconciler

Phase ==
    CASE ~api.exists -> "absent"
      [] api.exists /\ api.deleting -> "finalizing"
      [] api.exists /\ ~api.deleting /\ api.fin -> "adopted"
      [] OTHER -> "new"

OwnedKinds == {k \in Kinds : Owned(k)}

\* finalize leaves objects on purpose (pruning off, suspended, the service
\* account gone or unreadable), and loses track of them after a failure between
\* the writes of one run.
MayForget ==
    \/ \E s \in Specs : ~s.prune \/ s.suspend
    \/ "account" \in Changes
    \/ Faults \cap {"patch", "impersonate", "apply", "prune", "crash"} # {}

L == INSTANCE Lifecycle WITH
        Workload <- Kinds, Forgetful <- MayForget, phase <- Phase, owned <- OwnedKinds

\* "Add finalizer first if it doesn't exist to avoid the race condition
\* between init and delete", "Prune managed resources if the object is under
\* deletion": with everything that runs, lags and fails in between, the stored
\* object and the cluster only ever take the steps of the lifecycle.
ImplementsLifecycle == L!Spec
=============================================================================
