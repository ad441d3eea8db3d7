--------------------------- MODULE MCReconciler ---------------------------
(* Small instances of LanguageModelReconciler for TLC. *)
EXTENDS ReconcilerLifecycle

Kube == [dep |-> "KubernetesDeployment", cache |-> "None", prune |-> TRUE,
         suspend |-> FALSE, crossNS |-> FALSE, interval |-> 2, retryInterval |-> 1]
KubePV == [Kube EXCEPT !.cache = "PV"]
Knative == [Kube EXCEPT !.dep = "KnativeService", !.retryInterval = 0]
Suspended == [Knative EXCEPT !.suspend = TRUE]
Unpruned == [Kube EXCEPT !.prune = FALSE]
CrossNamespace == [Kube EXCEPT !.crossNS = TRUE]
NoInterval == [Kube EXCEPT !.interval = 0, !.retryInterval = 0]

AllSpecs == {Kube, Knative, Suspended, Unpruned}
CacheSpecs == {Kube, KubePV, Knative, CrossNamespace}
TwoEngines == {Kube, Knative}
LiveSpecs == {Kube, Suspended}
EngineOrSuspended == {Kube, Suspended}
ZeroInterval == {NoInterval}

OneRevision == {1}
TwoRevisions == {1, 2}
NoRevisions == {}
SecondRevision == {2}
=============================================================================
