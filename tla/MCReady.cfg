SPECIFICATION Spec
CONSTANTS
    Specs <- CacheSpecs
    Revisions <- TwoRevisions
    BadRevisions <- SecondRevision
    NoCrossNamespaceRefs = TRUE
    Faults = {"get", "source", "patch", "client", "apply", "prune", "health", "crash"}
    MaxFaults = 1
    Changes = {"edit", "delete", "request", "source", "reconcile", "ssa"}
    MaxChanges = 2
INVARIANTS
    ReadyMeansDeployed
CHECK_DEADLOCK FALSE
