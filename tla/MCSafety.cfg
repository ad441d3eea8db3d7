SPECIFICATION Spec
CONSTANTS
    Specs <- AllSpecs
    Revisions <- OneRevision
    BadRevisions <- NoRevisions
    NoCrossNamespaceRefs = FALSE
    Faults = {"get", "source", "patch", "impersonate", "client", "apply", "prune", "health", "crash", "stale"}
    MaxFaults = 1
    Changes = {"create", "edit", "delete", "source", "account", "drift", "prune", "reconcile", "ssa"}
    MaxChanges = 2
INVARIANTS
    TypeOK
    FinalizeSparesSuccessor
PROPERTIES
    AppliesUnderFinalizer
    ImplementsLifecycle
CHECK_DEADLOCK FALSE
