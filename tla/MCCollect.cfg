SPECIFICATION Spec
CONSTANTS
    Specs <- TwoEngines
    Revisions <- TwoRevisions
    BadRevisions <- NoRevisions
    NoCrossNamespaceRefs = FALSE
    Faults = {"get", "source", "client", "health", "stale"}
    MaxFaults = 1
    Changes = {"create", "edit", "delete", "source", "drift"}
    MaxChanges = 3
INVARIANTS
    InventoryComplete
    ReadyMeansCollected
    ReadyMeansCurrent
PROPERTIES
    NothingLeftBehind
    ImplementsLifecycle
CHECK_DEADLOCK FALSE
