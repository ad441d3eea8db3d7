SPECIFICATION Spec
CONSTANTS
    Specs <- EngineOrSuspended
    Revisions <- OneRevision
    BadRevisions <- NoRevisions
    NoCrossNamespaceRefs = FALSE
    Faults = {}
    MaxFaults = 0
    Changes = {"edit"}
    MaxChanges = 1
INVARIANTS
    ObservedMeansReconciled
CHECK_DEADLOCK FALSE
