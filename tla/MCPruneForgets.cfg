SPECIFICATION Spec
CONSTANTS
    Specs <- TwoEngines
    Revisions <- OneRevision
    BadRevisions <- NoRevisions
    NoCrossNamespaceRefs = FALSE
    Faults = {"prune"}
    MaxFaults = 1
    Changes = {"edit"}
    MaxChanges = 1
INVARIANTS
    ReadyMeansCollected
CHECK_DEADLOCK FALSE
