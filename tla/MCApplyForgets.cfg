SPECIFICATION Spec
CONSTANTS
    Specs <- TwoEngines
    Revisions <- OneRevision
    BadRevisions <- NoRevisions
    NoCrossNamespaceRefs = FALSE
    Faults = {"apply"}
    MaxFaults = 1
    Changes = {"delete"}
    MaxChanges = 1
PROPERTIES
    NothingLeftBehind
CHECK_DEADLOCK FALSE
