SPECIFICATION FairSpec
CONSTANTS
    Specs <- LiveSpecs
    Revisions <- OneRevision
    BadRevisions <- NoRevisions
    NoCrossNamespaceRefs = FALSE
    Faults = {"get", "source", "patch", "apply", "prune", "crash", "stale"}
    MaxFaults = 1
    Changes = {"edit", "delete", "request", "source"}
    MaxChanges = 2
PROPERTIES
    Converges
    DeletionCompletes
    RequestsAreHandled
    FailuresAreRetried
CHECK_DEADLOCK FALSE
