SPECIFICATION FairSpec
CONSTANTS
    Specs <- ZeroInterval
    Revisions <- OneRevision
    BadRevisions <- NoRevisions
    NoCrossNamespaceRefs = FALSE
    Faults = {"apply"}
    MaxFaults = 1
    Changes = {}
    MaxChanges = 0
PROPERTIES
    FailuresAreRetried
CHECK_DEADLOCK FALSE
