SPECIFICATION FairSpec
CONSTANTS
    LMs = {"a"}
    NamespaceOf <- OneNamespace
    Refs <- TwoRefs
    SourceKeys <- KeysOfTwoRefs
    WatchedNamespaces <- AllNamespaces
    NoCrossNamespaceRefs = FALSE
    Workers = {w1, w2}
    Revisions = {1, 2}
    Faults = {"list", "source", "run", "crash"}
    MaxFaults = 2
    Changes = {"object", "source"}
    MaxChanges = 2
INVARIANTS
    TypeOK
    NoLostRevision
PROPERTIES
    RevisionsArrive
CHECK_DEADLOCK FALSE
