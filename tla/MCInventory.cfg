SPECIFICATION Spec
CONSTANTS
    Ids = {"deployment", "service", "pvc"}
    Versions = {"v1", "v1beta1"}
    MaxObjects = 3
    ChangeSets <- AllChangeSets
    MaxEdits = 2
INVARIANTS
    TypeOK
    RecordedStaysLive
    NothingUntracked
PROPERTIES
    DeletesOnlyStale
