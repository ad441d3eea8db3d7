SPECIFICATION Spec
CONSTANTS
    Wanted = 5
    BackoffLimit = 6
INVARIANTS
    CurrentMeansCompleted
PROPERTIES
    VerdictIsFinal
    VerdictArrives
