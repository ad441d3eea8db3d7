SPECIFICATION Spec
CONSTANTS
    Cpus <- SomeCpus
    Blocks <- SomeBlocks
    Quantities <- SomeQuantities
    Durations <- ShortInterval
INVARIANTS
    TypeOK
    RequestsCover
    StaysAdmissible
    ThreadsLeaveCpu
