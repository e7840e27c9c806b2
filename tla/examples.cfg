CONSTANTS
    NumBlocks = 3
    Capacity = 1
    WithAccumulator = TRUE
    MayStop = TRUE
SPECIFICATION MCSpec
INVARIANTS
    TypesOK
    NothingUsedAfterDestroy
    OutcomeIsTrue
    InterruptTakesEffect
    AllDestroyed
PROPERTY
    ProgramsEnd
