CONSTANTS
    NumBlocks = 3
    Capacity = 1
    WithAccumulator = FALSE
    MayStop = FALSE
SPECIFICATION Spec
INVARIANT
    InterruptFindsSource
