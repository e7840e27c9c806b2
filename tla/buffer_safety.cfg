CONSTANTS
    Capacity = 3
    RingSize = 4
    WordSize = 8
    a = a
    b = b
    Elements <- MCElements
    Raw = Raw
    SpinLimit = 0
    KernelErrors = TRUE
SPECIFICATION Spec
INVARIANTS
    TypeOK
    SlotsConserved
    SlotsExclusive
    SizeApproxSound
    AsleepForCause
PROPERTY
    ImplementsFifo
