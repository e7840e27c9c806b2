CONSTANTS
    InitialCount = 1
    SignalCounts <- MCSignalCounts
    SpinLimit = 2
    MaxCount = 3
    KernelErrors = TRUE
SPECIFICATION FairSpec
INVARIANTS
    TypeOK
    ExactlyOneToken
PROPERTIES
    ImplementsCounting
    WaitsEnd
