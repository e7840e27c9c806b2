CONSTANTS
    InitialCount = 0
    SignalCounts <- MCSignalCountsFromZero
    SpinLimit = 1
    MaxCount = 2
    KernelErrors = FALSE
SPECIFICATION Spec
INVARIANT
    SignalAssertion
