CONSTANTS
    Capacity = 1
    RingSize = 1
    WordSize = 2
    a = a
    b = b
    Elements = {a}
    Raw = Raw
    SpinLimit = 1
    KernelErrors = FALSE
SPECIFICATION FairSpec
PROPERTY
    ThreadsServed
