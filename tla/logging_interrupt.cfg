CONSTANTS
    Threads = {t, u}
    NullLogger = null
    SpdLoggers = {l}
    Calls = 2
    Signals = 1
SPECIFICATION FairSpec
PROPERTY
    InterruptStops
CHECK_DEADLOCK FALSE
