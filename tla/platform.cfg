CONSTANTS
    Platforms = {"posix", "mach", "windows", "freertos"}
    NsecsPerUsec = 2
    UsecsPerMsec = 2
    MsecsPerSec = 1
    MsecsPerTick = 2
    TimeoutWord = 16
    MaxToken = 2
    Requests = {1, 4}
    LastCall = 2
    MaxTime = 12
    ClockSets = 1
    Objects = {a, b}
    Values = {v1, v2}
    Capacities = {0, 2, 5}
    WordBits = 10
    WordBytes = 2
    ElementSize = 4
    Alignment = 4
    Arenas = {64, 130}
    MallocFails = FALSE
    MaxIndex = 4
    Threads = {t, u}
    NullLogger = null
    SpdLoggers = {l}
    Calls = 2
    Signals = 1
SPECIFICATION MCSpec
INVARIANTS
    TypesOK
    NotEarly
    RingsOwnMemory
    LoggerKept
PROPERTIES
    ImplementsPromises
    CallsAnswer
CHECK_DEADLOCK FALSE
