CONSTANTS
    p = p
    q = q
    r = r
    b = b
    c = c
    Elements = {b, p, c, q}
    Root = b
    Buffers = {b, c}
    Visitors <- MCVisitors
    Processors <- MCSeries
    Capacity = 1
    MaxBlocks = 5
    ClientEnds = {"success", "cancelled", "error"}
    Failures = {"error"}
SPECIFICATION Spec
INVARIANTS
    TypeOK
    EndsOnce
    SuccessIsTrue
    InFlightBounded
    NeverStuck
PROPERTY
    ImplementsContract
