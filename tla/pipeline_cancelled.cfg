CONSTANTS
    p = p
    q = q
    r = r
    b = b
    c = c
    Elements = {p, b, q, r}
    Root = p
    Buffers = {b}
    Visitors <- MCVisitors
    Processors <- MCFork
    Capacity = 1
    MaxBlocks = 2
    ClientEnds = {"success", "cancelled", "error"}
    Failures = {"cancelled"}
SPECIFICATION FairSpec
PROPERTY
    EopReported
