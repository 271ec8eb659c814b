SPECIFICATION Spec
CONSTANTS
    t1 = t1
    t2 = t2
    k1 = k1
    k2 = k2
    None = None
    MaxDepth = 2
    Threads = {t1, t2}
    Tids = {k1, k2}
    TidOf <- OwnTids
    Requests = {}
    Spans = {s1, s2, s3}
    Drainers = {d1, d2}
    Closers = {}
    ClosedCap = 2
SYMMETRY Symmetry
INVARIANTS NoDoubleEmit  EveryLossCounted
PROPERTY ImplementsLedger
CHECK_DEADLOCK FALSE
