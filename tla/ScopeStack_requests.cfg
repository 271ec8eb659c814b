SPECIFICATION FairSpec
CONSTANTS
    t1 = t1
    t2 = t2
    k1 = k1
    k2 = k2
    None = None
    MaxDepth = 2
    Threads = {t1}
    Tids = {k1}
    TidOf <- OneTid
    Requests = {r1, r2}
    Spans = {s1, s2}
    Drainers = {d1}
    Closers = {}
    ClosedCap = 1
 
PROPERTY NothingStays
CHECK_DEADLOCK FALSE
