SPECIFICATION FairSpec
CONSTANTS
    Spans = {s1}
    Snaps = {n1, n2}
    Callers = {c1, c2}
    Calls = {"flush", "trace", "shutdown"}
    SpoolOn = TRUE
    MaxAttempts = 2
    BlobCap = 1
    SnapCap = 1
    Setups <- BlobsOrCallers
INVARIANTS BlobAccounted NothingVanishes InOneBatch ShutdownFlushes
PROPERTY SpansDelivered
CHECK_DEADLOCK FALSE
