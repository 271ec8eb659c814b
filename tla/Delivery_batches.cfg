SPECIFICATION Spec
CONSTANTS
    Spans = {1, 2}
    Fallback = 0
    RingCap = 2
    MaxSpans = 1
    MaxMarks = 1
    MarkLimit = 3
    Batches = {1, 2}
    MaxRetries = 2
    BackoffCap = 2
    RetryAfterCap = 2
    RetryAfters <- RetryAfterValues
INVARIANTS   RetriesSafe
PROPERTY WorkerNotHeld
CHECK_DEADLOCK FALSE
