SPECIFICATION Spec
CONSTANTS
    Requests = {r1, r2}
    Tasks = {t1, t2}
    Scoped = {r1}
    MaxItems = 2
    None = None
INVARIANTS ContextRestored  MarksRight
PROPERTY StartedStreamCloses
CHECK_DEADLOCK FALSE
