SPECIFICATION FairSpec
CONSTANTS
    None = None
    Supervisors = {g1, g2}
    Stoppers = {c1}
    MaxDeaths = 2
    Window = 1
    MaxBackoff = 2
    DeathBound = 2
INVARIANTS OneWorkerAtATime CurrentIsWatched DegradesRight
PROPERTIES RevivedWithBackoff WatcherEnds
CHECK_DEADLOCK FALSE
