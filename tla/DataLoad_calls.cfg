SPECIFICATION Spec
CONSTANTS
    Requests <- Calls
    Worlds <- Machines
    Threads = {a, b}
    Main = a
    Objects = {o1, o2, o3}
    Nested = {o2}
    Kept = {o1, o2}
    MaxPages = 2
    MaxBatches = 2
    MaxRuns = 2
    DefaultMax = 4
INVARIANTS ConnectionsHeld StreamWhole 
 
CHECK_DEADLOCK FALSE
