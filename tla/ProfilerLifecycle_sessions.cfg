SPECIFICATION FairSpec
CONSTANTS
    None = None
    Sessions = {p1, p2, p3}
    Threads = {main, t1}
    Main = main
    Shutters = {main}
    StartFails = TRUE
    Dispositions = {"ignore", "interrupt", "die"}
    Signals = 1
  
PROPERTY ShutdownEnds
CHECK_DEADLOCK FALSE
