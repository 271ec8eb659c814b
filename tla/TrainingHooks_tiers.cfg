SPECIFICATION Spec
CONSTANTS
    Frameworks = {"torch", "transformers", "tensorflow"}
    Callbacks = {c1}
    Cuda = TRUE
    EpochSteps = 2
    ReapInterval = 2
    ReapBackstop = 2
    MaxDepth = 4
    MaxScopes = 6
    MaxFrames = 2
INVARIANTS UserExitClosesItsOwn
CHECK_DEADLOCK FALSE
