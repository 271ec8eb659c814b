SPECIFICATION Spec
CONSTANTS
    Frameworks = {"torch", "transformers", "tensorflow"}
    Callbacks = {c1}
    Cuda = TRUE
    EpochSteps = 2
    ReapInterval = 2
    ReapBackstop = 2
    MaxDepth = 4
    MaxScopes = 5
    MaxFrames = 3
INVARIANTS EmittedOrHeld TorchScopesTracked EpochsWhole ClaimsOfRuns UninstallDrains
CHECK_DEADLOCK FALSE
