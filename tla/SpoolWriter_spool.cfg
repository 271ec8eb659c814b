SPECIFICATION Spec
CONSTANTS
    None = None
    Ranks = {w1, w2}
    Batches = {1, 2, 3, 4, 5}
    Size <- TwoThenOnes
    MaxBytes = 2
    RescanEvery = 2
    Setups <- AloneOrTwo
    Kills = 1
SYMMETRY RankSymmetry
INVARIANTS CapKept EvictionsCountedOnce LiveTmpKept
PROPERTY PassesJustified
CHECK_DEADLOCK FALSE
