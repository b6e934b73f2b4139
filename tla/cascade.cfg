SPECIFICATION Spec
CONSTANTS
    Docs = {1, 2, 3, 4}
    Levels = {1, 2}
    Grades = {0, 1, 2}
    Depth = 3
    PoolDepth = 2
    NumNegatives = 1
    TopK = 2
    Cut = 2
    RrfUnit = 238266
    ScoreUnit = 1
INVARIANTS
    TrainingPoolWhole
    ConsistencyBoundsLoss
    Fp32DeltaZero
    FusionUnanimous
