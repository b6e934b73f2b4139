\* An external id added more than once and then deleted.
CONSTANTS
    i1 = i1  i2 = i2  i3 = i3  i4 = i4
    Ids = {i1, i2}
    Readers = {r1}
    FlushThreshold = 3
    MergeFactor = 2
    MaxSegments = 1
    InitSegments <- OneBase
    InitLog <- OneBaseLog
    K = 1
    ReAdd = TRUE
    MaxDocs = 4
    MaxFailures = 0
    Score <- FallingScores
SPECIFICATION Spec
INVARIANT SearchComplete
CHECK_DEADLOCK FALSE
