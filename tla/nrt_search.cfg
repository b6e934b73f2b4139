\* One search in flight across flushes, deletes, merges and close().
CONSTANTS
    i1 = i1  i2 = i2  i3 = i3  i4 = i4
    Ids = {i1, i2, i3, i4}
    Readers = {r1}
    FlushThreshold = 1
    MergeFactor = 2
    MaxSegments = 1
    InitSegments <- OneBase
    InitLog <- OneBaseLog
    K = 1
    ReAdd = FALSE
    MaxDocs = 4
    MaxFailures = 0
    Score <- MixedScores
SPECIFICATION Spec
SYMMETRY FreshIds
INVARIANTS
    NoDeletedHits
    SearchComplete
PROPERTY ImplementsStore
CHECK_DEADLOCK FALSE
