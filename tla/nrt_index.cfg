\* Flushes, merges, failed builds and close() in every interleaving, over one
\* initial segment larger than everything added to it.
CONSTANTS
    i1 = i1  i2 = i2  i3 = i3  i4 = i4
    Ids = {i1}
    Readers = {}
    FlushThreshold = 2
    MergeFactor = 2
    MaxSegments = 2
    InitSegments <- BigBase
    InitLog <- BigBaseLog
    K = 0
    ReAdd = TRUE
    MaxDocs = 11
    MaxFailures = 1
    Score <- NoScores
SPECIFICATION FairSpec
INVARIANTS
    DocsConserved
    LiveOnDisk
    MergeSourcesLive
    OverBudgetIsMerging
    NoOrphanFiles
    InitSegmentsKept
PROPERTIES
    VisibleGrows
    Converges
    CloseReturns
CHECK_DEADLOCK FALSE
