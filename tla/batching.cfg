\* One warm-up call and five arrivals on four threads, batches of two, a queue
\* of one place under the shed discipline.
CONSTANTS
    Warmups = 1
    Arrivals = 5
    MinWorkers = 3
    MaxBatchSize = 2
    MaxWait = 1
    MaxQueueDepth = 1
SPECIFICATION FairSpec
INVARIANTS
    NobodyForgotten
    OutcomesTrue
    PoolNeverBinds
PROPERTIES
    RunEnds
CHECK_DEADLOCK FALSE
