\* Two dispatches at once over two shards; plain and hedged.
CONSTANTS
    N = 2
    Dispatches = {d1, d2}
    Hits <- FourHits
    ShardOf <- MCShardOf
    Score <- MCScore
    K = 2
    MaxFailures = 1
SPECIFICATION FairSpec
INVARIANTS
    AnswerExact
    ClientsOutliveCalls
    CountersExact
PROPERTIES
    CallsReturn
CHECK_DEADLOCK FALSE
