\* A dispatch that fails although a call for the shard may still answer.
CONSTANTS
    N = 2
    Dispatches = {d1, d2}
    Hits <- FourHits
    ShardOf <- MCShardOf
    Score <- MCScore
    K = 2
    MaxFailures = 1
SPECIFICATION Spec
INVARIANT
    AnswerWins
CHECK_DEADLOCK FALSE
