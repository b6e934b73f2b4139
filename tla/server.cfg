\* Three callers, two workers, two places in the queue, two in the cache.
CONSTANTS
    Calls = {c1, c2, c3}
    Workers = {w1, w2}
    QueueDepth = 2
    CacheCapacity = 2
    Words = {"fox", "dog"}
    Requests <- FoxRequests
    NoCall = NoCall
SPECIFICATION FairSpec
INVARIANTS
    HeldOnce
    WorkConserving
    AnswerFaithful
    LruOrder
PROPERTIES
    AcceptedAnswered
    ShutdownJoins
CHECK_DEADLOCK FALSE
