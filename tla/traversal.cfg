\* Every query of three terms over five documents, with blocks of two.
CONSTANTS
    NumTerms = 3
    NumDocs = 5
    BlockSize = 2
    Lists <- MCLists
    Impact <- MCImpact
    Ks = {1, 2}
    Sum <- ExactSum
    Exact = TRUE
SPECIFICATION Spec
INVARIANTS
    NothingLost
    SameTopK
PROPERTIES
    IterationsAdvance
CHECK_DEADLOCK FALSE
