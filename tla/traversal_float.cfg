\* Rounded sums.
CONSTANTS
    NumTerms = 4
    NumDocs = 3
    BlockSize = 2
    Lists <- NonEmptyLists
    Impact <- UnevenImpact
    Ks = {1}
    Sum <- RoundedSum
    Exact = FALSE
SPECIFICATION Spec
INVARIANT
    SameTopK
CHECK_DEADLOCK FALSE
