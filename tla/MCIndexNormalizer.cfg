CONSTANTS
    MaxRank = 3
    DimSizes = {1, 2}
    MaxIndexLen = 3
    MaxMaskRank = 2
    SliceKinds <- MCSliceKinds
    Calls <- MCWellOrderedCalls
SPECIFICATION FairSpec
\* A call ends by returning its plan or raising: nothing follows.
CHECK_DEADLOCK FALSE
INVARIANTS
    TypeOK
PROPERTY
    ImplementsIndexPlan
