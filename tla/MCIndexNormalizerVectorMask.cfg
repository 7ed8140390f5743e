CONSTANTS
    MaxRank = 3
    DimSizes = {1, 2}
    MaxIndexLen = 3
    MaxMaskRank = 2
    SliceKinds <- MCSliceKinds
SPECIFICATION Spec
\* A call ends by returning its plan or raising: nothing follows.
CHECK_DEADLOCK FALSE
INVARIANTS
    NormalizesLikeReference
