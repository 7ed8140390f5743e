CONSTANTS
    MaxRank = 3
    DimSizes = {1, 2}
    MaxIndexLen = 2
    MaxMaskRank = 2
    SliceKinds <- MCSliceKinds
    ValueShapes <- MCValueShapes
    RegionShapes <- MCRegionShapes
SPECIFICATION SubscriptSpec
\* A call ends by returning or raising: nothing follows.
CHECK_DEADLOCK FALSE
INVARIANTS
    SubscriptTypeOK
