CONSTANTS
    MaxRank = 3
    DimSizes = {1, 2}
    MaxIndexLen = 2
    MaxMaskRank = 2
    SliceKinds <- MCSliceKinds
    ValueShapes <- MCValueShapes
    RegionShapes <- MCRegionShapes
    ShapeCalls <- MCShapeCalls
    GarbageNdims <- MCGarbageNdims
SPECIFICATION Spec
\* A call ends by returning or raising: nothing follows.
CHECK_DEADLOCK FALSE
INVARIANT
    NoUndefinedBehaviour
