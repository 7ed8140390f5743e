CONSTANTS
    Calls <- MCCalls310
    GarbageNdims <- MCGarbageNdims
SPECIFICATION Spec
\* A call ends by returning or raising: nothing follows.
CHECK_DEADLOCK FALSE
INVARIANTS
    MaterializesLikeReference
    BroadcastInfersFromInput
    
    ExpandDimsLikeReference
    SqueezeLikeReference
