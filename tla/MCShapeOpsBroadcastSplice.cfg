CONSTANTS
    Calls <- MCCallsSplice
    GarbageNdims <- MCGarbageNdims
SPECIFICATION Spec
\* A call ends by returning or raising: nothing follows.
CHECK_DEADLOCK FALSE
INVARIANT
    BroadcastInfersFromInput
