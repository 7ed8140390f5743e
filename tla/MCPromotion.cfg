CONSTANTS
    DTypes <- MCDTypes
    KindOf <- MCKindOf
    PromoteTypes <- MCPromoteTypes
    Devices <- MCDevices
    DefaultDevice = "xpu0"
    Operands <- MCOperands
    MaxArgs = 3
SPECIFICATION PromotionSpec
\* A call ends by returning: nothing follows.
CHECK_DEADLOCK FALSE
INVARIANTS
    PromotionTypeOK
    PromotesLikeReference
    ResolvesDeviceLikeReference
    ConvertsToPromotedDtype
