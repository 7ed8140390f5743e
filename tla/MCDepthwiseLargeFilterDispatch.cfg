CONSTANTS
    DTypes <- MCDTypes
    FloatDTypes <- MCFloatDTypes
    Float32 = "f32"
    Float16 = "f16"
    CudaVersion = 11000
    FilterSizes = {3, 31}
    OutWidths = {8, 100}
    DeviceProps <- MCDeviceProps
SPECIFICATION Spec
\* One selection and execution: it ends done, rejected or aborted.
CHECK_DEADLOCK FALSE
INVARIANT
    AvailableExecDispatches
