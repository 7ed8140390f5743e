------------------------- MODULE DepthwiseLargeFilter -------------------------
(***************************************************************************)
(* ConvBiasForwardImpl::AlgoDepthwiseLargeFilter of                        *)
(* dnn/src/cuda/conv_bias/depthwise_large_filter.cpp: the algorithm        *)
(* selector asks is_available, then get_workspace_in_bytes, and the        *)
(* operator runs exec with a workspace of that size.  The kernel           *)
(* (run_fwd_depthwise_large_filter), the bias/nonlinearity pass and dtype  *)
(* deduction are external; the kernel is abstracted to the element type   *)
(* it reads src, filter and dst as.                                        *)
(***************************************************************************)
EXTENDS Integers

CONSTANTS
    DTypes,         \* dtypes a layout may have
    FloatDTypes,    \* those of DTypeCategory::FLOAT
    Float32, Float16,
    CudaVersion,    \* CUDA_VERSION the file is compiled with
    FilterSizes,    \* filter heights and widths
    OutWidths,      \* output widths
    DeviceProps     \* [regs, smem]: regsPerBlock and sharedMemPerBlock

ASSUME FloatDTypes \subseteq DTypes /\ {Float32, Float16} \subseteq FloatDTypes

VARIABLES
    args,       \* the layouts, filter meta and conv param of one call
    pc,         \* "query", "workspace", "exec", "bias", "done", "rejected", "abort"
    workspace,  \* bytes get_workspace_in_bytes returned: "zero" or "dst"
    convDst,    \* where exec writes the convolution: "dst" or "workspace"
    kernelType  \* the element type the kernel was instantiated with

vars == <<args, pc, workspace, convDst, kernelType>>

None == "none"

\* Everything that is_available tests is a field (the current device's
\* properties included); the filter-meta tests
\* other than dtype (group > 1, NCHW, DEFAULT compute mode, 2 spatial dims,
\* icpg 1, no dilation, no flip) are one Boolean, `meta`.
Args ==
    [src : DTypes, filter : DTypes, bias : DTypes, dst : DTypes,
     contiguous : BOOLEAN, zndim : {0, 1}, meta : BOOLEAN,
     flt_h : FilterSizes, flt_w : FilterSizes, out_w : OutWidths,
     same_size : BOOLEAN, stride : {1, 2}, device : DeviceProps]

-----------------------------------------------------------------------------
\* is_available_depthwise_large_filter: the register and shared-memory
\* estimate of the kernel's tile, then stride 1 and an output of the
\* input's size.
LargeFilterFits(p) ==
    LET flt_smem_w == ((p.flt_w + 3) \div 4) * 4
        flt_smem_h == 3
        flt_reg    == IF flt_smem_w > 32 THEN (flt_smem_w + 31) \div 32
                      ELSE 1 + flt_smem_w \div 4
        ow         == IF p.out_w > 64 THEN 64 ELSE p.out_w
        src_smem_w == ow + flt_smem_w - 1
        src_smem_h == flt_smem_h + p.flt_h - 1
        src_reg    == IF src_smem_w > 128 THEN (flt_smem_w + 127) \div 128
                      ELSE 1 + (ow + 3) \div 4 + flt_smem_w \div 4 - 1
        out_reg    == ((ow + 3) \div 4) * 4
    IN  /\ p.device.regs >= 4 * 32 * (flt_reg + src_reg + out_reg)
        /\ p.device.smem >= flt_smem_w * flt_smem_h + src_smem_w * src_smem_h
        /\ p.stride = 1 /\ p.same_size

\* The dtype test of is_available as written: src differs from filter and
\* (src is not Float32 or, from CUDA 9, src is not Float16).
MixedDTypeRejected(a) ==
    a.src # a.filter
        /\ (a.src # Float32 \/ (CudaVersion >= 9000 /\ a.src # Float16))

IsAvailable(a) ==
    /\ a.contiguous
    /\ ~MixedDTypeRejected(a)
    /\ a.zndim = 0
    /\ a.meta /\ a.src \in FloatDTypes
    /\ LargeFilterFits(a)

\* get_workspace_in_bytes asks for a dst-sized workspace, and exec stages
\* the convolution in it, when dst and bias dtypes differ.
WorkspaceNeeded(a) == a.dst # a.bias
StagesInWorkspace(a) == a.dst # a.bias

-----------------------------------------------------------------------------
Query ==
    /\ pc = "query"
    /\ pc' = IF IsAvailable(args) THEN "workspace" ELSE "rejected"
    /\ UNCHANGED <<args, workspace, convDst, kernelType>>

GetWorkspace ==
    /\ pc = "workspace"
    /\ workspace' = IF WorkspaceNeeded(args) THEN "dst" ELSE "zero"
    /\ pc' = "exec"
    /\ UNCHANGED <<args, convDst, kernelType>>

\* The switch over the src dtype; any other dtype is
\* megdnn_assert_internal(0).
Exec ==
    /\ pc = "exec"
    /\ convDst' = IF StagesInWorkspace(args) THEN "workspace" ELSE "dst"
    /\ \/ /\ args.src = Float32 \/ (CudaVersion >= 9000 /\ args.src = Float16)
          /\ kernelType' = args.src
          /\ pc' = "bias"
       \/ /\ ~(args.src = Float32 \/ (CudaVersion >= 9000 /\ args.src = Float16))
          /\ pc' = "abort"
          /\ UNCHANGED kernelType
    /\ UNCHANGED <<args, workspace>>

\* handle_bias_and_nonlinear writes the result into dst.
BiasAndNonlinear ==
    /\ pc = "bias"
    /\ pc' = "done"
    /\ UNCHANGED <<args, workspace, convDst, kernelType>>

Init ==
    /\ args \in Args
    /\ pc = "query"
    /\ workspace = "zero" /\ convDst = None /\ kernelType = None

Next == Query \/ GetWorkspace \/ Exec \/ BiasAndNonlinear

Spec == Init /\ [][Next]_vars

-----------------------------------------------------------------------------
(* Properties.                                                             *)

AvailableExecDispatches == pc # "abort"
=============================================================================
