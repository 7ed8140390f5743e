------------------------ MODULE MCDepthwiseLargeFilter ------------------------
(* Float32, Float16 and BFloat16 (all of category FLOAT) and Int8; a small *)
(* and a large filter and output width; a device with 64K registers and   *)
(* 48KB of shared memory per block and one too small for the large tile.   *)
EXTENDS DepthwiseLargeFilter

MCDTypes      == {"f32", "f16", "bf16", "i8"}
MCFloatDTypes == {"f32", "f16", "bf16"}
MCDeviceProps == {[regs |-> 65536, smem |-> 49152], [regs |-> 8192, smem |-> 1024]}
=============================================================================
