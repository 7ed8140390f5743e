------------------------------ MODULE TensorAPI ------------------------------
(***************************************************************************)
(* The Python entry points of imperative/python/src/tensor.cpp taken       *)
(* together: a caller makes one call, either __getitem__ / __setitem__     *)
(* (getitem_cpp / setitem_cpp, modelled by Subscript) or one of the shape  *)
(* ops (reshape_cpp ... transpose_cpp, modelled by ShapeOps).  The two     *)
(* components share no state; each keeps its own copy of the variables     *)
(* the two modules both name (call, pc, i, ops), and the entry that is not *)
(* called stays "idle".                                                    *)
(***************************************************************************)
EXTENDS Naturals

CONSTANTS
    MaxRank, DimSizes, MaxIndexLen, MaxMaskRank, SliceKinds,  \* IndexNormalizer
    ValueShapes, RegionShapes,                                \* Subscript
    ShapeCalls, GarbageNdims                                  \* ShapeOps

VARIABLES
    \* Subscript (with IndexNormalizer)
    scall, spc, inp, idx, needExpand, si, offset, tdim, items, tensors,
    useSubtensor, err, sops, mode, value, gathered, result,
    \* ShapeOps
    ocall, opc, oi, lis, shp, unspec, autoInfer, nTotal, pending, oops, ret

subVars == <<scall, spc, inp, idx, needExpand, si, offset, tdim, items, tensors,
             useSubtensor, err, sops, mode, value, gathered, result>>
opVars  == <<ocall, opc, oi, lis, shp, unspec, autoInfer, nTotal, pending, oops, ret>>

Sub == INSTANCE Subscript WITH call <- scall, pc <- spc, i <- si, ops <- sops
Shp == INSTANCE ShapeOps WITH Calls <- ShapeCalls,
                              call <- ocall, pc <- opc, i <- oi, ops <- oops

Idle == "idle"

SubIdle ==
    /\ scall = Idle /\ spc = Idle /\ inp = Idle /\ idx = Idle
    /\ needExpand = Idle /\ si = Idle /\ offset = Idle /\ tdim = Idle
    /\ items = Idle /\ tensors = Idle /\ useSubtensor = Idle /\ err = Idle
    /\ sops = Idle /\ mode = Idle /\ value = Idle /\ gathered = Idle
    /\ result = Idle

OpIdle ==
    /\ ocall = Idle /\ opc = Idle /\ oi = Idle /\ lis = Idle /\ shp = Idle
    /\ unspec = Idle /\ autoInfer = Idle /\ nTotal = Idle /\ pending = Idle
    /\ oops = Idle /\ ret = Idle

Init ==
    \/ Sub!SubscriptInit /\ OpIdle
    \/ Shp!Init /\ SubIdle

Next ==
    \/ spc # Idle /\ Sub!SubscriptNext /\ UNCHANGED opVars
    \/ opc # Idle /\ Shp!Next /\ UNCHANGED subVars

Spec == Init /\ [][Next]_<<subVars, opVars>>

-----------------------------------------------------------------------------
\* No entry point of the binding reads state it never set or passes a
\* NULL object on: _setitem_cpp hands the result of val._broadcast to the
\* set operator only if it is an object, _squeeze_cpp resolves a negative
\* axis only with the ndim it computed, and fast_ndim reads a transpose
\* input's shape only when it is known (spec.md 7: errors are raised at
\* the point of detection).
NoUndefinedBehaviour ==
    /\ spc # "undefined"
    /\ opc # Idle => Shp!ReadsOnlyInitializedState
=============================================================================
