------------------------------ MODULE Promotion ------------------------------
(***************************************************************************)
(* Operand promotion of imperative/python/src/tensor.cpp: dtype_promotion  *)
(* with _dtype_promotion, max_priority, promote_types and scalar2dtype;    *)
(* get_device with _get_device; and convert_inputs_cpp, which calls both   *)
(* and then _convert_inputs_cpp, _convert_single_value_cpp and             *)
(* _astype_cpp.  One call is modelled, each loop iteration a step.         *)
(*                                                                         *)
(* Besides the values computed, the model keeps what the C-API contract    *)
(* of these functions is about: `held`, the number of references the call *)
(* owns besides its result, and `pyerr`, the pending Python exception.     *)
(* The numpy promotion rule (PyArray_PromoteTypes) and the dtype kinds     *)
(* are constants; TypeCvt, Const and ImmutableTensor are external.         *)
(***************************************************************************)
EXTENDS Integers, Sequences, FiniteSets, SequencesExt

CONSTANTS
    DTypes,          \* the dtypes operands may have
    KindOf,          \* DTypes -> numpy dtype kind: "b", "i", "u", "f", "c"
    PromoteTypes(_, _),  \* PyArray_PromoteTypes, a commutative rule
    Devices,         \* comp nodes
    DefaultDevice,   \* get_default_device()
    Operands,        \* the objects a call may be given
    MaxArgs          \* largest number of arguments

ASSUME DefaultDevice \in Devices /\ MaxArgs \in Nat

VARIABLES
    call,     \* [fn, args, packed, devarg]
    caller,   \* "user", or "convert" while convert_inputs_cpp calls a wrapper
    pc,
    elems,    \* the operands being scanned (a single list/tuple unpacked)
    i,        \* loop position (1-based)
    tensors,  \* descriptors of tensor-like operands (_dtype_promotion)
    scalars,  \* descriptors of Python scalars
    valid, cn,  \* _get_device's state
    res,      \* what the last wrapper returned: a dtype, a device or "null"
    held,     \* references owned by the call, other than its result
    pyerr,    \* the pending Python exception, or "none"
    dtype, device,  \* convert_inputs_cpp's promoted dtype and device objects
    lis,      \* _convert_inputs_cpp's list of converted values
    graph,    \* a SymbolVar operand was seen
    ret       \* what the outermost wrapper returned: "obj" or "null"

vars == <<call, caller, pc, elems, i, tensors, scalars, valid, cn, res, held,
          pyerr, dtype, device, lis, graph, ret>>

Null == "null"

-----------------------------------------------------------------------------
(* category_priority and max_priority.                                      *)

CategoryPriority(d) ==
    CASE KindOf[d] = "f"          -> 3
      [] KindOf[d] \in {"i", "u"} -> 2
      [] KindOf[d] = "b"          -> 1
      [] OTHER                    -> 0

MaxPriority(ds) ==
    FoldSeq(LAMBDA d, m : IF CategoryPriority(d) > m THEN CategoryPriority(d) ELSE m, 0, ds)

\* promote_types: the members of category cat folded with the numpy rule,
\* PyArray_PromoteTypes(used_types[i], res).
PromoteInCategory(ds, cat) ==
    LET used == SelectSeq(ds, LAMBDA d : CategoryPriority(d) = cat)
    IN  FoldLeft(LAMBDA r, d : PromoteTypes(d, r), Head(used), Tail(used))

\* The operands whose descriptor _dtype_promotion puts with the tensors:
\* TensorWrapper, numpy arrays and scalars, SymbolVar.  scalar2dtype
\* classifies bool, exact int and exact float Python scalars.
IsTensorLikeWithOther(o) == o.cls \in {"tensor", "symvar", "ndarray", "other"}
IsTensorLike(o) == o.cls \in {"tensor", "symvar", "ndarray"}
HasDevice(o)    == o.cls \in {"tensor", "symvar"}

-----------------------------------------------------------------------------
(* The reference of spec.md 4.6, written from the text.                     *)

\* d can represent every value of e.
Holds(d, e) == PromoteTypes(d, e) = d

RefDtype(ops) ==
    LET ts  == {ops[k].dtype : k \in {k \in DOMAIN ops : IsTensorLike(ops[k])}}
        ss  == {ops[k].dtype : k \in {k \in DOMAIN ops : ops[k].cls = "pyscalar"}}
        top(S) == IF S = {} THEN 0
                  ELSE CHOOSE c \in {CategoryPriority(d) : d \in S} :
                         \A d \in S : CategoryPriority(d) <= c
        grp == IF top(ss) > top(ts) THEN ss ELSE ts
        cat == top(grp)
        mem == {d \in grp : CategoryPriority(d) = cat}
        ub  == {u \in DTypes : CategoryPriority(u) = cat /\ \A d \in mem : Holds(u, d)}
    IN  IF cat = 0 THEN Null
        ELSE CHOOSE u \in ub : \A v \in ub : Holds(v, u)

RefDevice(ops) ==
    LET ds == SelectSeq(ops, HasDevice)
    IN  CASE ds = <<>>                           -> DefaultDevice
          [] \A k \in DOMAIN ds : ds[k].dev = ds[1].dev -> ds[1].dev
          [] OTHER                               -> "ambiguous"

-----------------------------------------------------------------------------
(* The calls.                                                               *)

ArgSeqs == UNION {[1..n -> Operands] : n \in 0..MaxArgs}

\* A single list or tuple argument is unpacked by both promotion functions;
\* convert_inputs_cpp is given its operands and the device (or None) last.
Calls ==
    {c \in [fn : {"dtype", "device"}, args : ArgSeqs, packed : {"no", "list", "tuple"},
            devarg : {Null}] : c.packed # "no" => Len(c.args) > 0}
    \cup
    [fn : {"convert"}, args : ArgSeqs, packed : {"no"}, devarg : Devices \cup {"None"}]

\* The number of Python arguments the wrapper of fn receives.
WrapperNargs(c) == IF c.packed = "no" THEN Len(c.args) ELSE 1

\* The reference to the unpacked tuple (new from PyList_AsTuple, or
\* Py_INCREF of the given tuple).
TupleRef == IF call.packed # "no" THEN 1 ELSE 0

-----------------------------------------------------------------------------
(* dtype_promotion and _dtype_promotion.                                     *)

\* Return from a wrapper: to the user, or back into convert_inputs_cpp.
Return(r, e) ==
    /\ res' = r
    /\ pyerr' = e
    /\ \/ /\ caller = "user"
          /\ pc' = "returned"
          /\ ret' = IF r = Null THEN "null" ELSE "obj"
       \/ /\ caller = "convert"
          /\ pc' = IF pc \in {"dp_enter", "dp_scan"} THEN "ci_device" ELSE "ci_got_device"
          /\ UNCHANGED ret

\* Both functions copy a list into a new tuple, or take a reference to a
\* tuple, when they are given exactly one of them.
Unpack(next) ==
    /\ elems' = call.args
    /\ held' = held + TupleRef
    /\ i' = 1
    /\ pc' = next

DtypePromotionEnter ==
    /\ pc = "dp_enter"
    /\ \/ /\ WrapperNargs(call) = 0
          /\ Return(Null, "TypeError")
          /\ UNCHANGED <<elems, i, held>>
       \/ /\ ~(WrapperNargs(call) = 0)
          /\ Unpack("dp_scan")
          /\ UNCHANGED <<res, pyerr, ret>>
    /\ UNCHANGED <<call, caller, tensors, scalars, valid, cn, dtype, device, lis, graph>>

\* One operand: None and unclassified objects are skipped; every other one
\* contributes a new reference to its descriptor.
DtypeScan ==
    /\ pc = "dp_scan" /\ i <= Len(elems)
    /\ LET o == elems[i] IN
       /\ tensors' = IF IsTensorLike(o) THEN Append(tensors, o.dtype) ELSE tensors
       /\ scalars' = IF o.cls = "pyscalar" THEN Append(scalars, o.dtype) ELSE scalars
       /\ held' = held + (IF IsTensorLike(o) \/ o.cls = "pyscalar" THEN 1 ELSE 0)
    /\ i' = i + 1
    /\ UNCHANGED <<call, caller, pc, elems, valid, cn, res, pyerr, dtype, device,
                   lis, graph, ret>>

\* The tuple reference is released after the descriptors.
ReleaseAfterPromotion ==
    held - Len(tensors) - Len(scalars)
         - TupleRef

SelectScalarsOnTie(ps, pt) == ps >= pt
SelectScalars(ps, pt) == ps > pt

\* promote_types returns res as a new reference; dtype_promotion only
\* reads it (dtype_np2mgb_descr) to build the DType it returns, and never
\* releases it.
ResultRefKept == 1

\* No dtype: the exception leaves every reference taken so far behind.
\* Otherwise the winning group is promoted and all references released
\* but the one to res.
DtypeSelect ==
    /\ pc = "dp_scan" /\ i > Len(elems)
    /\ LET ps == MaxPriority(scalars)
           pt == MaxPriority(tensors)
       IN  \/ /\ ps <= 0 /\ pt <= 0
              /\ Return(Null, "ValueError")
              /\ UNCHANGED held
           \/ /\ ~(ps <= 0 /\ pt <= 0)
              /\ Return(IF SelectScalars(ps, pt) THEN PromoteInCategory(scalars, ps)
                                                ELSE PromoteInCategory(tensors, pt),
                        pyerr)
              /\ held' = ReleaseAfterPromotion + ResultRefKept
    /\ UNCHANGED <<call, caller, elems, i, tensors, scalars, valid, cn, dtype,
                   device, lis, graph>>

-----------------------------------------------------------------------------
(* get_device and _get_device.                                               *)

GetDeviceEnter ==
    /\ pc = "dv_enter"
    /\ \/ /\ WrapperNargs(call) = 0
          /\ Return(Null, "TypeError")
          /\ UNCHANGED <<elems, i, held>>
       \/ /\ ~(WrapperNargs(call) = 0)
          /\ Unpack("dv_scan")
          /\ UNCHANGED <<res, pyerr, ret>>
    /\ UNCHANGED <<call, caller, tensors, scalars, valid, cn, dtype, device, lis, graph>>

\* The first tensor or SymbolVar fixes the device; a later one on another
\* device raises, leaving the tuple reference behind.
GetDeviceScanKeepingLast ==
    /\ pc = "dv_scan" /\ i <= Len(elems)
    /\ valid' = (valid \/ HasDevice(elems[i]))
    /\ cn' = IF HasDevice(elems[i]) THEN elems[i].dev ELSE cn
    /\ i' = i + 1
    /\ UNCHANGED <<call, caller, pc, elems, tensors, scalars, res, held, pyerr,
                   dtype, device, lis, graph, ret>>
GetDeviceScan ==
    /\ pc = "dv_scan" /\ i <= Len(elems)
    /\ LET o == elems[i] IN
       \/ /\ ~HasDevice(o)
          /\ i' = i + 1
          /\ UNCHANGED <<pc, valid, cn, res, pyerr, ret>>
       \/ /\ HasDevice(o) /\ ~valid
          /\ valid' = TRUE /\ cn' = o.dev
          /\ i' = i + 1
          /\ UNCHANGED <<pc, res, pyerr, ret>>
       \/ /\ HasDevice(o) /\ valid /\ o.dev = cn
          /\ i' = i + 1
          /\ UNCHANGED <<pc, valid, cn, res, pyerr, ret>>
       \/ /\ HasDevice(o) /\ valid /\ o.dev # cn
          /\ Return(Null, "AmbiguousDevice")
          /\ UNCHANGED <<valid, cn, i>>
    /\ UNCHANGED <<call, caller, elems, tensors, scalars, held, dtype, device, lis, graph>>

\* Without a tensor operand the default device is returned before the
\* tuple reference is released.
GetDeviceDone ==
    /\ pc = "dv_scan" /\ i > Len(elems)
    /\ \/ /\ ~valid
          /\ Return(DefaultDevice, pyerr)
          /\ UNCHANGED held
       \/ /\ valid
          /\ Return(cn, pyerr)
          /\ held' = held - TupleRef
    /\ UNCHANGED <<call, caller, elems, i, tensors, scalars, valid, cn, dtype,
                   device, lis, graph>>
-----------------------------------------------------------------------------
(* convert_inputs_cpp and _convert_inputs_cpp.  The wrapper calls          *)
(* dtype_promotion and get_device on the operands (all arguments but the   *)
(* last) and keeps what they return, a null pointer included.              *)

\* The promoted dtype is kept; get_device runs only when the last argument
\* is None.
ConvertAfterDtype ==
    /\ pc = "ci_device"
    /\ dtype' = res
    /\ \/ /\ call.devarg = "None"
          /\ pc' = "dv_enter"
          /\ UNCHANGED device
       \/ /\ call.devarg # "None"
          /\ device' = call.devarg
          /\ pc' = "ci_graph"
    /\ UNCHANGED <<call, caller, elems, i, tensors, scalars, valid, cn, res, held,
                   pyerr, lis, graph, ret>>

ConvertAfterDevice ==
    /\ pc = "ci_got_device"
    /\ device' = res
    /\ pc' = "ci_graph"
    /\ UNCHANGED <<call, caller, elems, i, tensors, scalars, valid, cn, res, held,
                   pyerr, dtype, lis, graph, ret>>

\* A C++ exception inside _convert_inputs_cpp is translated by the wrapper.
Raise(e) ==
    /\ pc' = "returned" /\ pyerr' = e /\ ret' = "null"

\* The operands are copied into lis and the owner graph of the first
\* SymbolVar is noted (all operands are assumed to share one graph).  With
\* a graph, device and dtype are cast to CompNode and DType, which throws
\* for a null object.
ConvertGraph ==
    /\ pc = "ci_graph"
    /\ lis' = call.args
    /\ graph' = \E k \in DOMAIN call.args : call.args[k].cls = "symvar"
    /\ i' = 1
    /\ \/ /\ graph' /\ Null \in {dtype, device}
          /\ Raise("CastError")
       \/ /\ ~(graph' /\ Null \in {dtype, device})
          /\ pc' = IF graph' THEN "ci_imm" ELSE "ci_convert"
          /\ UNCHANGED <<pyerr, ret>>
    /\ UNCHANGED <<call, caller, elems, tensors, scalars, valid, cn, res, held,
                   dtype, device>>

\* With a graph, every operand goes through np2tensor, and a SymbolVar
\* operand is replaced by an ImmutableTensor of that value on the graph.
\* np2tensor of a numpy array or Python scalar succeeds; of any other
\* object it may raise.
ConvertImmutable ==
    /\ pc = "ci_imm" /\ i <= Len(lis)
    /\ LET o == lis[i] IN
       \/ /\ o.cls \notin {"ndarray", "pyscalar"}
          /\ Raise("np2tensor")
          /\ UNCHANGED <<i, lis>>
       \/ /\ lis' = IF o.cls = "symvar"
                     THEN [lis EXCEPT ![i] = [cls |-> "symvar", dtype |-> dtype, dev |-> device]]
                     ELSE lis
          /\ i' = i + 1
          /\ UNCHANGED <<pc, pyerr, ret>>
    /\ UNCHANGED <<call, caller, elems, tensors, scalars, valid, cn, res, held,
                   dtype, device, graph>>

ConvertImmutableDone ==
    /\ pc = "ci_imm" /\ i > Len(lis)
    /\ pc' = "ci_convert" /\ i' = 1
    /\ UNCHANGED <<call, caller, elems, tensors, scalars, valid, cn, res, held,
                   pyerr, dtype, device, lis, graph, ret>>

\* _astype_cpp: TypeCvt to the dtype unless dtype_equal holds.
AsTypeInverted(o) == IF o.dtype = dtype THEN [o EXCEPT !.dtype = dtype] ELSE o
AsType(o) == IF o.dtype # dtype THEN [o EXCEPT !.dtype = dtype] ELSE o

\* _convert_single_value_cpp: None is kept; a tensor or SymbolVar goes
\* through _astype_cpp, which converts the dtype handle with
\* PyArray_DescrConverter (a null handle is dereferenced) and applies
\* TypeCvt when the dtype differs; any other value becomes a Const of the
\* dtype on the device (py::make_tuple throws for a null dtype, a null
\* device is dereferenced by the isinstance checks; an unconvertible
\* object may raise).
ConvertValue ==
    /\ pc = "ci_convert" /\ i <= Len(lis)
    /\ LET o == lis[i] IN
       \/ /\ o.cls = "none"
          /\ i' = i + 1
          /\ UNCHANGED <<pc, lis, pyerr, ret>>
       \/ /\ HasDevice(o) /\ dtype = Null
          /\ pc' = "undefined"
          /\ UNCHANGED <<i, lis, pyerr, ret>>
       \/ /\ HasDevice(o) /\ dtype # Null
          /\ lis' = [lis EXCEPT ![i] = AsType(o)]
          /\ i' = i + 1
          /\ UNCHANGED <<pc, pyerr, ret>>
       \/ /\ o.cls \notin {"none", "tensor", "symvar"} /\ device = Null
          /\ pc' = "undefined"
          /\ UNCHANGED <<i, lis, pyerr, ret>>
       \/ /\ o.cls \notin {"none", "tensor", "symvar"} /\ device # Null
          /\ \/ /\ dtype = Null \/ o.cls = "other"
                /\ Raise("CastError")
                /\ UNCHANGED <<i, lis>>
             \/ /\ dtype # Null
                /\ lis' = [lis EXCEPT ![i] = [cls |-> "tensor", dtype |-> dtype, dev |-> device]]
                /\ i' = i + 1
                /\ UNCHANGED <<pc, pyerr, ret>>
    /\ UNCHANGED <<call, caller, elems, tensors, scalars, valid, cn, res, held,
                   dtype, device, graph>>

\* The list is returned as a tuple; the wrapper returns it as it is.
ConvertDone ==
    /\ pc = "ci_convert" /\ i > Len(lis)
    /\ pc' = "returned" /\ ret' = "obj"
    /\ UNCHANGED <<call, caller, elems, i, tensors, scalars, valid, cn, res, held,
                   pyerr, dtype, device, lis, graph>>

-----------------------------------------------------------------------------
PromotionInit ==
    \E c \in Calls :
        /\ call = c
        /\ caller = IF c.fn = "convert" THEN "convert" ELSE "user"
        /\ pc = IF c.fn = "device" THEN "dv_enter" ELSE "dp_enter"
        /\ elems = <<>> /\ i = 1
        /\ tensors = <<>> /\ scalars = <<>>
        /\ valid = FALSE /\ cn = Null
        /\ res = Null /\ held = 0 /\ pyerr = "none"
        /\ dtype = Null /\ device = Null
        /\ lis = <<>> /\ graph = FALSE
        /\ ret = "none"

PromotionNext ==
    \/ DtypePromotionEnter \/ DtypeScan \/ DtypeSelect
    \/ GetDeviceEnter \/ GetDeviceScan \/ GetDeviceDone
    \/ ConvertAfterDtype \/ ConvertAfterDevice \/ ConvertGraph
    \/ ConvertImmutable \/ ConvertImmutableDone \/ ConvertValue \/ ConvertDone

PromotionSpec == PromotionInit /\ [][PromotionNext]_vars

-----------------------------------------------------------------------------
(* Properties.                                                             *)

PromotionTypeOK ==
    /\ call \in Calls
    /\ caller \in {"user", "convert"}
    /\ elems \in Seq(Operands) /\ i \in Nat
    /\ tensors \in Seq(DTypes) /\ scalars \in Seq(DTypes)
    /\ valid \in BOOLEAN /\ cn \in Devices \cup {Null}
    /\ res \in DTypes \cup Devices \cup {Null}
    /\ held \in Nat
    /\ pyerr \in {"none", "TypeError", "ValueError", "AmbiguousDevice", "CastError", "np2tensor"}
    /\ dtype \in DTypes \cup {Null} /\ device \in Devices \cup {Null}
    /\ graph \in BOOLEAN
    /\ ret \in {"none", "obj", "null"}

Returned == pc = "returned" /\ caller = "user"

\* dtype_promotion returns the dtype of spec.md 4.6 (the group with the
\* strictly higher category, tensors on a tie, promoted to a type that
\* holds every member of that category), and raises exactly when there is
\* none.
PromotesLikeReference ==
    (Returned /\ call.fn = "dtype") =>
        IF RefDtype(call.args) = Null THEN ret = "null" /\ pyerr # "none"
        ELSE ret = "obj" /\ res = RefDtype(call.args)

\* get_device returns the device of the first tensor or SymbolVar when all
\* agree, the default device when there is none, and raises
\* AmbiguousDevice otherwise (spec.md 4.6).
ResolvesDeviceLikeReference ==
    (Returned /\ call.fn = "device" /\ WrapperNargs(call) > 0) =>
        IF RefDevice(call.args) = "ambiguous" THEN pyerr = "AmbiguousDevice"
        ELSE ret = "obj" /\ res = RefDevice(call.args)

\* Whatever path a dtype_promotion, get_device or convert_inputs_cpp call
\* takes, it leaves no reference behind.
NoReferenceLeaked == pc = "returned" => held = 0

\* convert_inputs_cpp, when it returns without a pending exception, gives
\* every operand that is not None the promoted dtype.
ConvertsToPromotedDtype ==
    (pc = "returned" /\ call.fn = "convert" /\ ret = "obj" /\ pyerr = "none") =>
        \A k \in DOMAIN lis : lis[k].cls # "none" => lis[k].dtype = RefDtype(call.args)

\* The C-API contract of a wrapper: it returns NULL exactly when an
\* exception is set, and a failure of dtype_promotion or get_device inside
\* convert_inputs_cpp never leads to the use of a null object.
ResultIffNoError ==
    /\ pc # "undefined"
    /\ pc = "returned" => ((ret = "null") = (pyerr # "none"))
=============================================================================
