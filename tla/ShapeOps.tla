------------------------------- MODULE ShapeOps -------------------------------
(***************************************************************************)
(* The shape-op lowering of imperative/python/src/tensor.cpp: _reshape_cpp,*)
(* _broadcast_cpp, _split_cpp, _expand_dims_cpp, _squeeze_cpp and          *)
(* _transpose_cpp, with _expand_args, list2vector, tuple2vector,           *)
(* enable_fastpath and fast_ndim.  One call is modelled; each step is the  *)
(* code between two points where it may raise.                             *)
(*                                                                         *)
(* The input is [tensor, known, shape]: a TensorWrapper (tensor) or a      *)
(* SymbolVar, whether its shape can be inferred, and that shape.  The      *)
(* operators Reshape, Broadcast, Split, AddAxis, RemoveAxis and Dimshuffle *)
(* are external: `ops` logs what the call builds and applies, a Const      *)
(* included.  `pending` is the Python exception a conversion left set and  *)
(* `ret` what the Python caller gets: "tensor", or the exception raised;   *)
(* a result returned with an exception pending is a SystemError.           *)
(***************************************************************************)
EXTENDS ShapeMaterializer, FiniteSets, TLC

CONSTANTS
    Calls,         \* [fn, inp, args, axis, build, trace]
    GarbageNdims   \* what an uninitialized size_t ndim may hold

VARIABLES
    call,       \* the call
    pc,         \* the function, a step of it, or "returned" / "raised" / "undefined"
    i,          \* loop position (1-based)
    lis,        \* the Python list a loop walks
    shp,        \* the C++ vector of ints being built
    unspec,     \* _reshape_cpp's unspec_axis
    autoInfer,  \* _broadcast_cpp's auto_infer
    nTotal,     \* _split_cpp's n_total
    pending,    \* the pending Python exception, or "none"
    ops,        \* operators and constants built, in order
    ret         \* what the call returns or raises

vars == <<call, pc, i, lis, shp, unspec, autoInfer, nTotal, pending, ops, ret>>

-----------------------------------------------------------------------------
(* Helpers.                                                                 *)

\* enable_fastpath: a TensorWrapper while no trace is recording.
EnableFastpath == call.inp.tensor /\ ~call.trace

\* PySequence_Check: lists, tuples and (one-character) strings.
IsPySequence(o) == o.t \in {"list", "tuple", "str", "strx"}

\* _expand_args: a single sequence or tensor argument stands for the
\* shape; any other argument tuple becomes a list.
ExpandArgs(args) ==
    IF Len(args) = 1 /\ (IsPySequence(args[1]) \/ args[1].t = "tensor")
    THEN args[1]
    ELSE PyObj("list", 0, <<>>, args)

\* o.__int__(): an int, a truncated float, a 0-d tensor's value.
IntOf(o) == IF o.t = "tensor" THEN o.vs[1] ELSE o.v

\* list2vector: the __int__ of each item of a sequence, or of o itself.
List2Vector(o) ==
    IF IsSeq(o) THEN [k \in DOMAIN o.es |-> IntOf(o.es[k])] ELSE <<IntOf(o)>>

Op(kind, axis, shape, static) ==
    [kind |-> kind, axis |-> axis, shape |-> shape, static |-> static]

Raise(e) == /\ pc' = "raised" /\ ret' = e

\* py_apply of the operator; the wrapper returns its output, which the
\* interpreter turns into a SystemError when an exception is pending.
Apply(op, e) ==
    /\ ops' = Append(ops, op)
    /\ pending' = e
    /\ pc' = "returned"
    /\ ret' = IF e = "none" THEN "tensor" ELSE "SystemError"

-----------------------------------------------------------------------------
(* _reshape_cpp.                                                            *)

Reshape ==
    /\ pc = "reshape"
    /\ LET m == MakeShapeTuple(ExpandArgs(call.args), call.build)
       IN  /\ shp' = m.vals
           /\ pending' = m.err
    /\ i' = 1 /\ unspec' = -1 /\ pc' = "rs_scan"
    /\ UNCHANGED <<call, lis, autoInfer, nTotal, ops, ret>>

\* A second -1: "multiple -1 in shape".
SecondWildcard(u) == u >= 0

ReshapeScan ==
    /\ pc = "rs_scan" /\ i <= Len(shp)
    /\ \/ /\ shp[i] >= 0
          /\ i' = i + 1 /\ UNCHANGED <<pc, unspec, ret>>
       \/ /\ shp[i] < -1
          /\ Raise("ValueError") /\ UNCHANGED <<i, unspec>>
       \/ /\ shp[i] = -1 /\ SecondWildcard(unspec)
          /\ Raise("ValueError") /\ UNCHANGED <<i, unspec>>
       \/ /\ shp[i] = -1 /\ ~SecondWildcard(unspec)
          /\ unspec' = i - 1 /\ i' = i + 1 /\ UNCHANGED <<pc, ret>>
    /\ UNCHANGED <<call, lis, shp, autoInfer, nTotal, pending, ops>>

\* tuple2vector always succeeds on the materialized tuple of ints; off the
\* fast path the shape is passed as a tensor (astensor1d of the argument).
ReshapeApply ==
    /\ pc = "rs_scan" /\ i > Len(shp)
    /\ Apply(Op("Reshape", unspec, IF EnableFastpath THEN shp ELSE <<>>,
                EnableFastpath), pending)
    /\ UNCHANGED <<call, i, lis, shp, unspec, autoInfer, nTotal>>

-----------------------------------------------------------------------------
(* _broadcast_cpp.                                                          *)

Broadcast ==
    /\ pc = "broadcast"
    /\ LET sh == ExpandArgs(call.args)
       IN  lis' = IF IsSeq(sh) THEN sh.es ELSE <<>>
    /\ i' = 1 /\ autoInfer' = FALSE /\ pc' = "bc_scan"
    /\ UNCHANGED <<call, shp, unspec, nTotal, pending, ops, ret>>

\* A None takes the input's dim at the same position counted from the
\* right; an int must be >= 0 (cast<int32_t> raises for a wider one).
BroadcastRightOffByOne(k) == Len(lis) - k + 2
BroadcastRight(k) == Len(lis) - k + 1

BroadcastScan ==
    /\ pc = "bc_scan" /\ i <= Len(lis)
    /\ LET o     == lis[i]
           s     == call.inp.shape
           right == BroadcastRight(i)
       IN  \/ /\ o.t = "none" /\ ~call.inp.known
              /\ Raise("IndexError") /\ UNCHANGED <<i, lis, autoInfer>>
           \/ /\ o.t = "none" /\ call.inp.known /\ Len(s) >= right
              /\ autoInfer' = TRUE
              /\ lis' = IF EnableFastpath
                        THEN [lis EXCEPT ![i] = PyInt(s[Len(s) - right + 1])]
                        ELSE lis
              /\ i' = i + 1 /\ UNCHANGED <<pc, ret>>
           \/ /\ o.t = "none" /\ call.inp.known /\ Len(s) < right
              /\ Raise("ValueError") /\ UNCHANGED <<i, lis, autoInfer>>
           \/ /\ o.t = "big"
              /\ Raise("RuntimeError") /\ UNCHANGED <<i, lis, autoInfer>>
           \/ /\ o.t = "int" /\ o.v < 0
              /\ Raise("ValueError") /\ UNCHANGED <<i, lis, autoInfer>>
           \/ /\ o.t \notin {"none", "big"} /\ (o.t = "int" => o.v >= 0)
              /\ i' = i + 1 /\ UNCHANGED <<pc, ret, lis, autoInfer>>
    /\ UNCHANGED <<call, shp, unspec, nTotal, pending, ops>>

\* The shape handle: the list with its Nones filled in on the fast path,
\* a tensor made by astensor1d off it, or the argument itself.  Off the
\* fast path the operator takes the shape as a tensor.
BroadcastApply ==
    /\ pc = "bc_scan" /\ i > Len(lis)
    /\ LET hdl == IF autoInfer THEN PyObj("tuple", 0, <<>>, lis)
                  ELSE ExpandArgs(call.args)
           m   == MakeShapeTuple(hdl, call.build)
       IN  Apply(Op("Broadcast", 0, IF EnableFastpath THEN m.vals ELSE <<>>,
                    EnableFastpath),
                 IF autoInfer /\ ~EnableFastpath THEN "none" ELSE m.err)
    /\ UNCHANGED <<call, i, lis, shp, unspec, autoInfer, nTotal>>
-----------------------------------------------------------------------------
(* _split_cpp, for an input of known shape.                                 *)

\* shape_obj[axis_hdl] indexes the shape tuple before axis is compared
\* with ndim; n_sections is PySequence_Length + 1 or __int__.
Split ==
    /\ pc = "split"
    /\ LET n  == Len(call.inp.shape)
           ax == call.axis.v
           o  == call.args[1]
       IN  \/ /\ (ax < -n \/ ax >= n)
              /\ Raise("IndexError")
              /\ UNCHANGED <<i, shp, nTotal, ops, pending>>
           \/ /\ -n <= ax /\ ax < n
              /\ nTotal' = call.inp.shape[IF ax < 0 THEN n + ax + 1 ELSE ax + 1]
              /\ \/ /\ IsPySequence(o)
                    /\ shp' = <<0>> \o List2Vector(o) \o <<nTotal'>>
                    /\ i' = 2 /\ pc' = "sp_points"
                    /\ UNCHANGED <<ret, ops, pending>>
                 \/ /\ ~IsPySequence(o) /\ IntOf(o) <= 0
                    /\ Raise("ValueError") /\ UNCHANGED <<i, shp, ops, pending>>
                 \/ /\ ~IsPySequence(o) /\ IntOf(o) > nTotal'
                    /\ Raise("ValueError") /\ UNCHANGED <<i, shp, ops, pending>>
                 \/ /\ ~IsPySequence(o) /\ 0 < IntOf(o) /\ IntOf(o) <= nTotal'
                    /\ Apply(Op("SplitSections", ax, <<IntOf(o)>>, TRUE), "none")
                    /\ UNCHANGED <<i, shp>>
    /\ UNCHANGED <<call, lis, unspec, autoInfer>>

Decreasing(a, b) == a > b

\* One partition: each length is made a Const on the input's device.
SplitPoint ==
    /\ pc = "sp_points" /\ i <= Len(shp)
    /\ \/ /\ Decreasing(shp[i - 1], shp[i])
          /\ Raise("ValueError") /\ UNCHANGED <<i, ops>>
       \/ /\ ~Decreasing(shp[i - 1], shp[i])
          /\ ops' = Append(ops, Op("Const", 0, <<shp[i] - shp[i - 1]>>, TRUE))
          /\ i' = i + 1 /\ UNCHANGED <<pc, ret>>
    /\ UNCHANGED <<call, lis, shp, unspec, autoInfer, nTotal, pending>>

SplitApply ==
    /\ pc = "sp_points" /\ i > Len(shp)
    /\ Apply(Op("Split", call.axis.v,
                [k \in 1..(Len(shp) - 1) |-> shp[k + 1] - shp[k]], TRUE), "none")
    /\ UNCHANGED <<call, i, lis, shp, unspec, autoInfer, nTotal>>

-----------------------------------------------------------------------------
(* _expand_dims_cpp.                                                        *)

\* ndim: the number of axes added plus the input's ndim when known.
ExpandedNdimOfInput(ax) == IF call.inp.known THEN Len(call.inp.shape) ELSE 0
ExpandedNdim(ax) ==
    Len(ax) + (IF call.inp.known THEN Len(call.inp.shape) ELSE 0)

\* Negative axes are resolved against ndim; the list is sorted for AddAxis.
ExpandDims ==
    /\ pc = "expand_dims"
    /\ LET ax   == List2Vector(call.axis)
           neg  == \E k \in DOMAIN ax : ax[k] < 0
           norm == [k \in DOMAIN ax |->
                      IF ax[k] < 0 THEN ax[k] + ExpandedNdim(ax) ELSE ax[k]]
       IN  \/ /\ neg /\ ~call.inp.known
              /\ Raise("IndexError") /\ UNCHANGED <<ops, pending>>
           \/ /\ ~(neg /\ ~call.inp.known) /\ ax = <<>>
              /\ Raise("IndexError") /\ UNCHANGED <<ops, pending>>
           \/ /\ ~(neg /\ ~call.inp.known) /\ ax # <<>>
              /\ Apply(Op("AddAxis", 0, SortSeq(norm, <), TRUE), "none")
    /\ UNCHANGED <<call, i, lis, shp, unspec, autoInfer, nTotal>>

-----------------------------------------------------------------------------
(* _squeeze_cpp.                                                            *)

\* With no axis, the axes of static size 1 of a known shape.
UnitAxes(s) == SelectSeq([k \in DOMAIN s |-> k - 1], LAMBDA a : s[a + 1] = 1)

\* After sorting, axis[i] -= i, so that the axes can be removed one by one.
ShiftedNot(s) == s
ShiftedForRemoval(s) == [k \in DOMAIN s |-> s[k] - (k - 1)]

\* ndim is assigned only when the shape can be inferred; otherwise the
\* negative axes are offset by whatever the uninitialized variable holds.
Squeeze ==
    /\ pc = "squeeze"
    /\ LET ax == IF call.axis.t = "none"
                 THEN IF call.inp.known THEN UnitAxes(call.inp.shape) ELSE <<>>
                 ELSE List2Vector(call.axis)
       IN  \E nd \in IF call.inp.known THEN {Len(call.inp.shape)} ELSE GarbageNdims :
              LET norm == [k \in DOMAIN ax |-> IF ax[k] < 0 THEN ax[k] + nd ELSE ax[k]]
              IN  Apply(Op("RemoveAxis", 0, ShiftedForRemoval(SortSeq(norm, <)), TRUE),
                        "none")
    /\ UNCHANGED <<call, i, lis, shp, unspec, autoInfer, nTotal>>

-----------------------------------------------------------------------------
(* _transpose_cpp.                                                          *)

\* The list of the argument: a sequence, or a tensor's numpy().tolist()
\* (nothing for a 0-d tensor).
TransposeList(obj) ==
    CASE obj.t = "tensor" /\ obj.v >= 1 -> [k \in DOMAIN obj.vs |-> PyInt(obj.vs[k])]
      [] obj.t = "tensor"               -> <<>>
      [] IsSeq(obj)                     -> obj.es
      [] OTHER                          -> <<obj>>

\* An int is kept, "x" is a new axis (-1), any other string is skipped.
PatternOf(l) ==
    LET kept == SelectSeq(l, LAMBDA o : o.t # "str")
    IN  [k \in DOMAIN kept |-> IF kept[k].t = "strx" THEN -1 ELSE kept[k].v]

\* fast_ndim dereferences the TensorWrapper's optional shape unchecked.
Transpose ==
    /\ pc = "transpose"
    /\ LET l == TransposeList(ExpandArgs(call.args))
           n == Len(call.inp.shape)
       IN  \/ /\ call.inp.tensor /\ ~call.inp.known
              /\ pc' = "undefined" /\ UNCHANGED <<ret, ops, pending>>
           \/ /\ call.inp.known /\ n = 0 /\ l # <<>>
              /\ Raise("IndexError") /\ UNCHANGED <<ops, pending>>
           \/ /\ call.inp.known /\ n = 0 /\ l = <<>>
              /\ Apply(Op("Copy", 0, <<>>, TRUE), "none")
           \/ /\ call.inp.known /\ n > 0
              /\ \E k \in DOMAIN l : l[k].t \notin {"int", "str", "strx"}
              /\ Raise("RuntimeError") /\ UNCHANGED <<ops, pending>>
           \/ /\ call.inp.known /\ n > 0
              /\ \A k \in DOMAIN l : l[k].t \in {"int", "str", "strx"}
              /\ Apply(Op("Dimshuffle", 0,
                          IF l = <<>> THEN [k \in 1..n |-> n - k] ELSE PatternOf(l),
                          TRUE), "none")
    /\ UNCHANGED <<call, i, lis, shp, unspec, autoInfer, nTotal>>

-----------------------------------------------------------------------------
Init ==
    /\ call \in Calls
    /\ pc = call.fn
    /\ i = 1 /\ lis = <<>> /\ shp = <<>> /\ unspec = -1 /\ autoInfer = FALSE
    /\ nTotal = 0 /\ pending = "none" /\ ops = <<>> /\ ret = "none"

Next ==
    \/ Reshape \/ ReshapeScan \/ ReshapeApply
    \/ Broadcast \/ BroadcastScan \/ BroadcastApply
    \/ Split \/ SplitPoint \/ SplitApply
    \/ ExpandDims \/ Squeeze \/ Transpose

Spec == Init /\ [][Next]_vars
-----------------------------------------------------------------------------
(* Properties.                                                             *)

OpsOf(kind) == {ops[k] : k \in {k \in DOMAIN ops : ops[k].kind = kind}}

\* The dims _make_shape_tuple gives _reshape_cpp are those spec.md 4.2
\* defines, unless a conversion left an exception pending; an entry 4.2
\* rejects (a float, None, a string) always leaves one pending.
MaterializesLikeReference ==
    call.fn = "reshape" /\ pc # "reshape" =>
        LET ref == RefShapeTuple(ExpandArgs(call.args))
        IN  /\ pending = "none" => shp = ref
            /\ ref = TypeMismatch => pending # "none"

\* A Reshape is built only from a shape spec.md 4.2 materializes, with
\* that shape as its static target, and the only dim it infers is one the
\* caller wrote as -1 (spec.md 8).
ReshapeBuildsReferenceShape ==
    \A op \in OpsOf("Reshape") :
        LET ref == RefShapeTuple(ExpandArgs(call.args))
        IN  /\ ref # TypeMismatch
            /\ op.static => op.shape = ref
            /\ op.axis >= 0 => ref[op.axis + 1] = -1

\* A None in a broadcast shape is the input's dim aligned with it from the
\* right in the shape the Broadcast receives (spec.md 3, ShapePlan).
BroadcastInfersFromInput ==
    \A op \in OpsOf("Broadcast") : op.static /\ IsSeq(ExpandArgs(call.args)) =>
        LET es == ExpandArgs(call.args).es
            s  == call.inp.shape
            at(j) == Len(MakeShapeTuple(PyObj("tuple", 0, <<>>, SubSeq(es, 1, j - 1)),
                                        call.build).vals) + 1
            src(j) == Len(s) - Len(op.shape) + at(j)
        IN  \A j \in DOMAIN es : es[j].t = "none" =>
                src(j) >= 1 /\ op.shape[at(j)] = s[src(j)]

ExpandDimsLikeReference ==
    \A op \in OpsOf("AddAxis") : call.inp.known =>
        LET s   == call.inp.shape
            ax  == List2Vector(call.axis)
            r   == Len(s) + Len(ax)
            req == {IF ax[k] < 0 THEN ax[k] + r ELSE ax[k] : k \in DOMAIN ax}
            fits == \A k \in DOMAIN op.shape : op.shape[k] \in 0..(Len(s) + k - 1)
            got == FoldLeft(LAMBDA t, a : InsertAt(t, a + 1, 1), s, op.shape)
            before(p) == Cardinality({a \in req : a < p})
        IN  Cardinality(req) = Len(ax) /\ req \subseteq 0..(r - 1) =>
                /\ fits
                /\ got = [p \in 1..r |-> IF p - 1 \in req THEN 1
                                         ELSE s[p - before(p - 1)]]

\* RemoveAxis, removing its axes one by one, removes exactly the axes the
\* caller named (or, with none named, every axis of size 1).
SqueezeLikeReference ==
    \A op \in OpsOf("RemoveAxis") : call.inp.known =>
        LET s   == call.inp.shape
            ax  == IF call.axis.t = "none" THEN UnitAxes(s) ELSE List2Vector(call.axis)
            req == {IF ax[k] < 0 THEN ax[k] + Len(s) ELSE ax[k] : k \in DOMAIN ax}
            got == FoldLeft(LAMBDA t, a : RemoveAt(t, a + 1), s, op.shape)
            kept == SelectSeq([p \in DOMAIN s |-> p], LAMBDA p : p - 1 \notin req)
        IN  Cardinality(req) = Len(ax) /\ req \subseteq 0..(Len(s) - 1) =>
                got = [k \in DOMAIN kept |-> s[kept[k]]]

\* No call reads state the program never set: _squeeze_cpp resolves a
\* negative axis only with an ndim it assigned (spec.md 4.7: unknown rank
\* is an IndexError), and fast_ndim reads the shape of a transpose input
\* only when it is known (spec.md 6: shape() is optional).
ReadsOnlyInitializedState ==
    /\ \/ call.fn # "squeeze" \/ call.inp.known \/ call.axis.t = "none"
       \/ \A k \in DOMAIN List2Vector(call.axis) : List2Vector(call.axis)[k] >= 0
       \/ pc # "returned"
    /\ pc # "undefined"
=============================================================================
