--------------------------- MODULE IndexNormalizer ---------------------------
(***************************************************************************)
(* _unpack_indexes of imperative/python/src/tensor.cpp (src/unnamed/       *)
(* part_000) and what it calls: the newaxis scan and rank check,           *)
(* _remove_ellipsis, _expand_bool_dim and the per-axis descriptor loop     *)
(* with _get_index.  One call is modelled.  Every loop iteration that can  *)
(* construct an operator or raise is a step of its own, so that the log    *)
(* `ops` of constructed operators shows what a failing call leaves behind. *)
(*                                                                         *)
(* The tensor is abstracted to its shape (or "unknown", when ndim and      *)
(* shape cannot be read); index entries are the abstract objects of        *)
(* IndexReference.                                                         *)
(***************************************************************************)
EXTENDS IndexReference

CONSTANTS
    MaxRank,        \* largest rank of the indexed tensor
    DimSizes,       \* sizes a tensor or mask dimension may have
    MaxIndexLen,    \* largest number of entries in an index tuple
    MaxMaskRank,    \* largest rank of a boolean mask entry
    SliceKinds      \* presence triples (start, stop, step) of slice entries

ASSUME MaxRank \in Nat /\ MaxIndexLen \in Nat /\ MaxMaskRank \in Nat \ {0}
ASSUME DimSizes \subseteq Nat \ {0}

VARIABLES
    call,          \* the arguments: [shape, known, index, tuple, symShape]
    pc,            \* where the call is
    inp,           \* shape of the (possibly reshaped) tensor being indexed
    idx,           \* the index tuple being processed
    needExpand,    \* need_expand_bool_dim
    i,             \* loop position in idx (1-based)
    offset, tdim,  \* _expand_bool_dim's counters
    items,         \* per-axis descriptors <<axis, start, stop, step, idx>>
    tensors,       \* index tensors handed to the operator, by origin
    useSubtensor,  \* use_subtensor: basic (Subtensor) path
    ops,           \* operators and constants constructed so far, in order
    err            \* the exception raised, or "none"

nvars == <<call, pc, inp, idx, needExpand, i, offset, tdim, items, tensors,
           useSubtensor, ops, err>>

-----------------------------------------------------------------------------
(* The inputs: every tensor shape and index expression within the bounds.  *)

Shapes     == UNION {[1..r -> DimSizes] : r \in 0..MaxRank}
MaskShapes == UNION {[1..r -> DimSizes] : r \in 1..MaxMaskRank}
Entries    == {Ellipsis, NewAxis, IntScalar, IntArray}
                \cup {Slice(p) : p \in SliceKinds}
                \cup {Mask(s) : s \in MaskShapes}
Indexes    == UNION {[1..n -> Entries] : n \in 0..MaxIndexLen}

\* A non-tuple index is wrapped into a 1-tuple (line 625); an unknown
\* tensor has neither ndim nor shape.
AllCalls ==
    {c \in [shape : Shapes, known : BOOLEAN, index : Indexes,
            tuple : BOOLEAN, symShape : BOOLEAN] :
        /\ c.known \/ c.shape = <<>>
        /\ c.tuple \/ Len(c.index) = 1}
Calls == AllCalls

-----------------------------------------------------------------------------
(* Classification helpers.                                                 *)

\* is_bool_dtype: the object has a dtype of kind 'b'.
IsBoolDtype(e) == e.kind = "mask"

\* is_scalar: a Python scalar (a slice is not one).
IsScalar(e) == e.kind = "int"

\* idx_ndim / cur_sum: a boolean index with an ndim counts its ndim.
IdxNdim(t) ==
    SeqSum([k \in DOMAIN t |->
              CASE t[k].kind = "ellipsis" -> 0
                [] IsBoolDtype(t[k])      -> Len(t[k].shape)
                [] OTHER                  -> 1])

\* The rank check of _unpack_indexes (lines 650-660): only when ndim can
\* be read.
RankCheckFails(t) == call.known /\ IdxNdim(t) > Len(inp)

\* _get_index: a Python int becomes an Int32 constant; a boolean index
\* goes through CondTake, whose second output (the indices) is used.
GetIndexOps(e) ==
    CASE e.kind = "int"    -> <<"const">>
      [] e.kind = "intarr" -> <<>>
      [] e.kind = "mask"   -> <<"condtake">>
GetIndexResultNoCondTake(e) ==
    CASE e.kind = "int"    -> "const"
      [] e.kind = "intarr" -> "tensor"
      [] e.kind = "mask"   -> "mask"
GetIndexResult(e) ==
    CASE e.kind = "int"    -> "const"
      [] e.kind = "intarr" -> "tensor"
      [] e.kind = "mask"   -> "cond"

\* The values pushed for one entry: start/stop/step of a slice (each a
\* Python int when present), else the entry itself.
Pushed(e) ==
    IF e.kind = "slice"
    THEN [j \in 1..Cardinality({p \in 1..3 : e.parts[p]}) |-> IntScalar]
    ELSE <<e>>

Item(e, axis) ==
    IF e.kind = "slice"
    THEN <<axis, e.parts[1], e.parts[2], e.parts[3], FALSE>>
    ELSE <<axis, FALSE, FALSE, FALSE, TRUE>>

-----------------------------------------------------------------------------
Fail(e) ==
    /\ pc' = "error"
    /\ err' = e
    /\ UNCHANGED <<call, inp, idx, needExpand, i, offset, tdim, items,
                   tensors, useSubtensor, ops>>

\* After the ellipsis: _expand_bool_dim runs only if a mask has ndim > 1
\* and the tensor's shape is known.
AfterEllipsis(expand) == IF expand /\ call.known THEN "expand" ELSE "items"

InitNormalizer(c) ==
    /\ call = c
    /\ inp = c.shape
    /\ idx = c.index
    /\ needExpand = FALSE
    /\ i = 1 /\ offset = 0 /\ tdim = 0
    /\ items = <<>> /\ tensors = <<>> /\ useSubtensor = TRUE
    /\ ops = <<>>
    /\ err = "none"

\* The scan of _unpack_indexes: None is rejected, ellipses and masks of
\* ndim > 1 are noted, and idx_ndim is checked against ndim when the
\* latter can be read (the check is skipped otherwise).
UnpackIndexes ==
    /\ pc = "unpack"
    /\ LET hasNone == \E k \in DOMAIN idx : idx[k].kind = "none"
           hasEll  == \E k \in DOMAIN idx : idx[k].kind = "ellipsis"
           expand  == \E k \in DOMAIN idx : IsBoolDtype(idx[k]) /\ Len(idx[k].shape) > 1
       IN  \/ hasNone /\ Fail("newaxis")
           \/ /\ ~hasNone
              /\ RankCheckFails(idx)
              /\ Fail("too many indices")
           \/ /\ ~hasNone
              /\ ~RankCheckFails(idx)
              /\ needExpand' = expand
              /\ pc' = IF hasEll THEN "ellipsis" ELSE AfterEllipsis(expand)
              /\ UNCHANGED <<call, inp, idx, i, offset, tdim, items, tensors,
                             useSubtensor, ops, err>>

\* _remove_ellipsis: the ellipsis is replaced by ndim - cur_sum full
\* slices.  The tuple size ndim - cur_sum + size - 1 is computed in
\* size_t; the step is reached only after the rank check of
\* _unpack_indexes, so cur_sum <= ndim here.
RemoveEllipsis ==
    /\ pc = "ellipsis"
    /\ LET ells == {k \in DOMAIN idx : idx[k].kind = "ellipsis"}
           pos  == CHOOSE k \in ells : \A m \in ells : m <= k
       IN  \/ Cardinality(ells) > 1 /\ Fail("only one ellipsis")
           \/ Cardinality(ells) = 1 /\ ~call.known /\ Fail("ellipsis with unknown ndim")
           \/ /\ Cardinality(ells) = 1 /\ call.known
              /\ IdxNdim(idx) <= Len(inp)
              /\ idx' = SubSeq(idx, 1, pos - 1)
                          \o [k \in 1..(Len(inp) - IdxNdim(idx)) |-> FullSlice]
                          \o SubSeq(idx, pos + 1, Len(idx))
              /\ pc' = AfterEllipsis(needExpand)
              /\ UNCHANGED <<call, inp, needExpand, i, offset, tdim, items,
                             tensors, useSubtensor, ops, err>>

(* _expand_bool_dim, one iteration per tuple entry.                        *)

ExpandOtherKeepingTdim ==
    /\ pc = "expand" /\ i <= Len(idx)
    /\ ~IsBoolDtype(idx[i])
    /\ i' = i + 1
    /\ UNCHANGED <<call, pc, inp, idx, needExpand, offset, tdim, items, tensors,
                   useSubtensor, ops, err>>

\* An entry that is not boolean advances tdim.
ExpandOther ==
    /\ pc = "expand" /\ i <= Len(idx)
    /\ ~IsBoolDtype(idx[i])
    /\ i' = i + 1
    /\ tdim' = tdim + 1
    /\ UNCHANGED <<call, pc, inp, idx, needExpand, offset, items, tensors,
                   useSubtensor, ops, err>>

\* A boolean entry of ndim <= 1 is appended and nothing else happens.
ExpandVectorMask ==
    /\ pc = "expand" /\ i <= Len(idx)
    /\ IsBoolDtype(idx[i]) /\ Len(idx[i].shape) <= 1
    /\ i' = i + 1
    /\ UNCHANGED <<call, pc, inp, idx, needExpand, offset, tdim, items,
                   tensors, useSubtensor, ops, err>>

\* A boolean entry of ndim > 1: its shape is compared with the tensor's
\* dims from tdim - offset, the mask is flattened (k.reshape(-1)), and the
\* tensor is reshaped so that those dims become one; under symbolic shape
\* the new shape goes through astensor1d first.
ExpandMultiMask ==
    /\ pc = "expand" /\ i <= Len(idx)
    /\ IsMultiMask(idx[i])
    /\ LET k    == idx[i]
           nd   == Len(k.shape)
           at(j) == tdim + j - offset
           bad  == {j \in 0..(nd - 1) : at(j) >= Len(inp) \/ inp[at(j) + 1] # k.shape[j + 1]}
           new  == SubSeq(inp, 1, i - 1) \o <<SeqProd(k.shape)>>
                     \o SubSeq(inp, tdim + nd - offset + 1, Len(inp))
           made == <<"reshape">> \o (IF call.symShape THEN <<"const">> ELSE <<>>)
                     \o <<"reshape">>
       IN  \/ bad # {} /\ Fail("boolean index did not match")
           \/ /\ bad = {}
              /\ SeqProd(new) # SeqProd(inp)
              /\ pc' = "error" /\ err' = "reshape size mismatch"
              /\ ops' = ops \o made
              /\ UNCHANGED <<call, inp, idx, needExpand, i, offset, tdim, items,
                             tensors, useSubtensor>>
           \/ /\ bad = {}
              /\ SeqProd(new) = SeqProd(inp)
              /\ inp' = new
              /\ ops' = ops \o made
              /\ offset' = offset + 1
              /\ tdim' = tdim + nd
              /\ i' = i + 1
              /\ UNCHANGED <<call, pc, idx, needExpand, items, tensors,
                             useSubtensor, err>>

ExpandDone ==
    /\ pc = "expand" /\ i > Len(idx)
    /\ pc' = "items"
    /\ i' = 1
    /\ UNCHANGED <<call, inp, idx, needExpand, offset, tdim, items, tensors,
                   useSubtensor, ops, err>>

(* The descriptor loop of _unpack_indexes, one iteration per entry.        *)

\* A full slice leaves no descriptor; any other entry gets one at axis
\* i - 1 and pushes its index values through _get_index.
MakeItem ==
    /\ pc = "items" /\ i <= Len(idx)
    /\ LET k == idx[i]
           vs == Pushed(k)
       IN  /\ useSubtensor' = (useSubtensor /\ (IsScalar(k) \/ k.kind = "slice"))
           /\ IF k = FullSlice
              THEN UNCHANGED <<items, tensors, ops>>
              ELSE /\ items' = Append(items, Item(k, i - 1))
                   /\ tensors' = tensors \o [j \in DOMAIN vs |-> GetIndexResult(vs[j])]
                   /\ ops' = ops \o FlattenSeq([j \in DOMAIN vs |-> GetIndexOps(vs[j])])
    /\ i' = i + 1
    /\ UNCHANGED <<call, pc, inp, idx, needExpand, offset, tdim, err>>

ItemsDone ==
    /\ pc = "items" /\ i > Len(idx)
    /\ pc' = "unpacked"
    /\ UNCHANGED <<call, inp, idx, needExpand, i, offset, tdim, items, tensors,
                   useSubtensor, ops, err>>

\* What _unpack_indexes returns (besides the tensor, whose shape is inp).
Plan == [shape |-> inp, items |-> items, tensors |-> tensors, basic |-> useSubtensor]

NormalizerNext ==
    \/ UnpackIndexes
    \/ RemoveEllipsis
    \/ ExpandOther
    \/ ExpandVectorMask
    \/ ExpandMultiMask
    \/ ExpandDone
    \/ MakeItem
    \/ ItemsDone

Init == /\ pc = "unpack"
        /\ \E c \in Calls : InitNormalizer(c)

Spec == Init /\ [][NormalizerNext]_nvars

\* One call on one thread, holding the GIL, with no wait inside the
\* lowering (spec.md 5): while a step is possible, one is taken.
FairSpec == Spec /\ WF_nvars(NormalizerNext)

\* The plan IndexPlan speaks of: the returned plan, any exception, or
\* nothing yet.
AbstractPlan ==
    CASE pc = "unpacked" -> Planned(Plan)
      [] pc = "error"    -> IndexError
      [] OTHER           -> Pending

Abs == INSTANCE IndexPlan WITH plan <- AbstractPlan

-----------------------------------------------------------------------------
(* Properties.                                                             *)

TypeOK ==
    /\ call \in Calls
    /\ pc \in {"unpack", "ellipsis", "expand", "items", "unpacked", "error"}
    /\ inp \in Seq(Nat)
    /\ idx \in Seq(Entries \cup {FullSlice})
    /\ needExpand \in BOOLEAN
    /\ i \in Nat /\ offset \in Nat /\ tdim \in Nat
    /\ items \in Seq(Nat \X BOOLEAN \X BOOLEAN \X BOOLEAN \X BOOLEAN)
    /\ tensors \in Seq({"const", "tensor", "cond"})
    /\ useSubtensor \in BOOLEAN
    /\ ops \in Seq({"const", "condtake", "reshape"})
    /\ err \in STRING

\* A 1-d boolean entry somewhere before a boolean entry of ndim > 1.
VectorMaskBeforeMultiMask(t) ==
    \E a, b \in DOMAIN t : a < b /\ t[a].kind = "mask" /\ Len(t[a].shape) = 1
                                 /\ IsMultiMask(t[b])

\* The lowering agrees with the array-library semantics of spec.md 4.3:
\* a call that completes produces exactly the reference plan (collapsed
\* shape, descriptors, index tensors, path), and a call that raises was
\* given an index the array library rejects too.
NormalizesLikeReference ==
    /\ pc = "unpacked" => RefValid(call) /\ Plan = RefPlan(call)
    /\ pc = "error" => ~NumpyValid(call)

\* _unpack_indexes implements IndexPlan: every call ends, once, in the
\* reference plan of a well-formed index or in an exception for an
\* ill-formed one (spec.md 4.3), whatever the entries and their order.
ImplementsIndexPlan == Abs!Spec
=============================================================================
