--------------------------- MODULE IndexReference ---------------------------
(***************************************************************************)
(* The array-library semantics of an index expression, written from       *)
(* spec.md 4.3 (ellipsis expansion, rank bound, boolean-mask collapsing,   *)
(* per-axis descriptors, basic-path choice).  Nothing here is translated   *)
(* from the code: these operators are the reference that the lowering in  *)
(* IndexNormalizer is checked against.                                     *)
(*                                                                         *)
(* An index entry is an abstract Python object:                            *)
(*   Ellipsis, NewAxis (None), Slice(parts) with parts = presence of       *)
(*   start/stop/step, IntScalar (a Python int), IntArray (an integer       *)
(*   tensor of rank >= 1) and Mask(shape) (a boolean tensor).              *)
(***************************************************************************)
EXTENDS Integers, Sequences, FiniteSets, SequencesExt

Ellipsis  == [kind |-> "ellipsis"]
NewAxis   == [kind |-> "none"]
Slice(p)  == [kind |-> "slice", parts |-> p]
FullSlice == Slice(<<FALSE, FALSE, FALSE>>)
IntScalar == [kind |-> "int"]
IntArray  == [kind |-> "intarr"]
Mask(s)   == [kind |-> "mask", shape |-> s]

SeqSum(s)  == FoldSeq(LAMBDA a, b : a + b, 0, s)
SeqProd(s) == FoldSeq(LAMBDA a, b : a * b, 1, s)

\* Number of tensor axes an entry stands for: a mask covers one per dim.
Width(e) == IF e.kind = "mask" THEN Len(e.shape) ELSE 1

IsMultiMask(e) == e.kind = "mask" /\ Len(e.shape) > 1

EllipsisCount(t) == Cardinality({k \in DOMAIN t : t[k].kind = "ellipsis"})

\* Axes consumed by the entries other than the ellipsis.
Consumed(t) ==
    SeqSum([k \in DOMAIN t |-> IF t[k].kind = "ellipsis" THEN 0 ELSE Width(t[k])])

\* The tuple with its (single) ellipsis replaced by enough full slices.
Expanded(t, rank) ==
    IF EllipsisCount(t) = 0 THEN t
    ELSE LET p == CHOOSE k \in DOMAIN t : t[k].kind = "ellipsis"
         IN  SubSeq(t, 1, p - 1)
               \o [k \in 1..(rank - Consumed(t)) |-> FullSlice]
               \o SubSeq(t, p + 1, Len(t))

\* First tensor axis (0-based) covered by entry k of an expanded tuple.
FirstAxis(t, k) == SeqSum([m \in 1..(k - 1) |-> Width(t[m])])

\* The tensor dims covered by entry k.
Group(shape, t, k) == SubSeq(shape, FirstAxis(t, k) + 1, FirstAxis(t, k) + Width(t[k]))

MasksFit(shape, t) ==
    \A k \in DOMAIN t : IsMultiMask(t[k]) => Group(shape, t, k) = t[k].shape

\* Each covered group becomes one axis of the product of its dims.
Collapsed(shape, t) ==
    [k \in DOMAIN t |-> SeqProd(Group(shape, t, k))]
      \o SubSeq(shape, Consumed(t) + 1, Len(shape))

\* A call c = [shape, known, index, ...] is well formed.
RefValid(c) ==
    LET t == c.index IN
    /\ \A k \in DOMAIN t : t[k].kind # "none"
    /\ EllipsisCount(t) <= 1
    /\ EllipsisCount(t) = 1 => c.known
    /\ c.known => Consumed(t) <= Len(c.shape)
    /\ c.known => MasksFit(c.shape, Expanded(t, Len(c.shape)))

\* The stricter rule of the array library: every boolean mask, of any
\* ndim, has exactly the shape of the dims it covers.  The lowering
\* checks this only for masks of ndim > 1 and leaves a 1-d mask of the
\* wrong length to the cond_take that consumes it.
NumpyValid(c) ==
    /\ RefValid(c)
    /\ c.known => \A k \in DOMAIN Expanded(c.index, Len(c.shape)) :
                    LET t == Expanded(c.index, Len(c.shape))
                    IN  t[k].kind = "mask" => Group(c.shape, t, k) = t[k].shape

RefItem(e, axis) ==
    IF e.kind = "slice"
    THEN <<axis, e.parts[1], e.parts[2], e.parts[3], FALSE>>
    ELSE <<axis, FALSE, FALSE, FALSE, TRUE>>

\* Per-axis descriptors: entry k drives axis k - 1; full slices give none.
RefItems(t) ==
    FoldLeft(LAMBDA acc, k : IF t[k] = FullSlice THEN acc
                             ELSE Append(acc, RefItem(t[k], k - 1)),
             <<>>, [k \in DOMAIN t |-> k])

\* The index tensors, in order: a constant per Python int, the tensor
\* itself for an integer array, the indices of the true elements of a mask.
RefOperands(e) ==
    CASE e.kind = "slice"  -> [j \in 1..Cardinality({p \in 1..3 : e.parts[p]}) |-> "const"]
      [] e.kind = "int"    -> <<"const">>
      [] e.kind = "intarr" -> <<"tensor">>
      [] e.kind = "mask"   -> <<"cond">>

RefTensors(t) == FlattenSeq([k \in DOMAIN t |-> RefOperands(t[k])])

RefBasic(t) == \A k \in DOMAIN t : t[k].kind \in {"slice", "int"}

RefPlan(c) ==
    LET e == Expanded(c.index, Len(c.shape)) IN
    [shape   |-> IF c.known THEN Collapsed(c.shape, e) ELSE c.shape,
     items   |-> RefItems(e),
     tensors |-> RefTensors(e),
     basic   |-> RefBasic(e)]

\* The outcome of normalizing one call: nothing yet, an IndexError, or a
\* LoweredIndexPlan (spec.md 3).
NoPlan     == [shape |-> <<>>, items |-> <<>>, tensors |-> <<>>, basic |-> FALSE]
Pending    == [status |-> "pending", plan |-> NoPlan]
IndexError == [status |-> "IndexError", plan |-> NoPlan]
Planned(p) == [status |-> "planned", plan |-> p]
=============================================================================
