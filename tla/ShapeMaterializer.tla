--------------------------- MODULE ShapeMaterializer ---------------------------
(***************************************************************************)
(* _make_shape_tuple of imperative/python/src/tensor.cpp, and the          *)
(* Shape Materializer of spec.md 4.2 it implements.                        *)
(*                                                                         *)
(* A Python object is a record [t, v, vs, es]:                             *)
(*   t = "int"     an exact int that fits a C long, of value v;            *)
(*   t = "big"     an int beyond the range of a C long (v stands for it);  *)
(*   t = "float"   a float whose integral part is v;                       *)
(*   t = "none"    None;  t = "str" / "strx": a string other than / "x";   *)
(*   t = "tensor"  a Tensor or SymbolVar of rank v whose numpy() value is  *)
(*                 vs (one element for a 0-d tensor);                      *)
(*   t = "list" / "tuple"  a Python sequence of the objects es.            *)
(* PyLong_AsLong is the conversion of the Python build: from Python 3.10   *)
(* a float raises TypeError; before it, the float is truncated through     *)
(* __int__.  Either way an error leaves -1 as the result and the           *)
(* exception pending; _make_shape_tuple never tests for it.                *)
(***************************************************************************)
EXTENDS Integers, Sequences, SequencesExt

PyObj(t, v, vs, es) == [t |-> t, v |-> v, vs |-> vs, es |-> es]
PyInt(n)            == PyObj("int", n, <<>>, <<>>)
PyNone              == PyObj("none", 0, <<>>, <<>>)

\* PyList_Check or PyTuple_Check.
IsSeq(o) == o.t \in {"list", "tuple"}

\* PyLong_AsLong(o) as [val, err]: err is the exception it leaves set.
PyLongAsLong(o, build) ==
    CASE o.t = "int"                     -> [val |-> o.v, err |-> "none"]
      [] o.t = "big"                     -> [val |-> -1, err |-> "OverflowError"]
      [] o.t = "float" /\ build = "py37" -> [val |-> o.v, err |-> "none"]
      [] OTHER                           -> [val |-> -1, err |-> "TypeError"]

\* solve_one: a tensor is read back through numpy(); a list result is
\* spliced in, a 0-d result converted by PyLong_AsLong (its one element).
SolveOneAsScalar(o, build) ==
    IF o.t = "tensor"
    THEN [vals |-> <<o.vs[1]>>, err |-> "none"]
    ELSE LET r == PyLongAsLong(o, build)
         IN  [vals |-> <<r.val>>, err |-> r.err]
SolveOne(o, build) ==
    IF o.t = "tensor"
    THEN [vals |-> o.vs, err |-> "none"]
    ELSE LET r == PyLongAsLong(o, build)
         IN  [vals |-> <<r.val>>, err |-> r.err]

\* The entries _make_shape_tuple iterates: the items of a list or tuple,
\* or the object itself.
ShapeEntries(shape) == IF IsSeq(shape) THEN shape.es ELSE <<shape>>

\* _make_shape_tuple: the appended values, and the exception the last
\* failed conversion left pending ("none" if none failed).
MakeShapeTuple(shape, build) ==
    FoldLeft(LAMBDA acc, o :
                 LET s == SolveOne(o, build)
                 IN  [vals |-> acc.vals \o s.vals,
                      err  |-> IF s.err = "none" THEN acc.err ELSE s.err],
             [vals |-> <<>>, err |-> "none"], ShapeEntries(shape))

-----------------------------------------------------------------------------
(* spec.md 4.2, written from its text: a sequence of integers and tensor   *)
(* handles becomes the flat sequence of their values, a rank >= 1 tensor   *)
(* spliced in place; any other entry is a TypeMismatch.                    *)

TypeMismatch == "TypeMismatch"

RECURSIVE RefDims(_)
RefDims(es) ==
    IF es = <<>> THEN <<>>
    ELSE LET o == Head(es)
             d == IF o.t = "tensor" THEN o.vs ELSE <<o.v>>
         IN  d \o RefDims(Tail(es))

RefShapeTuple(shape) ==
    LET es == ShapeEntries(shape)
    IN  IF \E k \in DOMAIN es : es[k].t \notin {"int", "big", "tensor"}
        THEN TypeMismatch
        ELSE RefDims(es)
=============================================================================
