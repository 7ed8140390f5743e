------------------------- MODULE MCIndexNormalizer -------------------------
(* Bounds for checking IndexNormalizer: tensors of rank <= 3 with dims 1   *)
(* or 2 (a dim of 1 lets a wrong reshape keep the element count), index    *)
(* tuples of up to 3 entries, masks of rank <= 2, and slices that are full, *)
(* start-only or fully given.  The refinement is checked for the indexes  *)
(* in which no 1-d mask precedes a mask of ndim > 1; the others are the    *)
(* normalizer_vector_mask run.                                             *)
EXTENDS IndexNormalizer

MCSliceKinds == {<<FALSE, FALSE, FALSE>>, <<TRUE, FALSE, FALSE>>, <<TRUE, TRUE, TRUE>>}

MCWellOrderedCalls == {c \in AllCalls : ~VectorMaskBeforeMultiMask(c.index)}
=============================================================================
