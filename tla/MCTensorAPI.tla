---------------------------- MODULE MCTensorAPI ----------------------------
(* Bounds for checking TensorAPI: the bounds of MCSubscript for the        *)
(* subscript entry and the shape-op calls of MCShapeOps for the other.     *)
EXTENDS TensorAPI

MCShp == INSTANCE MCShapeOps WITH Calls <- {}, GarbageNdims <- {},
                                  call <- ocall, pc <- opc, i <- oi, ops <- oops

MCSliceKinds   == {<<FALSE, FALSE, FALSE>>, <<TRUE, FALSE, FALSE>>, <<TRUE, TRUE, TRUE>>}
MCValueShapes  == {<<>>, <<1>>, <<2>>, <<1, 2>>, <<2, 1>>, <<2, 2>>}
MCRegionShapes == {<<2>>, <<1, 2>>, <<2, 1>>, <<2, 2>>}
MCShapeCalls   == MCShp!MCCalls310
MCGarbageNdims == {0, 7}
=============================================================================
