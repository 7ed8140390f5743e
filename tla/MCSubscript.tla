---------------------------- MODULE MCSubscript ----------------------------
(* Bounds for checking Subscript.  Values and gathered regions have rank   *)
(* <= 2 with dims 1 or 2, which is enough for a trailing-dim mismatch, a   *)
(* value of higher rank than its region, and a mismatch in either dim.    *)
EXTENDS Subscript

MCSliceKinds   == {<<FALSE, FALSE, FALSE>>, <<TRUE, FALSE, FALSE>>, <<TRUE, TRUE, TRUE>>}
MCValueShapes  == {<<>>, <<1>>, <<2>>, <<1, 2>>, <<2, 1>>, <<2, 2>>}
MCRegionShapes == {<<2>>, <<1, 2>>, <<2, 1>>, <<2, 2>>}
MCScalarValue  == {<<>>}
MCOneRegion    == {<<2>>}
=============================================================================
