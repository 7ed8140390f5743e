----------------------------- MODULE MCShapeOps -----------------------------
(* Bounds for checking ShapeOps.  Inputs have rank <= 3 with dims 1 or 2,  *)
(* which gives squeeze an axis of size 1 on either side of another; a     *)
(* shape argument has one or two entries, given as separate arguments or  *)
(* as one tuple, among them -1, a negative other than -1, an int beyond a *)
(* C long, a float, None and a 0-d or 1-d tensor.                         *)
EXTENDS ShapeOps

MCBig    == PyObj("big", 99, <<>>, <<>>)
MCFloat  == PyObj("float", 2, <<>>, <<>>)
MCTensor == PyObj("tensor", 1, <<1, 2>>, <<>>)
MCScalarTensor == PyObj("tensor", 0, <<2>>, <<>>)
MCList(es)  == PyObj("list", 0, <<>>, es)
MCTuple(es) == PyObj("tuple", 0, <<>>, es)
MCStrX   == PyObj("strx", 0, <<>>, <<>>)
MCStr    == PyObj("str", 0, <<>>, <<>>)

MCInputs ==
    [tensor : BOOLEAN, known : {TRUE}, shape : {<<>>, <<2>>, <<1, 2>>, <<1, 2, 1>>}]
    \cup [tensor : BOOLEAN, known : {FALSE}, shape : {<<>>}]

\* Argument tuples over the objects O: one or two arguments, or one tuple.
MCArgs(O) ==
    {<<a>> : a \in O} \cup {<<a, b>> : a, b \in O} \cup {<<MCTuple(<<a, b>>)>> : a, b \in O}

MCCall(fn, inputs, args, axes, builds) ==
    [fn : {fn}, inp : inputs, args : args, axis : axes, build : builds, trace : BOOLEAN]

MCCalls(builds, bt) ==
    MCCall("reshape", MCInputs,
           MCArgs({PyInt(-1), PyInt(2), PyInt(-2), MCBig, MCFloat, MCTensor}),
           {PyNone}, builds)
    \cup MCCall("broadcast", MCInputs,
           MCArgs({PyNone, PyInt(2), PyInt(-1), MCBig, MCFloat, bt}),
           {PyNone}, builds)
    \cup MCCall("split", {x \in MCInputs : x.known},
           {<<PyInt(0)>>, <<PyInt(1)>>, <<PyInt(3)>>, <<MCList(<<PyInt(1)>>)>>,
            <<MCList(<<PyInt(2), PyInt(1)>>)>>, <<MCList(<<PyInt(1), PyInt(1)>>)>>},
           {PyInt(-3), PyInt(-1), PyInt(0), PyInt(1), PyInt(2)}, builds)
    \cup MCCall("expand_dims", MCInputs, {<<>>},
           {PyInt(0), PyInt(-1), PyInt(3), PyInt(-4), MCList(<<>>),
            MCList(<<PyInt(0), PyInt(-1)>>), MCList(<<PyInt(1), PyInt(0)>>)}, builds)
    \cup MCCall("squeeze", MCInputs, {<<>>},
           {PyNone, PyInt(0), PyInt(-1), MCList(<<PyInt(0), PyInt(-1)>>),
            MCList(<<PyInt(2), PyInt(0)>>), MCList(<<PyInt(0), PyInt(0)>>)}, builds)
    \cup MCCall("transpose", {x \in MCInputs : x.tensor \/ x.known},
           {<<>>, <<PyInt(0)>>, <<PyInt(1), PyInt(0)>>, <<MCStrX, PyInt(0)>>,
            <<MCStr, PyInt(0)>>, <<MCTensor>>, <<MCFloat>>},
           {PyNone}, builds)

\* Broadcast shapes hold a 0-d tensor, or a 1-d one that adds a dim.
MCCalls310 == MCCalls({"py310"}, MCScalarTensor)
MCCallsBuilds == MCCalls({"py37", "py310"}, MCScalarTensor)
MCCallsSplice == MCCalls({"py310"}, MCTensor)
MCGarbageNdims == {0, 7}
=============================================================================
