----------------------------- MODULE MCPromotion -----------------------------
(* Numpy dtypes of every kind, two devices, and one operand of each kind   *)
(* that the promotion functions tell apart.                                *)
EXTENDS Promotion

MCDTypes == {"bool", "int8", "uint8", "int16", "int32", "float16", "float32", "complex64"}

MCKindOf == [d \in MCDTypes |->
                CASE d = "bool"                        -> "b"
                  [] d \in {"int8", "int16", "int32"}  -> "i"
                  [] d = "uint8"                       -> "u"
                  [] d \in {"float16", "float32"}      -> "f"
                  [] d = "complex64"                   -> "c"]

Bits == [bool |-> 1, int8 |-> 8, uint8 |-> 8, int16 |-> 16, int32 |-> 32,
         float16 |-> 16, float32 |-> 32, complex64 |-> 64]

\* numpy's rule within a kind (the wider type) and between signed and
\* unsigned integers (the signed type if it is wider, else the signed type
\* of twice the unsigned width).  Across categories the code never asks.
MCPromoteTypes(a, b) ==
    CASE MCKindOf[a] = MCKindOf[b] -> IF Bits[a] >= Bits[b] THEN a ELSE b
      [] {MCKindOf[a], MCKindOf[b]} = {"i", "u"} ->
            LET s == IF MCKindOf[a] = "i" THEN a ELSE b
                u == IF MCKindOf[a] = "u" THEN a ELSE b
            IN  IF Bits[s] > Bits[u] THEN s ELSE "int16"
      [] OTHER -> "complex64"

MCDevices == {"xpu0", "xpu1"}

Op(c, d, v) == [cls |-> c, dtype |-> d, dev |-> v]

MCOperands ==
    { Op("none", "none", "none"), Op("other", "none", "none"),
      Op("tensor", "int8", "xpu0"), Op("tensor", "float16", "xpu1"),
      Op("tensor", "complex64", "xpu0"), Op("symvar", "int32", "xpu0"),
      Op("ndarray", "uint8", "none"),
      Op("pyscalar", "bool", "none"), Op("pyscalar", "int32", "none"),
      Op("pyscalar", "float32", "none") }
=============================================================================
