--------------------------- MODULE MCHeliumWriter ---------------------------
(* HeliumWriter on a schema of two columns, one of them with two leaves, and *)
(* values of different row counts and encoded sizes.                         *)
EXTENDS HeliumWriter

CONSTANTS a, b, v1, v2, w1

MCColumns == <<a, b>>
MCNLeaves == [c \in {a, b} |-> IF c = a THEN 1 ELSE 2]
MCValue == {v1, v2, w1}
MCRowsOf == [v \in MCValue |-> IF v = v2 THEN 2 ELSE 1]
MCEncLen == [v \in MCValue |-> IF v = v1 THEN 1 ELSE 2]
MCFits == (({a, b} \X MCValue) \ {<<a, w1>>})

=============================================================================
