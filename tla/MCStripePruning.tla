-------------------------- MODULE MCStripePruning --------------------------
(* StripePruning with five values and Bloom filters of up to MaxBits bits.   *)
EXTENDS StripePruning

MCValue == 0..4
MCFinite == 1..3             \* 0 is -inf, 4 is +inf
MCExact == [v \in MCValue |-> v]
\* The blobs 00, 68, D0, F8 and FC: texts that start with A, a, 0, + and /.
MCText == [v \in MCValue |-> <<3, 4, 2, 0, 1>>[v + 1]]
MCCut == [v \in MCValue |-> IF v \in {2, 4} THEN v - 1 ELSE v]
MCH1 == [v \in MCValue |-> 7 * v]
MCH2 == [v \in MCValue |-> v * v + 1]
AllOps == Comparisons \cup {"in", "not_in", "is_null", "is_not_null"}
SafeOps == AllOps \ {"not_in"}

=============================================================================
