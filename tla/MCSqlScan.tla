----------------------------- MODULE MCSqlScan -----------------------------
(* SqlScan with three values, files of up to MaxStripes stripes of up to two *)
(* rows, single filters and ranges.                                          *)
EXTENDS SqlScan

CONSTANT MaxStripes

MCValue == 0..2
MCExact == [v \in MCValue |-> v]
MCText == [v \in MCValue |-> <<1, 2, 0>>[v + 1]]
MCH1 == [v \in MCValue |-> 7 * v]
MCH2 == [v \in MCValue |-> v * v + 1]

MCFiles == SeqOf(SeqOf(MCValue \cup {Null}, 2), MaxStripes) \ {<<>>}

SafeOps == Comparisons \cup {"in", "is_null", "is_not_null"}
MCQueries ==
  {{}} \cup {{q} : q \in Predicate(SafeOps)}
       \cup {{q, r} : q \in Predicate({"ge", "in"}), r \in Predicate({"lt"})}

=============================================================================
