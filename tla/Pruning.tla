------------------------------ MODULE Pruning ------------------------------
(***************************************************************************)
(* Skipping stripes by their footers: HeliumPruningStatistics              *)
(* (src/src/sql/pruning.rs) under DataFusion's PruningPredicate, and       *)
(* stripe_matches_range of the DuckDB extension.                           *)
(*                                                                         *)
(* A predicate is one comparison of a column with literals: "in" is = and  *)
(* IN, "not_in" is <> and NOT IN.  DataFusion is external, modelled from   *)
(* the calls it makes on the statistics.                                   *)
(***************************************************************************)
EXTENDS FooterStats

CONSTANT Null  \* a null row

ASSUME NullAssumption == Null \notin Nat

Comparisons == {"lt", "le", "gt", "ge"}
Predicate(ops) ==
  {q \in [op : ops, lits : SUBSET Value] :
     CASE q.op \in Comparisons -> \E l \in Value : q.lits = {l}
       [] q.op \in {"in", "not_in"} -> q.lits # {}
       [] OTHER -> q.lits = {}}

\* SQL: a null row satisfies IS NULL only.
Matches(row, q) ==
  CASE q.op = "is_null" -> row = Null
    [] q.op = "is_not_null" -> row # Null
    [] OTHER ->
       /\ row # Null
       /\ CASE q.op = "in" -> row \in q.lits
            [] q.op = "not_in" -> row \notin q.lits
            [] q.op = "lt" -> \A l \in q.lits : row < l
            [] q.op = "le" -> \A l \in q.lits : row <= l
            [] q.op = "gt" -> \A l \in q.lits : row > l
            [] q.op = "ge" -> \A l \in q.lits : row >= l

-----------------------------------------------------------------------------
(* HeliumPruningStatistics *)

\* min_max_to_scalar: the bounds of a binary column are not shown.
ScalarMin(footer) == IF footer.binary THEN None ELSE footer.min
ScalarMax(footer) == IF footer.binary THEN None ELSE footer.max

\* contained: None when nothing is known, otherwise whether the stripe might
\* contain one of the literals.  Literals that scalar_to_min_max_value has no
\* form for, all those of a binary column, are dropped; anyFilter says that some
\* stripe of the column has a filter.
Contained(footer, anyFilter, lits) ==
  LET keys == IF footer.binary THEN {} ELSE lits \cap Finite
  IN IF keys = {} \/ ~anyFilter THEN None
     ELSE IF footer.filter = None THEN TRUE
     ELSE \E v \in keys : MightContain(footer.filter, v)

-----------------------------------------------------------------------------
(* DataFusion's PruningPredicate::prune *)

\* Literal guarantees: In keeps what may contain a literal, NotIn drops what
\* contains nothing but literals, both by the answer of contained.
GuaranteeAllows(footer, anyFilter, q) ==
  LET answer == Contained(footer, anyFilter, q.lits)
  IN CASE q.op = "in" -> answer \in {None, TRUE}
       [] q.op = "not_in" -> answer \in {None, FALSE}
       [] OTHER -> TRUE

\* The min/max predicate; an absent statistic decides nothing.
RangeAllows(footer, q) ==
  LET min == ScalarMin(footer)
      max == ScalarMax(footer)
      AboveMin(l) == min = None \/ min <= l
      BelowMax(l) == max = None \/ l <= max
  IN CASE q.op = "in" -> \E l \in q.lits : AboveMin(l) /\ BelowMax(l)
       [] q.op = "not_in" -> \A l \in q.lits : min # l \/ max # l
       [] q.op = "lt" -> \A l \in q.lits : AboveMin(l) /\ min # l
       [] q.op = "le" -> \A l \in q.lits : AboveMin(l)
       [] q.op = "gt" -> \A l \in q.lits : BelowMax(l) /\ max # l
       [] q.op = "ge" -> \A l \in q.lits : BelowMax(l)
       [] OTHER -> TRUE

NullCountAllows(footer, q) ==
  \/ footer.null_count = None
  \/ IF q.op = "is_null" THEN footer.null_count > 0
     ELSE footer.null_count # footer.row_count

Keeps(footer, anyFilter, q) ==
  /\ GuaranteeAllows(footer, anyFilter, q)
  /\ RangeAllows(footer, q)
  /\ NullCountAllows(footer, q)

-----------------------------------------------------------------------------
(* stripe_matches_range of the DuckDB extension, for one literal *)

\* The literal as the MinMaxValue it is compared as.
Literal(footer, l) == IF footer.binary THEN Text[l] ELSE l

\* Mutant: the bounds are taken for exclusive.
StripeMatchesInside(footer, op, l) ==
  LET literal == Literal(footer, l)
  IN \/ footer.min = None \/ footer.max = None
     \/ CASE op = "in" -> footer.min < literal /\ literal < footer.max
          [] op \in {"lt", "le"} -> footer.min < literal
          [] op \in {"gt", "ge"} -> footer.max > literal

\* Texts are compared with texts, in their own order.
StripeMatchesRange(footer, op, l) ==
  LET literal == Literal(footer, l)
  IN \/ footer.min = None \/ footer.max = None
     \/ CASE op = "in" -> footer.min <= literal /\ literal <= footer.max
          [] op = "lt" -> footer.min < literal
          [] op = "le" -> footer.min <= literal
          [] op = "gt" -> footer.max > literal
          [] op = "ge" -> footer.max >= literal

=============================================================================
