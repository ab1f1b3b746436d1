--------------------------- MODULE StripePruning ---------------------------
(***************************************************************************)
(* One column of one stripe is written row by row, and later its footer    *)
(* decides whether queries skip the stripe.                                *)
(***************************************************************************)
EXTENDS Pruning

CONSTANTS
  Ops,      \* the operators of the queries
  Stats,    \* subset of BOOLEAN: writers with statistics, without them
  Filters,  \* subset of BOOLEAN: writers with filters, without them
  MaxRows   \* bound on the rows of the stripe

ASSUME WriterAssumption ==
  Stats \subseteq BOOLEAN /\ Filters \subseteq BOOLEAN /\ MaxRows \in Nat

VARIABLES
  seen,      \* the rows written so far
  column,    \* is the column Binary, is it Nullable, does its writer have
             \* statistics (with_stats_disabled), filters (with_filters_disabled)
  pass,      \* statistics so far
  footer     \* the column's footer entry, or None while the stripe is open

vars == <<seen, column, pass, footer>>

Columns ==
  [binary : BOOLEAN, nullable : BOOLEAN, stats : Stats, filters : Filters]

TypeOK ==
  /\ seen \subseteq Value \cup {Null}
  /\ column \in Columns
  /\ pass \in Passes
  /\ footer # None =>
       /\ footer.min \in Nat \cup {None} /\ footer.max \in Nat \cup {None}
       /\ footer.null_count \in Nat \cup {None} /\ footer.row_count \in Nat

Init ==
  /\ seen = {}
  /\ column \in Columns
  /\ pass = EmptyPass
  /\ footer = None

WriteValue(v) ==
  /\ footer = None
  /\ pass.rows < MaxRows
  /\ seen' = seen \cup {v}
  /\ pass' = PassValue(pass, v)
  /\ UNCHANGED <<column, footer>>

WriteNull ==
  /\ footer = None
  /\ column.nullable
  /\ pass.rows < MaxRows
  /\ seen' = seen \cup {Null}
  /\ pass' = PassNull(pass)
  /\ UNCHANGED <<column, footer>>

WriteFooter ==
  /\ footer = None
  /\ footer' = Footer(pass, column)
  /\ UNCHANGED <<seen, column, pass>>

Next == (\E v \in Value : WriteValue(v)) \/ WriteNull \/ WriteFooter

Spec == Init /\ [][Next]_vars

-----------------------------------------------------------------------------

(* A containment filter never denies a value that is in the stripe, whether *)
(* it stayed an exact set or became a Bloom filter on the way.              *)
NoFalseNegatives ==
  footer # None =>
    \A v \in seen \cap Finite :
      footer.filter # None => MightContain(footer.filter, v)

(* A stripe of which some row satisfies a query's predicate is scanned by   *)
(* that query: "stripes that are proven to contain no matching rows are     *)
(* skipped", and no others.  The other stripes of the file may have a       *)
(* filter for the column or not.                                            *)
PruneSound ==
  footer # None =>
    \A q \in Predicate(Ops), others \in {FALSE, column.filters} :
      (\E row \in seen : Matches(row, q))
        => Keeps(footer, footer.filter # None \/ others, q)

\* Blobs and their base64 texts have the same order.
SameOrder(values) ==
  \A v, w \in values : v < w <=> Text[v] < Text[w]

(* The same for the range check of the DuckDB extension: it returns false   *)
(* "only when it can be safely skipped".  Of a binary column this is only   *)
(* true while the texts of its blobs and of the literal are ordered as the  *)
(* blobs are: the bounds are the least and the greatest blob, and what is   *)
(* compared are their texts.                                                *)
RangeSound ==
  footer # None =>
    \A op \in Comparisons \cup {"in"}, l \in Value :
      LET wanted == \E row \in seen : Matches(row, [op |-> op, lits |-> {l}])
          ordered == footer.binary => SameOrder((seen \cap Value) \cup {l})
      IN wanted /\ ordered => StripeMatchesRange(footer, op, l)

=============================================================================
