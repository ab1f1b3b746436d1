------------------------------ MODULE SqlScan ------------------------------
(***************************************************************************)
(* A .he file as a DataFusion table (src/src/sql): HeliumTableProvider     *)
(* reads the footers once; scan() decides which stripes a query needs;     *)
(* HeliumExec reads one stripe for each partition, in any order.           *)
(*                                                                         *)
(* The table has one column.  DataFusion is external: it passes the        *)
(* filters of a query to scan() and evaluates them again on the batches;   *)
(* it passes a limit only without filters (they are Inexact), asks for no  *)
(* column only to count rows, also without filters, and answers COUNT, MIN *)
(* and MAX from statistics that are Exact.                                 *)
(***************************************************************************)
EXTENDS Pruning, FiniteSetsExt, SequencesExt

CONSTANTS
  Files,    \* the files: sequences of stripes, each a sequence of values and Null
  Stats,    \* subset of BOOLEAN: writers with statistics, without them
  Filters,  \* subset of BOOLEAN: writers with filters, without them
  Queries,  \* sets of filters, all of them to be satisfied
  Limits    \* limits a query may have

\* A finished file has a stripe.
ASSUME TableAssumption ==
  /\ Files \subseteq Seq(Seq(Value \cup {Null})) \ {<<>>}
  /\ Stats \subseteq BOOLEAN /\ Filters \subseteq BOOLEAN
  /\ Limits \subseteq Nat \ {0}

VARIABLES
  file,      \* the stripes of the file
  column,    \* is the column Binary, is it Nullable, did its writer keep
             \* statistics, filters
  provider,  \* HeliumTableProvider, or None
  exec,      \* HeliumExec, the plan of the query, or None
  batches    \* [partition -> rows of its batch, or None before it is executed]

vars == <<file, column, provider, exec, batches>>

Stripes == 1..Len(file)

HasNull(f) == \E s \in 1..Len(f) : Null \in ToSet(f[s])

Init ==
  /\ file \in Files
  /\ column \in [binary : BOOLEAN, nullable : BOOLEAN, stats : Stats, filters : Filters]
  /\ HasNull(file) => column.nullable
  /\ provider = None
  /\ exec = None
  /\ batches = [s \in Stripes |-> None]

-----------------------------------------------------------------------------
(* HeliumTableProvider::try_new *)

\* The footer the writer made of the rows of a stripe.
PassOf(rows) ==
  FoldLeft(LAMBDA p, r : IF r = Null THEN PassNull(p) ELSE PassValue(p, r),
           EmptyPass, rows)
FooterOf(rows) == Footer(PassOf(rows), column)

Total(counts) == FoldLeft(LAMBDA total, count : total + count, 0, counts)

\* Mutant: each stripe's null count replaces the one before.
LastNullCount(footers) == footers[Len(footers)].null_count

NullCount(footers) == Total([s \in 1..Len(footers) |-> footers[s].null_count])

\* build_column_statistics: Exact when every stripe has a minimum and a maximum
\* that are scalars, otherwise Absent, the null count included.
ColumnStatistics(footers) ==
  LET mins == {ScalarMin(footers[s]) : s \in 1..Len(footers)}
      maxes == {ScalarMax(footers[s]) : s \in 1..Len(footers)}
      nulls == {footers[s].null_count : s \in 1..Len(footers)}
  IN IF None \in mins \cup maxes
     THEN [min_value |-> None, max_value |-> None, null_count |-> None]
     ELSE [min_value |-> Min(mins), max_value |-> Max(maxes),
           null_count |-> IF None \in nulls THEN None ELSE NullCount(footers)]

Statistics(footers) ==
  [num_rows |-> Total([s \in 1..Len(footers) |-> footers[s].row_count]),
   column_statistics |-> ColumnStatistics(footers)]

TryNew ==
  /\ provider = None
  /\ LET footers == [s \in Stripes |-> FooterOf(file[s])]
     IN provider' = [footers |-> footers,
                     stripe_row_counts |-> [s \in Stripes |-> footers[s].row_count],
                     statistics |-> Statistics(footers)]
  /\ UNCHANGED <<file, column, exec, batches>>

-----------------------------------------------------------------------------
(* scan() *)

AnyFilter == \E s \in Stripes : provider.footers[s].filter # None

\* A stripe is kept when no filter prunes it.
Kept(filters) ==
  {s \in Stripes : \A q \in filters : Keeps(provider.footers[s], AnyFilter, q)}

Scan(filters, limit, columns) ==
  /\ provider # None /\ exec = None
  /\ filters # {} => limit = None /\ columns = 1
  /\ exec' = [filters |-> filters, limit |-> limit, columns |-> columns,
              keep_stripes |-> Kept(filters)]
  /\ UNCHANGED <<file, column, provider, batches>>

-----------------------------------------------------------------------------
(* HeliumExec::execute *)

\* Mutant: the partitions share the limit.
SharedLimit(rows) ==
  IF exec.limit = None THEN rows
  ELSE SubSeq(rows, 1, AtMost(CeilDiv(exec.limit, Len(file) + 1), Len(rows)))

Limited(rows) ==
  IF exec.limit = None THEN rows ELSE SubSeq(rows, 1, AtMost(exec.limit, Len(rows)))

\* read_stripe_batch; without columns, as many empty rows as the provider
\* remembers.
StripeBatch(s) ==
  Limited(IF exec.columns = 0 THEN [r \in 1..provider.stripe_row_counts[s] |-> Null]
          ELSE file[s])

\* Mutant: the partition before the pruned one is left out.
ExecuteShifted(s) ==
  /\ exec # None
  /\ batches[s] = None
  /\ batches' = [batches EXCEPT ![s] =
       IF exec.keep_stripes = Stripes \/ (s + 1) \in exec.keep_stripes
       THEN StripeBatch(s) ELSE <<>>]
  /\ UNCHANGED <<file, column, provider, exec>>

\* A pruned partition gives an empty batch.
Execute(s) ==
  /\ exec # None
  /\ batches[s] = None
  /\ batches' = [batches EXCEPT ![s] =
                   IF s \in exec.keep_stripes THEN StripeBatch(s) ELSE <<>>]
  /\ UNCHANGED <<file, column, provider, exec>>

Next ==
  \/ TryNew
  \/ \E filters \in Queries, limit \in Limits \cup {None}, columns \in 0..1 :
       Scan(filters, limit, columns)
  \/ \E s \in Stripes : Execute(s)

Spec == Init /\ [][Next]_vars

-----------------------------------------------------------------------------

\* The rows that satisfy all the filters.
Satisfies(row) == \A q \in exec.filters : Matches(row, q)
Answer(rows) ==
  FlattenSeq([r \in 1..Len(rows) |-> IF Satisfies(rows[r]) THEN <<rows[r]>> ELSE <<>>])

(* "No rows are ever silently dropped": of every stripe a query gets the    *)
(* rows that satisfy its filters, all of them and in order, although the    *)
(* filters decided one by one, from footers alone, what was not read.       *)
QueryComplete ==
  \A s \in Stripes :
    (batches[s] # None /\ exec.limit = None /\ exec.columns = 1)
      => Answer(batches[s]) = Answer(file[s])

Executed == exec # None /\ \A s \in Stripes : batches[s] # None
TableRows == FlattenSeq(file)

(* Partitions that each stop at the query's limit, not knowing of one       *)
(* another, have together at least as many rows as the query wants; and     *)
(* when it only counts rows it gets the number the file has.                *)
LimitEnough ==
  Executed /\ exec.filters = {} =>
    LET got == Len(FlattenSeq(batches))
    IN IF exec.limit = None THEN got = Len(TableRows)
       ELSE got >= AtMost(exec.limit, Len(TableRows))

(* Statistics that are Exact are the true ones, since DataFusion answers    *)
(* COUNT, MIN and MAX from them without a scan: "exact per-column min/max   *)
(* values enable metadata-only MIN(col) / MAX(col) results".                *)
StatisticsExact ==
  provider # None =>
    LET claimed == provider.statistics.column_statistics
        values == ToSet(TableRows) \ {Null}
    IN /\ provider.statistics.num_rows = Len(TableRows)
       /\ claimed.min_value # None => values # {} /\ claimed.min_value = Min(values)
       /\ claimed.max_value # None => values # {} /\ claimed.max_value = Max(values)
       /\ claimed.null_count # None =>
            claimed.null_count = Cardinality({r \in 1..Len(TableRows) : TableRows[r] = Null})

=============================================================================
