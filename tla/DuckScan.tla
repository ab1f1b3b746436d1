------------------------------ MODULE DuckScan ------------------------------
(***************************************************************************)
(* One read_he('path') scan of the DuckDB extension (src/duckdb/src).      *)
(* DuckDB binds the table function, initialises a scan and then pulls      *)
(* chunks of at most VectorSize rows until one is empty; it is external.   *)
(* The file at the path may be replaced by another one in the meantime: a  *)
(* reader keeps the file it has opened.                                    *)
(*                                                                         *)
(* A file is a sequence of stripes; a stripe gives, for each column, the   *)
(* sequence of its cells: values, Null, or lists of values.                *)
(***************************************************************************)
EXTENDS Naturals, FiniteSetsExt, SequencesExt

CONSTANTS
  Files,        \* the files that may be at the path, all of one schema
  Kind,         \* [column -> "plain", "nullable" or "list"]
  Projections,  \* the sequences of columns a query may ask for
  VectorSize,   \* DuckDB's chunk size, 2048
  MayReplace,   \* may the path get another file during the scan
  Null, Unwritten, None

Column == DOMAIN Kind

\* All the cells of the files, and the elements of the cells that are lists.
CellsOf(columns) ==
  UNION {UNION {ToSet(file[s][c]) : s \in 1..Len(file), c \in columns} : file \in Files}
Cell == CellsOf(Column)
Element == UNION {ToSet(cell) : cell \in CellsOf({c \in Column : Kind[c] = "list"})}

ASSUME VectorAssumption == VectorSize \in Nat \ {0}
ASSUME ReplaceAssumption == MayReplace \in BOOLEAN
ASSUME SchemaAssumption ==
  /\ Column # {} /\ Kind \in [Column -> {"plain", "nullable", "list"}]
  /\ Projections \subseteq Seq(Column)
ASSUME FilesAssumption ==
  \A file \in Files :
    /\ file \in Seq([Column -> Seq(Cell)])
    /\ \A s \in 1..Len(file), c, d \in Column :
         /\ Len(file[s][c]) = Len(file[s][d])
         /\ Kind[c] = "list" => file[s][c] \in Seq(Seq(Element))

VARIABLES
  path,       \* the file at the path
  bind_data,  \* the number of stripes that bind saw, or None
  state,      \* HeInitDataInner, the cursor, or None
  chunk,      \* number of rows of the last chunk, or None
  output,     \* all the rows DuckDB was given
  query       \* "running", "over" or "failed"

vars == <<path, bind_data, state, chunk, output, query>>

\* LogicalColumn, as far as the windows look at it.
DecodedColumn ==
  [kind : {"plain"}, values : Seq(Cell)]
    \cup [kind : {"nullable"}, present : Seq(BOOLEAN), value : Seq(Cell)]
    \cup [kind : {"list"}, offsets : Seq(Nat), values : Seq(Element)]

HeInitDataInner ==
  [reader : Files, projected : Projections, next_stripe : Nat,
   current_columns : Seq(DecodedColumn), row_in_stripe : Nat, stripe_rows : Nat,
   done : BOOLEAN]

ASSUME NoneAssumption == None \notin Nat /\ None \notin HeInitDataInner

TypeOK ==
  /\ path \in Files
  /\ bind_data \in Nat \cup {None}
  /\ state \in HeInitDataInner \cup {None}
  /\ state # None => state.row_in_stripe <= state.stripe_rows
  /\ chunk \in 0..VectorSize \cup {None}
  /\ query \in {"running", "over", "failed"}

Init ==
  /\ path \in Files
  /\ bind_data = None
  /\ state = None
  /\ chunk = None
  /\ output = <<>>
  /\ query = "running"

-----------------------------------------------------------------------------
(* Decoded columns, as read_column_at_stripe gives them *)

Rows(stripe) == Len(stripe[CHOOSE c \in Column : TRUE])

Present(cells) == [i \in 1..Len(cells) |-> cells[i] # Null]
Compacted(cells) ==
  FlattenSeq([i \in 1..Len(cells) |-> IF cells[i] = Null THEN <<>> ELSE <<cells[i]>>])
Offsets(cells) ==
  [i \in 1..(Len(cells) + 1) |-> Len(FlattenSeq(SubSeq(cells, 1, i - 1)))]

LogicalColumn(kind, cells) ==
  CASE kind = "plain" -> [kind |-> kind, values |-> cells]
    [] kind = "nullable" ->
         [kind |-> kind, present |-> Present(cells), value |-> Compacted(cells)]
    [] kind = "list" ->
         [kind |-> kind, offsets |-> Offsets(cells), values |-> FlattenSeq(cells)]

-----------------------------------------------------------------------------
(* write_column_window: the cells DuckDB reads back for the rows            *)
(* row_start + 1 .. row_start + n of a stripe                               *)

WritePlain(column, row_start, n) ==
  [i \in 1..n |-> column.values[row_start + i]]

PresentIn(column, first, last) ==
  Cardinality({i \in first..last : column.present[i]})

\* Mutant: the compacted index starts over with every chunk.
WriteNullableFromStart(column, row_start, n) ==
  [i \in 1..n |->
     IF column.present[row_start + i]
     THEN column.value[PresentIn(column, row_start + 1, row_start + i)]
     ELSE Null]

\* write_nullable_compacted: the index into the compacted values starts behind
\* the non-null rows before the window.
WriteNullable(column, row_start, n) ==
  LET compact_start == PresentIn(column, 1, row_start)
  IN [i \in 1..n |->
        IF column.present[row_start + i]
        THEN column.value[compact_start + PresentIn(column, row_start + 1, row_start + i)]
        ELSE Null]

\* write_list_like: the children of the window go to the first slots of the
\* child vector, while each row's entry names its place among all the children
\* of the stripe.  A slot nobody wrote holds whatever it held before.
WriteList(column, row_start, n) ==
  LET child_lo == column.offsets[row_start + 1]
      count == column.offsets[row_start + n + 1] - child_lo
      slot(k) == IF k <= count THEN column.values[child_lo + k] ELSE Unwritten
      lo(i) == column.offsets[row_start + i]
      hi(i) == column.offsets[row_start + i + 1]
  IN [i \in 1..n |-> [k \in 1..(hi(i) - lo(i)) |-> slot(lo(i) + k)]]

WriteWindow(column, row_start, n) ==
  CASE column.kind = "plain" -> WritePlain(column, row_start, n)
    [] column.kind = "nullable" -> WriteNullable(column, row_start, n)
    [] column.kind = "list" -> WriteList(column, row_start, n)

\* The rows of the chunk, one cell for each projected column.
Chunk(columns, row_start, n) ==
  [i \in 1..n |-> [k \in 1..Len(columns) |-> WriteWindow(columns[k], row_start, n)[i]]]

-----------------------------------------------------------------------------
(* HeVTab *)

\* bind opens the file, takes its schema and stripe count, and closes it.
Bind ==
  /\ query = "running"
  /\ bind_data = None
  /\ bind_data' = Len(path)
  /\ UNCHANGED <<path, state, chunk, output, query>>

\* init opens the file again and holds it open.
InitScan(projected) ==
  /\ query = "running"
  /\ bind_data # None /\ state = None
  /\ state' = [reader |-> path, projected |-> projected, next_stripe |-> 0,
               current_columns |-> <<>>, row_in_stripe |-> 0, stripe_rows |-> 0,
               done |-> FALSE]
  /\ UNCHANGED <<path, bind_data, chunk, output, query>>

\* DuckDB asks for another chunk: nothing failed, and it has not seen an empty
\* one.
Pulled == query = "running" /\ state # None

\* Mutant: a stripe is handed out whole.
EmitAll(cursor, row_start) ==
  LET n == cursor.stripe_rows - row_start
  IN /\ state' = [cursor EXCEPT !.row_in_stripe = row_start + n]
     /\ chunk' = n
     /\ output' = output \o Chunk(cursor.current_columns, row_start, n)
     /\ UNCHANGED query

\* Hand out rows of the cursor's stripe from row_start on.
Emit(cursor, row_start) ==
  LET n == Min({cursor.stripe_rows - row_start, VectorSize})
  IN /\ state' = [cursor EXCEPT !.row_in_stripe = row_start + n]
     /\ chunk' = n
     /\ output' = output \o Chunk(cursor.current_columns, row_start, n)
     /\ UNCHANGED query

\* Mutant: the last row is waited for once more.
StripeOverrun == state.row_in_stripe > state.stripe_rows

StripeExhausted == state.row_in_stripe >= state.stripe_rows

\* The stripes that are left, the empty ones included.
AllCandidates == state.next_stripe..(bind_data - 1)

\* Mutant: an empty stripe is handed out like any other.
CandidatesWithEmpty == AllCandidates

\* The stripe to load next: empty ones are passed over.
Candidates ==
  {s \in AllCandidates : s < Len(state.reader) => Rows(state.reader[s + 1]) > 0}

\* read_column_at_stripe fails for a stripe the reader's file does not have.
Loads(s) == s < Len(state.reader)

DecodedColumns(stripe, columns) ==
  [k \in 1..Len(columns) |-> LogicalColumn(Kind[columns[k]], stripe[columns[k]])]

LoadedCursor(s) ==
  LET stripe == state.reader[s + 1]
  IN [state EXCEPT
        !.next_stripe = s + 1,
        !.current_columns = DecodedColumns(stripe, state.projected),
        !.stripe_rows = Rows(stripe)]

\* func, within a stripe.
FuncSameStripe ==
  /\ Pulled
  /\ ~StripeExhausted
  /\ Emit(state, state.row_in_stripe)
  /\ UNCHANGED <<path, bind_data>>

\* func, at the start of a stripe.
FuncNextStripe ==
  /\ Pulled
  /\ StripeExhausted
  /\ Candidates # {}
  /\ LET s == Min(Candidates) IN Loads(s) /\ Emit(LoadedCursor(s), 0)
  /\ UNCHANGED <<path, bind_data>>

\* func, with an error: the stripe to load is missing from the reader's file.
\* The cursor has moved on, but DuckDB gives up the query.
FailAt(s) ==
  /\ query' = "failed"
  /\ state' = [state EXCEPT !.next_stripe = s + 1]
  /\ UNCHANGED <<path, bind_data, chunk, output>>

FuncMissing ==
  /\ Pulled
  /\ StripeExhausted
  /\ Candidates # {}
  /\ ~Loads(Min(Candidates))
  /\ FailAt(Min(Candidates))

\* A column cannot be read or fails its CRC, be it in an empty stripe.
ReadFails ==
  /\ Pulled
  /\ StripeExhausted
  /\ state.projected # <<>>
  /\ \E s \in AllCandidates :
       /\ Loads(s) /\ \A earlier \in Candidates : s <= earlier
       /\ FailAt(s)

\* func, past the last stripe: an empty chunk, which ends the query.
FuncDone ==
  /\ Pulled
  /\ StripeExhausted
  /\ Candidates = {}
  /\ state' = [state EXCEPT !.done = TRUE, !.next_stripe = bind_data]
  /\ chunk' = 0
  /\ query' = "over"
  /\ UNCHANGED <<path, bind_data, output>>

Func == FuncSameStripe \/ FuncNextStripe \/ FuncMissing \/ FuncDone

\* Somebody else puts another file at the path.
Replace ==
  /\ MayReplace
  /\ query = "running"
  /\ path' \in Files \ {path}
  /\ UNCHANGED <<bind_data, state, chunk, output, query>>

InitAny == \E projected \in Projections : InitScan(projected)

Next == Bind \/ InitAny \/ Func \/ ReadFails \/ Replace

Spec == Init /\ [][Next]_vars

\* DuckDB runs the query to its end.
FairSpec == Spec /\ WF_vars(Bind \/ InitAny \/ Func)

-----------------------------------------------------------------------------

\* The rows of a file, stripe for stripe, with the cells of the given columns.
StripeRows(file, columns) ==
  [s \in 1..Len(file) |->
    [r \in 1..Rows(file[s]) |-> [k \in 1..Len(columns) |-> file[s][columns[k]][r]]]]
TableRows(file, columns) == FlattenSeq(StripeRows(file, columns))

(* DuckDB gets the rows of the file the scan has open, in order, each of    *)
(* them once and with its own cells, across the boundaries of chunks and of *)
(* stripes and whatever happens to the path: never a mixture of two files.  *)
RowsFaithful ==
  state # None => IsPrefix(output, TableRows(state.reader, state.projected))

(* An empty chunk ends a query in DuckDB, so it is only given when every    *)
(* row was of every stripe that bind counted: empty stripes may lie between *)
(* others.  A file of fewer stripes that came after bind ends in an error,  *)
(* never in an empty chunk.                                                 *)
EmptyChunkIsEnd ==
  chunk = 0 =>
    /\ bind_data <= Len(state.reader)
    /\ Len(output) = Len(TableRows(SubSeq(state.reader, 1, bind_data), <<>>))

(* Every scan comes to its end: the cursor never stands still.              *)
ScanEnds == <>(query \in {"over", "failed"})

=============================================================================
