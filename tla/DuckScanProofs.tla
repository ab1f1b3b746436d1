--------------------------- MODULE DuckScanProofs ---------------------------
(***************************************************************************)
(* What one read_he scan promises, for every set of files, every projection *)
(* and every chunk size.                                                   *)
(***************************************************************************)
EXTENDS DuckScan, SequenceLemmas, FiniteSetTheorems

-----------------------------------------------------------------------------
(* The windows                                                              *)

(* The window of a plain column is the rows themselves.                     *)
LEMMA PlainWindow ==
  ASSUME NEW cells, NEW row_start \in Nat, NEW n \in Nat, NEW i \in 1..n
  PROVE  WriteWindow(LogicalColumn("plain", cells), row_start, n)[i] = cells[row_start + i]
BY DEF WriteWindow, WritePlain, LogicalColumn

\* Each row as the sequence of its values: at most one.
Singles(cells) ==
  [i \in 1..Len(cells) |-> IF cells[i] = Null THEN <<>> ELSE <<cells[i]>>]

(* As many rows of the first k have a value as there are compacted values   *)
(* of them.                                                                 *)
LEMMA CompactedLength ==
  ASSUME NEW T, NEW cells \in Seq(T), NEW k \in 0..Len(cells)
  PROVE  /\ Singles(cells) \in Seq(Seq(T))
         /\ IsFiniteSet({i \in 1..k : cells[i] # Null})
         /\ Cardinality({i \in 1..k : cells[i] # Null}) = Len(Flat(Singles(cells), k))
<1> DEFINE ss == Singles(cells)
           some(m) == {i \in 1..m : cells[i] # Null}
           S == {m \in Nat : m <= Len(cells) =>
                   /\ IsFiniteSet(some(m))
                   /\ Cardinality(some(m)) = Len(Flat(ss, m))}
<1>1. ss \in Seq(Seq(T)) /\ Len(ss) = Len(cells)
  <2>1. ASSUME NEW i \in 1..Len(cells)
        PROVE  (IF cells[i] = Null THEN <<>> ELSE <<cells[i]>>) \in Seq(T)
    OBVIOUS
  <2> QED BY <2>1 DEF Singles
<1>2. 0 \in S
  <2>1. some(0) = {}
    OBVIOUS
  <2>2. Flat(ss, 0) = <<>> /\ Len(<<>>) = 0
    BY <1>1, FlatStep
  <2> HIDE DEF some, ss
  <2> QED BY <2>1, <2>2, FS_EmptySet
<1>3. ASSUME NEW m \in Nat \ {0}, m - 1 \in S PROVE m \in S
  <2> SUFFICES ASSUME m <= Len(cells)
               PROVE  /\ IsFiniteSet(some(m))
                      /\ Cardinality(some(m)) = Len(Flat(ss, m))
    OBVIOUS
  <2>1. IsFiniteSet(some(m - 1)) /\ Cardinality(some(m - 1)) = Len(Flat(ss, m - 1))
    BY <1>3
  <2>2. m \in 1..Len(ss) /\ m - 1 \in 0..Len(ss)
    BY <1>1
  <2>3. Flat(ss, m) = Flat(ss, m - 1) \o ss[m] /\ Flat(ss, m - 1) \in Seq(T)
    BY <1>1, <2>2, FlatStep
  <2>4. CASE cells[m] = Null
    <3>1. some(m) = some(m - 1)
      BY <2>4
    <3>2. ss[m] = <<>>
      BY <2>4 DEF Singles
    <3>3. Flat(ss, m) = Flat(ss, m - 1)
      BY <2>3, <3>2
    <3> HIDE DEF some, ss
    <3> QED BY <2>1, <3>1, <3>3
  <2>5. CASE cells[m] # Null
    <3>1. some(m) = some(m - 1) \cup {m} /\ m \notin some(m - 1)
      BY <2>5
    <3>2. ss[m] = <<cells[m]>> /\ cells[m] \in T
      BY <2>5 DEF Singles
    <3>3. Len(Flat(ss, m)) = Len(Flat(ss, m - 1)) + 1
      BY <2>3, <3>2
    <3> HIDE DEF some, ss
    <3> DEFINE before == some(m - 1)
    <3>4. IsFiniteSet(some(m)) /\ Cardinality(some(m)) = Cardinality(some(m - 1)) + 1
      <4>1. IsFiniteSet(before) /\ m \notin before /\ some(m) = before \cup {m}
        BY <2>1, <3>1
      <4> HIDE DEF before
      <4>2. /\ IsFiniteSet(before \cup {m})
            /\ Cardinality(before \cup {m}) = Cardinality(before) + 1
        BY <4>1, FS_AddElement
      <4> QED BY <4>1, <4>2 DEF before
    <3> QED BY <2>1, <3>3, <3>4
  <2> QED BY <2>4, <2>5
<1>4. k \in S
  <2> HIDE DEF S
  <2> QED BY <1>2, <1>3, SetInduction
<1> QED
  BY <1>1, <1>4

(* The index into the compacted values is right wherever the window starts. *)
LEMMA NullableWindow ==
  ASSUME NEW T, NEW cells \in Seq(T), NEW row_start \in Nat, NEW n \in Nat,
         row_start + n <= Len(cells), NEW i \in 1..n
  PROVE  WriteWindow(LogicalColumn("nullable", cells), row_start, n)[i]
           = cells[row_start + i]
<1> DEFINE column == LogicalColumn("nullable", cells)
           row == row_start + i
           ss == Singles(cells)
           some(first, last) == {j \in first..last : cells[j] # Null}
<1>1. /\ column.kind = "nullable" /\ column.present = Present(cells)
      /\ column.value = FlattenSeq(ss)
  BY DEF LogicalColumn, Compacted, Singles
<1>2. /\ row \in 1..Len(cells) /\ row \in 0..Len(cells)
      /\ row_start \in 0..Len(cells) /\ row - 1 \in 0..Len(cells)
  OBVIOUS
<1>3. ASSUME NEW first \in 1..Len(cells), NEW last \in 0..Len(cells)
      PROVE  PresentIn(column, first, last) = Cardinality(some(first, last))
  <2>1. \A j \in first..last : Present(cells)[j] = (cells[j] # Null)
    BY DEF Present
  <2>2. {j \in first..last : Present(cells)[j]} = some(first, last)
    BY <2>1
  <2> HIDE DEF column
  <2> QED BY <1>1, <2>2 DEF PresentIn
<1>4. WriteWindow(column, row_start, n)[i] =
        IF cells[row] # Null
        THEN column.value[PresentIn(column, 1, row_start)
                            + PresentIn(column, row_start + 1, row)]
        ELSE Null
  <2>1. column.present[row] = (cells[row] # Null)
    BY <1>1, <1>2 DEF Present
  <2> HIDE DEF column
  <2> QED BY <1>1, <2>1 DEF WriteWindow, WriteNullable
<1>5. CASE cells[row] # Null
  <2>1. PresentIn(column, 1, row_start) + PresentIn(column, row_start + 1, row)
          = Cardinality(some(1, row))
    <3>1. some(1, row) = some(1, row_start) \cup some(row_start + 1, row)
      OBVIOUS
    <3>2. some(1, row_start) \cap some(row_start + 1, row) = {}
      OBVIOUS
    <3>3. IsFiniteSet(some(1, row_start))
      BY <1>2, CompactedLength
    <3>4. IsFiniteSet(some(row_start + 1, row))
      <4>1. IsFiniteSet(some(1, row))
        BY <1>2, CompactedLength
      <4> QED BY <3>1, <4>1, FS_Subset
    <3>5. 1 \in 1..Len(cells) /\ row_start + 1 \in 1..Len(cells) /\ row \in 0..Len(cells)
      BY <1>2
    <3>6. /\ PresentIn(column, 1, row_start) = Cardinality(some(1, row_start))
          /\ PresentIn(column, row_start + 1, row) = Cardinality(some(row_start + 1, row))
      BY <1>2, <1>3, <3>5
    <3> DEFINE low == some(1, row_start)
               high == some(row_start + 1, row)
    <3>7. Cardinality(low) + Cardinality(high) = Cardinality(low \cup high)
      <4>1. IsFiniteSet(low) /\ IsFiniteSet(high) /\ low \cap high = {}
        BY <3>2, <3>3, <3>4
      <4> HIDE DEF low, high
      <4>2. Cardinality(low) \in Nat /\ Cardinality(high) \in Nat /\ Cardinality({}) = 0
        BY <4>1, FS_CardinalityType, FS_EmptySet
      <4>3. Cardinality(low \cup high)
              = Cardinality(low) + Cardinality(high) - Cardinality(low \cap high)
        BY <4>1, FS_Union
      <4>4. Cardinality(low \cup high) = Cardinality(low) + Cardinality(high) - 0
        BY <4>1, <4>2, <4>3, Zenon
      <4> QED BY <4>2, <4>4
    <3> HIDE DEF some, row, column
    <3> QED BY <3>1, <3>6, <3>7
  <2>2. Cardinality(some(1, row)) = Len(Flat(ss, row)) /\ ss \in Seq(Seq(T))
    BY <1>2, CompactedLength
  <2>3. Len(ss) = Len(cells) /\ ss[row] = <<cells[row]>> /\ cells[row] \in T
    BY <1>2, <1>5 DEF Singles
  <2>4. Len(Flat(ss, row)) = Len(Flat(ss, row - 1)) + 1
    <3>1. Flat(ss, row) = Flat(ss, row - 1) \o ss[row] /\ Flat(ss, row - 1) \in Seq(T)
      BY <1>2, <2>2, <2>3, FlatStep
    <3> QED BY <2>3, <3>1
  <2>5. FlattenSeq(ss)[Len(Flat(ss, row - 1)) + 1] = cells[row]
    <3>1. row \in 1..Len(ss) /\ 1 \in 1..Len(ss[row]) /\ ss[row][1] = cells[row]
      BY <1>2, <2>3
    <3> HIDE DEF ss, row
    <3> QED BY <2>2, <3>1, FlatAt
  <2> HIDE DEF column, ss, some, row
  <2> QED BY <1>1, <1>4, <1>5, <2>1, <2>2, <2>4, <2>5 DEF row, column
<1>6. CASE cells[row] = Null
  BY <1>4, <1>6
<1> QED
  BY <1>5, <1>6

(* A list column keeps its rows when the window is the whole stripe: then   *)
(* the children start at 0 in both the window and the stripe.               *)
LEMMA ListWindow ==
  ASSUME NEW T, NEW cells \in Seq(Seq(T)), NEW i \in 1..Len(cells)
  PROVE  WriteWindow(LogicalColumn("list", cells), 0, Len(cells))[i] = cells[i]
<1> DEFINE column == LogicalColumn("list", cells)
           n == Len(cells)
           lo == Len(Flat(cells, i - 1))
<1>1. /\ column.kind = "list" /\ column.offsets = Offsets(cells)
      /\ column.values = FlattenSeq(cells)
  BY DEF LogicalColumn
<1>2. ASSUME NEW j \in 0..n PROVE Offsets(cells)[j + 1] = Len(Flat(cells, j))
  BY DEF Offsets, Flat
<1>3. /\ Offsets(cells)[0 + 1] = 0
      /\ Offsets(cells)[0 + n + 1] = Len(FlattenSeq(cells))
      /\ Offsets(cells)[0 + i] = lo
      /\ Offsets(cells)[0 + i + 1] = Len(Flat(cells, i))
  <2>1. 0 \in 0..n /\ n \in 0..n /\ i \in 0..n /\ i - 1 \in 0..n
    OBVIOUS
  <2>2. Flat(cells, 0) = <<>> /\ Flat(cells, n) = FlattenSeq(cells)
    BY FlatStep, FlatWhole
  <2>3. Offsets(cells)[0 + i] = lo
    <3>1. (i - 1) + 1 = 0 + i
      OBVIOUS
    <3> QED BY <1>2, <2>1, <3>1
  <2>4. 0 + n + 1 = n + 1 /\ 0 + i + 1 = i + 1 /\ Len(<<>>) = 0
    OBVIOUS
  <2> HIDE DEF n, lo
  <2> QED BY <1>2, <2>1, <2>2, <2>3, <2>4
<1>4. cells[i] \in Seq(T) /\ Len(Flat(cells, i)) = lo + Len(cells[i]) /\ lo \in Nat
  <2>1. cells[i] \in Seq(T)
    OBVIOUS
  <2>2. i - 1 \in 0..Len(cells)
    OBVIOUS
  <2>3. Flat(cells, i) = Flat(cells, i - 1) \o cells[i] /\ Flat(cells, i - 1) \in Seq(T)
    BY <2>2, FlatStep
  <2> QED BY <2>1, <2>3
<1>5. ASSUME NEW k \in 1..Len(cells[i])
      PROVE  lo + k \in 1..Len(FlattenSeq(cells)) /\ FlattenSeq(cells)[lo + k] = cells[i][k]
  BY FlatAt
<1>6. WriteWindow(column, 0, n) = WriteList(column, 0, n)
  BY <1>1 DEF WriteWindow
<1> DEFINE all == Len(FlattenSeq(cells))
<1>7. WriteWindow(column, 0, n)[i] =
        [k \in 1..(Len(Flat(cells, i)) - lo) |->
           IF lo + k <= all - 0 THEN FlattenSeq(cells)[0 + (lo + k)] ELSE Unwritten]
  <2> HIDE DEF column, lo, all
  <2>1. WriteList(column, 0, n)[i] =
          [k \in 1..(column.offsets[0 + i + 1] - column.offsets[0 + i]) |->
             IF column.offsets[0 + i] + k
                  <= column.offsets[0 + n + 1] - column.offsets[0 + 1]
             THEN column.values[column.offsets[0 + 1] + (column.offsets[0 + i] + k)]
             ELSE Unwritten]
    BY DEF WriteList
  <2> HIDE DEF n
  <2> QED BY <1>1, <1>3, <1>6, <2>1 DEF all
<1>8. Len(Flat(cells, i)) - lo = Len(cells[i]) /\ cells[i] = [k \in 1..Len(cells[i]) |-> cells[i][k]]
  BY <1>4
<1>9. ASSUME NEW k \in 1..Len(cells[i])
      PROVE  (IF lo + k <= all - 0 THEN FlattenSeq(cells)[0 + (lo + k)] ELSE Unwritten)
               = cells[i][k]
  <2>1. FlattenSeq(cells) \in Seq(T)
    <3>1. Len(cells) \in 0..Len(cells)
      OBVIOUS
    <3> QED BY <3>1, FlatStep, FlatWhole
  <2> HIDE DEF lo
  <2>2. all \in Nat /\ lo + k <= all - 0 /\ 0 + (lo + k) = lo + k
    BY <1>4, <1>5, <2>1
  <2> QED BY <1>5, <2>2
<1> HIDE DEF lo, all, column
<1> QED
  BY <1>7, <1>8, <1>9 DEF column

-----------------------------------------------------------------------------
(* Files, stripes and rows                                                  *)

(* What the assumption on the files says of one column of one stripe.       *)
LEMMA StripeFacts ==
  ASSUME NEW file \in Files, NEW s \in 1..Len(file), NEW c \in Column
  PROVE  /\ file[s][c] \in Seq(Cell)
         /\ Rows(file[s]) \in Nat /\ Len(file[s][c]) = Rows(file[s])
         /\ Kind[c] = "list" => file[s][c] \in Seq(Seq(Element))
<1> DEFINE first == CHOOSE d \in Column : TRUE
<1>1. first \in Column
  OBVIOUS
<1>2. file[s] \in [Column -> Seq(Cell)]
  BY FilesAssumption
<1>3. Len(file[s][c]) = Len(file[s][first])
  BY <1>1, FilesAssumption
<1>4. file[s][first] \in Seq(Cell) /\ file[s][c] \in Seq(Cell)
  BY <1>1, <1>2
<1>5. Kind[c] = "list" => file[s][c] \in Seq(Seq(Element))
  BY FilesAssumption
<1>6. Rows(file[s]) = Len(file[s][first])
  BY DEF Rows
<1> HIDE DEF first
<1> QED
  BY <1>3, <1>4, <1>5, <1>6

(* A file has a number of stripes, each with a number of rows.              *)
LEMMA FileFacts ==
  ASSUME NEW file \in Files
  PROVE  Len(file) \in Nat /\ \A s \in 1..Len(file) : Rows(file[s]) \in Nat
<1>1. file \in Seq([Column -> Seq(Cell)])
  BY FilesAssumption
<1>2. \E c : c \in Column
  BY SchemaAssumption
<1> QED
  BY <1>1, <1>2, StripeFacts

(* Reading columns gives logical columns.                                   *)
LEMMA DecodedType ==
  ASSUME NEW file \in Files, NEW s \in 1..Len(file), NEW columns \in Projections
  PROVE  /\ columns \in Seq(Column)
         /\ DecodedColumns(file[s], columns) \in Seq(DecodedColumn)
         /\ Len(DecodedColumns(file[s], columns)) = Len(columns)
<1>1. columns \in Seq(Column)
  BY SchemaAssumption
<1>2. ASSUME NEW c \in Column
      PROVE  LogicalColumn(Kind[c], file[s][c]) \in DecodedColumn
  <2> DEFINE cells == file[s][c]
  <2>1. cells \in Seq(Cell) /\ (Kind[c] = "list" => cells \in Seq(Seq(Element)))
    BY StripeFacts
  <2>2. Kind[c] \in {"plain", "nullable", "list"}
    BY SchemaAssumption
  <2> HIDE DEF cells
  <2>3. CASE Kind[c] = "plain"
    BY <2>1, <2>3 DEF LogicalColumn, DecodedColumn, cells
  <2>4. CASE Kind[c] = "nullable"
    <3>1. Present(cells) \in Seq(BOOLEAN)
      <4>1. \A i \in 1..Len(cells) : (cells[i] # Null) \in BOOLEAN
        OBVIOUS
      <4>2. Len(cells) \in Nat
        BY <2>1
      <4> QED BY <4>1, <4>2 DEF Present
    <3>2. Compacted(cells) \in Seq(Cell)
      <4>1. Len(cells) \in Nat
        BY <2>1
      <4>2. Len(cells) \in 0..Len(cells)
        BY <4>1
      <4>3. Singles(cells) \in Seq(Seq(Cell))
        BY <2>1, <4>2, CompactedLength
      <4>4. FlattenSeq(Singles(cells)) \in Seq(Cell)
        <5>1. Len(Singles(cells)) \in 0..Len(Singles(cells))
          BY <4>3
        <5> QED BY <4>3, <5>1, FlatStep, FlatWhole
      <4> QED BY <4>4 DEF Compacted, Singles
    <3>3. LogicalColumn(Kind[c], cells)
            = [kind |-> "nullable", present |-> Present(cells), value |-> Compacted(cells)]
      BY <2>4 DEF LogicalColumn
    <3> QED BY <3>1, <3>2, <3>3 DEF DecodedColumn, cells
  <2>5. CASE Kind[c] = "list"
    <3>1. cells \in Seq(Seq(Element))
      BY <2>1, <2>5
    <3>2. Offsets(cells) \in Seq(Nat)
      <4>1. Len(cells) \in Nat
        BY <3>1
      <4>2. ASSUME NEW i \in 1..(Len(cells) + 1)
            PROVE  Len(FlattenSeq(SubSeq(cells, 1, i - 1))) \in Nat
        <5>1. i - 1 \in 0..Len(cells)
          BY <4>1
        <5>2. Flat(cells, i - 1) \in Seq(Element)
          BY <3>1, <5>1, FlatStep
        <5> QED BY <5>2 DEF Flat
      <4> QED BY <4>1, <4>2 DEF Offsets
    <3>3. FlattenSeq(cells) \in Seq(Element)
      <4>1. Len(cells) \in 0..Len(cells)
        BY <3>1
      <4> QED BY <3>1, <4>1, FlatStep, FlatWhole
    <3>4. LogicalColumn(Kind[c], cells)
            = [kind |-> "list", offsets |-> Offsets(cells), values |-> FlattenSeq(cells)]
      BY <2>5 DEF LogicalColumn
    <3> QED BY <3>2, <3>3, <3>4 DEF DecodedColumn, cells
  <2> QED BY <2>2, <2>3, <2>4, <2>5 DEF cells
<1>3. Len(columns) \in Nat /\ \A k \in 1..Len(columns) : columns[k] \in Column
  BY <1>1
<1> QED
  BY <1>1, <1>2, <1>3 DEF DecodedColumns

(* The rows of a file, stripe for stripe.                                   *)
LEMMA StripeRowsType ==
  ASSUME NEW file \in Files, NEW columns \in Projections
  PROVE  /\ StripeRows(file, columns) \in Seq(Seq([1..Len(columns) -> Cell]))
         /\ Len(StripeRows(file, columns)) = Len(file)
         /\ \A s \in 1..Len(file) : Len(StripeRows(file, columns)[s]) = Rows(file[s])
<1> DEFINE Row == [1..Len(columns) -> Cell]
           rows(s) == [r \in 1..Rows(file[s]) |->
                         [k \in 1..Len(columns) |-> file[s][columns[k]][r]]]
<1>1. Len(file) \in Nat /\ \A s \in 1..Len(file) : Rows(file[s]) \in Nat
  BY FileFacts
<1>2. ASSUME NEW s \in 1..Len(file)
      PROVE  rows(s) \in Seq(Row) /\ Len(rows(s)) = Rows(file[s])
  <2>1. ASSUME NEW r \in 1..Rows(file[s]), NEW k \in 1..Len(columns)
        PROVE  file[s][columns[k]][r] \in Cell
    <3>1. columns[k] \in Column
      BY SchemaAssumption
    <3>2. file[s][columns[k]] \in Seq(Cell) /\ Len(file[s][columns[k]]) = Rows(file[s])
      BY <3>1, StripeFacts
    <3> QED BY <3>2
  <2> DEFINE count == Rows(file[s])
             row(r) == [k \in 1..Len(columns) |-> file[s][columns[k]][r]]
  <2>2. count \in Nat /\ \A r \in 1..count : row(r) \in Row
    BY <1>1, <2>1
  <2> HIDE DEF count, row, Row
  <2>3. /\ [r \in 1..count |-> row(r)] \in Seq(Row)
        /\ Len([r \in 1..count |-> row(r)]) = count
    BY <2>2
  <2> QED BY <2>3 DEF count, row
<1>3. StripeRows(file, columns) = [s \in 1..Len(file) |-> rows(s)]
  BY DEF StripeRows
<1> HIDE DEF rows, Row
<1>4. /\ StripeRows(file, columns) \in Seq(Seq(Row))
      /\ Len(StripeRows(file, columns)) = Len(file)
      /\ \A s \in 1..Len(file) : StripeRows(file, columns)[s] = rows(s)
  BY <1>1, <1>2, <1>3
<1> QED
  BY <1>2, <1>4 DEF Row

\* Is there a list among the columns.
HasList(columns) == \E k \in 1..Len(columns) : Kind[columns[k]] = "list"

(* A chunk holds the rows of the stripe from row_start on; one with a list  *)
(* does when it is the whole stripe.                                        *)
LEMMA ChunkCells ==
  ASSUME NEW file \in Files, NEW s \in 1..Len(file), NEW columns \in Projections,
         NEW row_start \in Nat, NEW n \in Nat, row_start + n <= Rows(file[s]),
         HasList(columns) => row_start = 0 /\ n = Rows(file[s]),
         NEW i \in 1..n
  PROVE  Chunk(DecodedColumns(file[s], columns), row_start, n)[i]
           = StripeRows(file, columns)[s][row_start + i]
<1> DEFINE decoded == DecodedColumns(file[s], columns)
<1>1. Rows(file[s]) \in Nat
  BY FileFacts
<1>2. ASSUME NEW k \in 1..Len(columns)
      PROVE  WriteWindow(decoded[k], row_start, n)[i] = file[s][columns[k]][row_start + i]
  <2> DEFINE c == columns[k]
             cells == file[s][c]
  <2>1. c \in Column /\ Kind[c] \in {"plain", "nullable", "list"}
    BY SchemaAssumption
  <2>2. decoded[k] = LogicalColumn(Kind[c], cells)
    BY DEF DecodedColumns
  <2>3. /\ cells \in Seq(Cell) /\ Len(cells) = Rows(file[s])
        /\ Kind[c] = "list" => cells \in Seq(Seq(Element))
    BY <2>1, StripeFacts
  <2>4. Kind[c] = "list" => row_start = 0 /\ n = Len(cells)
    BY <2>3 DEF HasList
  <2>5. row_start + n <= Len(cells)
    BY <2>3
  <2> HIDE DEF decoded, c, cells
  <2>6. CASE Kind[c] = "plain"
    <3>1. WriteWindow(LogicalColumn("plain", cells), row_start, n)[i]
            = cells[row_start + i]
      BY PlainWindow
    <3> QED BY <2>2, <2>6, <3>1 DEF c, cells
  <2>7. CASE Kind[c] = "nullable"
    <3>1. WriteWindow(LogicalColumn("nullable", cells), row_start, n)[i]
            = cells[row_start + i]
      BY <2>3, <2>5, NullableWindow
    <3> QED BY <2>2, <2>7, <3>1 DEF c, cells
  <2>8. CASE Kind[c] = "list"
    <3>1. row_start = 0 /\ n = Len(cells) /\ row_start + i = i /\ cells \in Seq(Seq(Element))
      BY <2>3, <2>4, <2>8
    <3>2. WriteWindow(LogicalColumn("list", cells), 0, Len(cells))[i] = cells[i]
      BY <3>1, ListWindow
    <3> QED BY <2>2, <2>8, <3>1, <3>2 DEF c, cells
  <2> QED BY <2>1, <2>6, <2>7, <2>8 DEF cells, c
<1>3. Len(decoded) = Len(columns)
  BY DecodedType
<1>4. Chunk(decoded, row_start, n)[i]
        = [k \in 1..Len(decoded) |-> WriteWindow(decoded[k], row_start, n)[i]]
  <2> HIDE DEF decoded
  <2> QED BY DEF Chunk
<1>5. StripeRows(file, columns)[s][row_start + i]
        = [k \in 1..Len(columns) |-> file[s][columns[k]][row_start + i]]
  <2>1. row_start + i \in 1..Rows(file[s])
    BY <1>1
  <2> QED BY <2>1 DEF StripeRows
<1> HIDE DEF decoded
<1> QED
  BY <1>2, <1>3, <1>4, <1>5 DEF decoded

-----------------------------------------------------------------------------
(* The inductive invariant                                                  *)

\* Nothing was given before the scan, and the end is told once.
Started ==
  /\ state = None => output = <<>> /\ chunk = None /\ query = "running"
  /\ state # None => bind_data \in Nat
  /\ chunk = 0 => query = "over"
  /\ output \in Seq(ToSet(output))

Stripes == StripeRows(state.reader, state.projected)

\* The cursor holds stripe number next_stripe of its file, decoded, and what
\* was given are the stripes before it and its own rows up to row_start.
CursorAt(cursor, row_start) ==
  /\ cursor.next_stripe \in 1..Len(cursor.reader)
  /\ cursor.next_stripe <= bind_data
  /\ LET stripe == cursor.reader[cursor.next_stripe]
     IN /\ cursor.stripe_rows = Rows(stripe)
        /\ cursor.current_columns = DecodedColumns(stripe, cursor.projected)
  /\ Len(output) + (cursor.stripe_rows - row_start)
       = Len(Flat(StripeRows(cursor.reader, cursor.projected), cursor.next_stripe))

\* No stripe was loaded yet.
AtStart ==
  /\ state.next_stripe = 0 /\ state.stripe_rows = 0 /\ state.row_in_stripe = 0
  /\ output = <<>>

Position ==
  state # None /\ query = "running" => AtStart \/ CursorAt(state, state.row_in_stripe)

Ended ==
  query = "over" =>
    /\ state # None
    /\ bind_data <= Len(state.reader)
    /\ Len(output) = Len(Flat(Stripes, bind_data))

Progress == TypeOK /\ Started /\ Position /\ Ended

(* The fewest or the smallest of two numbers.                               *)
LEMMA MinOfTwo ==
  ASSUME NEW a \in Nat, NEW b \in Nat
  PROVE  Min({a, b}) = IF a <= b THEN a ELSE b
<1>1. {a, b} \subseteq Nat /\ {a, b} # {}
  OBVIOUS
<1>2. Min({a, b}) \in {a, b} /\ \A y \in {a, b} : Min({a, b}) <= y
  BY <1>1, MinIs
<1> QED
  BY <1>2

(* One chunk: some rows, as many as fit and no more than the stripe has.    *)
LEMMA EmitFacts ==
  ASSUME Started, NEW cursor \in HeInitDataInner, NEW row_start \in Nat,
         row_start < cursor.stripe_rows, Emit(cursor, row_start)
  PROVE  \E n \in 1..VectorSize :
           /\ row_start + n <= cursor.stripe_rows
           /\ cursor.stripe_rows - row_start <= VectorSize
                => n = cursor.stripe_rows - row_start
           /\ chunk' = n /\ query' = query
           /\ state' = [cursor EXCEPT !.row_in_stripe = row_start + n]
           /\ state' \in HeInitDataInner /\ state' # None
           /\ output' = output \o Chunk(cursor.current_columns, row_start, n)
           /\ output' \in Seq(ToSet(output'))
           /\ Len(output') = Len(output) + n
           /\ \A i \in 1..Len(output) : output'[i] = output[i]
           /\ \A i \in 1..n :
                output'[Len(output) + i] = Chunk(cursor.current_columns, row_start, n)[i]
<1> DEFINE n == Min({cursor.stripe_rows - row_start, VectorSize})
           rows == Chunk(cursor.current_columns, row_start, n)
<1>1. cursor.stripe_rows \in Nat /\ cursor.stripe_rows - row_start \in Nat \ {0}
  BY DEF HeInitDataInner
<1>2. /\ n \in 1..VectorSize /\ row_start + n <= cursor.stripe_rows
      /\ cursor.stripe_rows - row_start <= VectorSize => n = cursor.stripe_rows - row_start
  <2> DEFINE left == cursor.stripe_rows - row_start
  <2>1. left \in Nat \ {0} /\ VectorSize \in Nat \ {0} /\ row_start + left = cursor.stripe_rows
    BY <1>1, VectorAssumption
  <2>2. Min({left, VectorSize}) = IF left <= VectorSize THEN left ELSE VectorSize
    <3> HIDE DEF left
    <3> QED BY <2>1, MinOfTwo
  <2> HIDE DEF left
  <2> QED BY <2>1, <2>2 DEF left
<1>3. /\ state' = [cursor EXCEPT !.row_in_stripe = row_start + n]
      /\ chunk' = n /\ output' = output \o rows /\ query' = query
  BY DEF Emit
<1> HIDE DEF n
<1>4. row_start + n \in Nat
  BY <1>2
<1>5. state' \in HeInitDataInner /\ state' # None
  BY <1>3, <1>4, NoneAssumption DEF HeInitDataInner
<1>6. output \in Seq(ToSet(output)) /\ rows \in Seq(ToSet(rows)) /\ Len(rows) = n
  BY <1>2 DEF Started, Chunk, ToSet
<1>7. /\ output' \in Seq(ToSet(output) \cup ToSet(rows))
      /\ Len(output') = Len(output) + n
      /\ \A i \in 1..Len(output) : output'[i] = output[i]
      /\ \A i \in 1..n : output'[Len(output) + i] = rows[i]
  <2> DEFINE given == ToSet(output)
             more == ToSet(rows)
             before == output
  <2>0. before \in Seq(given) /\ rows \in Seq(more)
    BY <1>6
  <2> HIDE DEF rows, given, more, before
  <2>1. /\ output \o rows \in Seq(ToSet(output) \cup ToSet(rows))
        /\ Len(output \o rows) = Len(output) + Len(rows)
        /\ \A i \in 1..Len(output) : (output \o rows)[i] = output[i]
        /\ \A i \in 1..Len(rows) : (output \o rows)[Len(output) + i] = rows[i]
    <3>1. /\ before \o rows \in Seq(given \cup more)
          /\ Len(before \o rows) = Len(before) + Len(rows)
          /\ \A i \in 1..Len(before) : (before \o rows)[i] = before[i]
          /\ \A i \in 1..Len(rows) : (before \o rows)[Len(before) + i] = rows[i]
      BY <2>0, ConcatElements
    <3> QED BY <3>1 DEF before, given, more
  <2> QED BY <1>3, <1>6, <2>1
<1>8. output' \in Seq(ToSet(output'))
  BY <1>7, SeqOfElements
<1> QED
  BY <1>2, <1>3, <1>5, <1>7, <1>8

(* A chunk leaves the cursor where it says it is.                           *)
LEMMA EmitProgress ==
  ASSUME Progress, query = "running", state # None,
         NEW cursor \in HeInitDataInner, NEW row_start \in Nat,
         row_start < cursor.stripe_rows, CursorAt(cursor, row_start),
         Emit(cursor, row_start), UNCHANGED <<path, bind_data>>
  PROVE  Progress'
<1>1. PICK n \in 1..VectorSize :
           /\ row_start + n <= cursor.stripe_rows
           /\ chunk' = n /\ query' = query
           /\ state' = [cursor EXCEPT !.row_in_stripe = row_start + n]
           /\ state' \in HeInitDataInner /\ state' # None
           /\ output' \in Seq(ToSet(output'))
           /\ Len(output') = Len(output) + n
  BY EmitFacts DEF Progress
<1>2. n \in Nat /\ n # 0 /\ Len(output) \in Nat /\ cursor.stripe_rows \in Nat
  BY <1>1 DEF Progress, Started, HeInitDataInner
<1>3. /\ state'.row_in_stripe = row_start + n /\ state'.stripe_rows = cursor.stripe_rows
      /\ state'.next_stripe = cursor.next_stripe /\ state'.reader = cursor.reader
      /\ state'.current_columns = cursor.current_columns
      /\ state'.projected = cursor.projected
  BY <1>1 DEF HeInitDataInner
<1>4. TypeOK'
  <2>1. chunk' \in 0..VectorSize
    BY <1>1, <1>2, VectorAssumption
  <2> QED BY <1>1, <1>3, <2>1 DEF Progress, TypeOK
<1>5. Started'
  BY <1>1, <1>2 DEF Progress, Started
<1>6. Position'
  <2>1. Len(output') + (cursor.stripe_rows - (row_start + n))
          = Len(output) + (cursor.stripe_rows - row_start)
    BY <1>1, <1>2
  <2> QED BY <1>3, <2>1 DEF CursorAt, Position
<1>7. Ended'
  BY <1>1 DEF Ended
<1> QED
  BY <1>4, <1>5, <1>6, <1>7 DEF Progress

(* Behind the last row of a stripe, the rows that were given are those of   *)
(* the stripes up to the next one that has some.                            *)
LEMMA PassedOver ==
  ASSUME Progress, query = "running", state # None, StripeExhausted,
         NEW s \in Nat, state.next_stripe <= s, s <= Len(state.reader), s <= bind_data,
         \A t \in Nat : state.next_stripe <= t /\ t < s => t \notin Candidates
  PROVE  Len(output) = Len(Flat(Stripes, s))
<1> DEFINE Row == [1..Len(state.projected) -> Cell]
           m == state.next_stripe
<1>1. /\ state \in HeInitDataInner /\ state.reader \in Files
      /\ state.projected \in Projections /\ m \in Nat
      /\ state.row_in_stripe = state.stripe_rows /\ state.stripe_rows \in Nat
      /\ bind_data \in Nat /\ Len(output) \in Nat
  BY DEF Progress, TypeOK, Started, HeInitDataInner, StripeExhausted
<1>2. /\ Stripes \in Seq(Seq(Row)) /\ Len(Stripes) = Len(state.reader)
      /\ \A i \in 1..Len(state.reader) : Len(Stripes[i]) = Rows(state.reader[i])
  BY <1>1, StripeRowsType DEF Stripes
<1>3. Len(state.reader) \in Nat /\ \A i \in 1..Len(state.reader) : Rows(state.reader[i]) \in Nat
  BY <1>1, FileFacts
<1>4. m \in 0..Len(Stripes) /\ s \in m..Len(Stripes)
  BY <1>1, <1>2, <1>3
<1>5. Len(output) = Len(Flat(Stripes, m))
  <2>1. CASE AtStart
    <3>1. Flat(Stripes, 0) = <<>>
      BY <1>2, FlatStep
    <3> QED BY <2>1, <3>1 DEF AtStart
  <2>2. CASE CursorAt(state, state.row_in_stripe)
    <3>1. Len(output) + (state.stripe_rows - state.row_in_stripe) = Len(Flat(Stripes, m))
      BY <2>2 DEF CursorAt, Stripes
    <3> QED BY <1>1, <3>1
  <2> QED BY <2>1, <2>2 DEF Progress, Position
<1>6. ASSUME NEW i \in (m + 1)..s PROVE Stripes[i] = <<>>
  <2>1. /\ i - 1 \in Nat /\ m <= i - 1 /\ i - 1 < s /\ i - 1 <= bind_data - 1
        /\ i - 1 < Len(state.reader) /\ i \in 1..Len(state.reader) /\ (i - 1) + 1 = i
    BY <1>1, <1>3
  <2>2. i - 1 \in AllCandidates
    BY <1>1, <2>1 DEF AllCandidates
  <2>3. ~(Rows(state.reader[i]) > 0)
    BY <2>1, <2>2 DEF Candidates
  <2>4. Len(Stripes[i]) = 0
    BY <1>2, <1>3, <2>1, <2>3
  <2>5. Stripes[i] \in Seq(Row)
    BY <1>2, <2>1
  <2> HIDE DEF Row
  <2> QED BY <2>4, <2>5, EmptySeq
<1> HIDE DEF Row
<1>7. Flat(Stripes, s) = Flat(Stripes, m)
  BY <1>2, <1>4, <1>6, FlatSkips
<1> QED
  BY <1>5, <1>7

(* The cursor of the next stripe is at its first row.                       *)
LEMMA NextStripeFacts ==
  ASSUME Progress, Pulled, StripeExhausted, Candidates # {}, Loads(Min(Candidates))
  PROVE  LET cursor == LoadedCursor(Min(Candidates))
         IN /\ cursor \in HeInitDataInner /\ CursorAt(cursor, 0) /\ cursor.stripe_rows > 0
            /\ cursor.reader = state.reader /\ cursor.projected = state.projected
<1> DEFINE s == Min(Candidates)
           stripe == state.reader[s + 1]
           cursor == LoadedCursor(s)
           decoded == DecodedColumns(stripe, state.projected)
           Row == [1..Len(state.projected) -> Cell]
<1>1. /\ state \in HeInitDataInner /\ state # None /\ query = "running"
      /\ bind_data \in Nat /\ Len(output) \in Nat
  BY DEF Progress, TypeOK, Started, Pulled
<1>2. /\ state.reader \in Files /\ state.projected \in Projections
      /\ state.next_stripe \in Nat
  BY <1>1 DEF HeInitDataInner
<1>3. s \in Candidates /\ \A t \in Candidates : s <= t
  <2>1. Candidates \subseteq Nat
    BY <1>1, <1>2 DEF Candidates, AllCandidates
  <2> QED BY <2>1, MinIs
<1>0. Loads(s)
  OBVIOUS
<1> HIDE DEF s
<1>4. Len(state.reader) \in Nat
  BY <1>2, FileFacts
<1>5. /\ s \in Nat /\ state.next_stripe <= s /\ s + 1 <= bind_data
      /\ s + 1 \in 1..Len(state.reader) /\ Rows(stripe) > 0
  BY <1>0, <1>1, <1>2, <1>3, <1>4 DEF Candidates, AllCandidates, Loads
<1>6. Rows(stripe) \in Nat
  BY <1>2, <1>5, FileFacts
<1>7. cursor = [state EXCEPT !.next_stripe = s + 1, !.stripe_rows = Rows(stripe),
                  !.current_columns = decoded]
  BY <1>1 DEF LoadedCursor, HeInitDataInner
<1>8. decoded \in Seq(DecodedColumn)
  BY <1>2, <1>5, DecodedType
<1> HIDE DEF stripe, cursor, decoded
<1>9. /\ cursor \in HeInitDataInner
      /\ cursor.reader = state.reader /\ cursor.projected = state.projected
      /\ cursor.next_stripe = s + 1 /\ cursor.stripe_rows = Rows(stripe)
      /\ cursor.current_columns = decoded
  <2>1. s + 1 \in Nat
    BY <1>5
  <2> QED BY <2>1, <1>1, <1>6, <1>7, <1>8 DEF HeInitDataInner
<1>10. Len(output) = Len(Flat(Stripes, s))
  <2>1. \A t \in Nat : state.next_stripe <= t /\ t < s => t \notin Candidates
    BY <1>3, <1>5
  <2>2. s <= Len(state.reader) /\ s <= bind_data
    BY <1>1, <1>4, <1>5
  <2> QED BY <1>1, <1>5, <2>1, <2>2, PassedOver
<1>11. Len(Flat(Stripes, s + 1)) = Len(Flat(Stripes, s)) + Rows(stripe)
  <2>1. /\ Stripes \in Seq(Seq(Row)) /\ Len(Stripes) = Len(state.reader)
        /\ Len(Stripes[s + 1]) = Rows(stripe)
    BY <1>2, <1>5, StripeRowsType DEF Stripes, stripe
  <2>2. s + 1 \in 1..Len(Stripes) /\ s \in 0..Len(Stripes) /\ (s + 1) - 1 = s
    BY <1>5, <2>1
  <2> HIDE DEF Row
  <2>3. Len(Flat(Stripes, s + 1)) = Len(Flat(Stripes, (s + 1) - 1)) + Len(Stripes[s + 1])
    BY <2>1, <2>2, FlatStepLength
  <2> QED BY <2>1, <2>2, <2>3
<1>12. CursorAt(cursor, 0)
  <2>1. Len(output) + (cursor.stripe_rows - 0) = Len(Flat(Stripes, s + 1))
    BY <1>1, <1>6, <1>9, <1>10, <1>11
  <2> QED BY <1>5, <1>9, <2>1 DEF CursorAt, Stripes, stripe, decoded
<1> QED
  BY <1>5, <1>6, <1>9, <1>12 DEF s, cursor

(* The end comes when all the stripes that bind saw are passed.             *)
LEMMA DoneEnds ==
  ASSUME Progress, FuncDone
  PROVE  Progress'
<1>1. /\ state \in HeInitDataInner /\ state # None /\ query = "running"
      /\ state.row_in_stripe <= state.stripe_rows
      /\ state.reader \in Files /\ state.next_stripe \in Nat
      /\ bind_data \in Nat /\ StripeExhausted /\ Candidates = {}
  BY DEF Progress, TypeOK, Started, FuncDone, Pulled, HeInitDataInner
<1>2. /\ state' = [state EXCEPT !.done = TRUE, !.next_stripe = bind_data]
      /\ chunk' = 0 /\ query' = "over" /\ UNCHANGED <<path, bind_data, output>>
  BY DEF FuncDone
<1>3. /\ state' \in HeInitDataInner /\ state' # None
      /\ state'.reader = state.reader /\ state'.projected = state.projected
      /\ state'.row_in_stripe = state.row_in_stripe
      /\ state'.stripe_rows = state.stripe_rows
  BY <1>1, <1>2, NoneAssumption DEF HeInitDataInner
<1>4. Len(state.reader) \in Nat
  BY <1>1, FileFacts
<1>5. state.next_stripe <= bind_data /\ state.next_stripe <= Len(state.reader)
  BY <1>1, <1>4 DEF Progress, Position, AtStart, CursorAt
<1>6. bind_data <= Len(state.reader)
  <2> SUFFICES ASSUME Len(state.reader) < bind_data PROVE FALSE
    BY <1>1, <1>4
  <2>1. Len(state.reader) \in AllCandidates
    BY <1>1, <1>4, <1>5 DEF AllCandidates
  <2>2. Len(state.reader) \in Candidates
    BY <2>1, <1>4 DEF Candidates
  <2> QED BY <1>1, <2>2
<1>7. Len(output) = Len(Flat(Stripes, bind_data))
  BY <1>1, <1>5, <1>6, PassedOver
<1>8. TypeOK'
  BY <1>1, <1>2, <1>3, VectorAssumption DEF Progress, TypeOK
<1>9. Started'
  BY <1>1, <1>2, <1>3 DEF Progress, Started
<1>10. Position'
  BY <1>2 DEF Position
<1>11. Ended'
  BY <1>2, <1>3, <1>6, <1>7 DEF Ended, Stripes
<1> QED
  BY <1>8, <1>9, <1>10, <1>11 DEF Progress

(* A query that fails gives nothing more.                                   *)
LEMMA FailProgress ==
  ASSUME Progress, Pulled, NEW s \in AllCandidates, FailAt(s)
  PROVE  Progress'
<1>1. /\ state \in HeInitDataInner /\ state # None /\ query = "running"
      /\ state.row_in_stripe <= state.stripe_rows
      /\ bind_data \in Nat /\ s + 1 \in Nat
  BY DEF Progress, TypeOK, Started, Pulled, HeInitDataInner, AllCandidates
<1>2. /\ state' = [state EXCEPT !.next_stripe = s + 1]
      /\ query' = "failed" /\ UNCHANGED <<path, bind_data, chunk, output>>
  BY DEF FailAt
<1>3. /\ state' \in HeInitDataInner /\ state' # None
      /\ state'.row_in_stripe = state.row_in_stripe
      /\ state'.stripe_rows = state.stripe_rows
  BY <1>1, <1>2, NoneAssumption DEF HeInitDataInner
<1>4. TypeOK'
  BY <1>1, <1>2, <1>3 DEF Progress, TypeOK
<1>5. Started'
  BY <1>1, <1>2, <1>3 DEF Progress, Started
<1> QED
  BY <1>2, <1>4, <1>5 DEF Progress, Position, Ended

(* The invariant holds at first, and every step keeps it.                   *)
LEMMA ProgressInit == Init => Progress
<1> SUFFICES ASSUME Init PROVE Progress
  OBVIOUS
<1>1. output \in Seq(ToSet(output))
  <2>1. output \in Seq({})
    BY DEF Init
  <2> QED BY <2>1, SeqOfElements
<1>2. None # 0
  BY NoneAssumption
<1>3. TypeOK
  BY DEF Init, TypeOK
<1> QED
  BY <1>1, <1>2, <1>3 DEF Init, Progress, Started, Position, Ended

LEMMA ProgressNext ==
  ASSUME Progress, [Next]_vars
  PROVE  Progress'
<1>1. CASE Bind
  <2>1. path \in Files /\ Len(path) \in Nat
    BY FileFacts DEF Progress, TypeOK
  <2>2. state = None
    BY <1>1, NoneAssumption DEF Bind, Progress, Started
  <2>3. UNCHANGED <<path, state, chunk, output, query>> /\ bind_data' \in Nat
    BY <1>1, <2>1 DEF Bind
  <2> QED BY <2>2, <2>3 DEF Progress, TypeOK, Started, Position, Ended
<1>2. ASSUME NEW projected \in Projections, InitScan(projected) PROVE Progress'
  <2>1. /\ state' \in HeInitDataInner /\ state' # None
        /\ state'.row_in_stripe = 0 /\ state'.stripe_rows = 0 /\ state'.next_stripe = 0
    <3> DEFINE nothing == <<>>
    <3>1. nothing \in Seq(DecodedColumn) /\ path \in Files
      BY DEF Progress, TypeOK
    <3>2. state' = [reader |-> path, projected |-> projected, next_stripe |-> 0,
                    current_columns |-> nothing, row_in_stripe |-> 0, stripe_rows |-> 0,
                    done |-> FALSE]
      BY <1>2 DEF InitScan
    <3> HIDE DEF nothing
    <3>3. state' \in HeInitDataInner
      BY <3>1, <3>2 DEF HeInitDataInner
    <3> QED BY <3>2, <3>3, NoneAssumption
  <2>2. /\ UNCHANGED <<path, bind_data, chunk, output, query>>
        /\ query = "running" /\ state = None /\ bind_data # None
    BY <1>2 DEF InitScan
  <2>3. output = <<>>
    BY <2>2 DEF Progress, Started
  <2> QED BY <2>1, <2>2, <2>3, NoneAssumption
          DEF Progress, TypeOK, Started, Position, Ended, AtStart
<1>3. CASE FuncSameStripe
  <2>1. /\ query = "running" /\ state # None /\ state \in HeInitDataInner
        /\ ~StripeExhausted /\ Emit(state, state.row_in_stripe)
        /\ UNCHANGED <<path, bind_data>>
    BY <1>3 DEF FuncSameStripe, Pulled, Progress, TypeOK
  <2>2. state.row_in_stripe \in Nat /\ state.row_in_stripe < state.stripe_rows
    BY <2>1 DEF HeInitDataInner, StripeExhausted
  <2>3. CursorAt(state, state.row_in_stripe)
    BY <2>1, <2>2 DEF Progress, Position, AtStart
  <2> QED BY <2>1, <2>2, <2>3, EmitProgress
<1>4. CASE FuncNextStripe
  <2> DEFINE cursor == LoadedCursor(Min(Candidates))
  <2>1. /\ Pulled /\ StripeExhausted /\ Candidates # {} /\ Loads(Min(Candidates))
        /\ Emit(cursor, 0) /\ UNCHANGED <<path, bind_data>>
    BY <1>4 DEF FuncNextStripe
  <2>2. cursor \in HeInitDataInner /\ CursorAt(cursor, 0) /\ cursor.stripe_rows > 0
    BY <2>1, NextStripeFacts
  <2>3. 0 < cursor.stripe_rows /\ query = "running" /\ state # None
    BY <2>1, <2>2 DEF Pulled
  <2> HIDE DEF cursor
  <2> QED BY <2>1, <2>2, <2>3, EmitProgress
<1>5. CASE FuncMissing
  <2>1. Min(Candidates) \in AllCandidates
    <3>1. Candidates \subseteq AllCandidates /\ AllCandidates \subseteq Nat
      BY <1>5 DEF FuncMissing, Pulled, Candidates, AllCandidates, Progress, TypeOK,
                  Started, HeInitDataInner
    <3> QED BY <1>5, <3>1, MinIs DEF FuncMissing
  <2> QED BY <1>5, <2>1, FailProgress DEF FuncMissing
<1>6. CASE ReadFails
  BY <1>6, FailProgress DEF ReadFails
<1>7. CASE FuncDone
  BY <1>7, DoneEnds
<1>8. CASE Replace
  BY <1>8 DEF Replace, Progress, TypeOK, Started, Position, Ended, AtStart, CursorAt, Stripes
<1>9. CASE UNCHANGED vars
  BY <1>9 DEF vars, Progress, TypeOK, Started, Position, Ended, AtStart, CursorAt, Stripes,
             AllCandidates
<1> QED
  BY <1>1, <1>2, <1>3, <1>4, <1>5, <1>6, <1>7, <1>8, <1>9 DEF Next, InitAny, Func

LEMMA ProgressAlways == Spec => []Progress
BY ProgressInit, ProgressNext, PTL DEF Spec

-----------------------------------------------------------------------------
(* The theorems                                                             *)

(* The variables keep their types: the cursor never passes the end of its   *)
(* stripe, and no chunk is larger than DuckDB's.                            *)
THEOREM DuckTypes == Spec => []TypeOK
<1>1. Progress => TypeOK
  BY DEF Progress
<1> QED
  BY <1>1, ProgressAlways, PTL

(* The empty chunk that ends a query is given only behind the last row of   *)
(* the last stripe that bind saw, whatever files come to the path and       *)
(* wherever their empty stripes are.                                        *)
THEOREM EndIsEnd == Spec => []EmptyChunkIsEnd
<1>1. ASSUME Progress PROVE EmptyChunkIsEnd
  <2> SUFFICES ASSUME chunk = 0
               PROVE  /\ bind_data <= Len(state.reader)
                      /\ Len(output) = Len(TableRows(SubSeq(state.reader, 1, bind_data), <<>>))
    BY DEF EmptyChunkIsEnd
  <2> DEFINE Row == [1..Len(state.projected) -> Cell]
             nothing == <<>>
             NoCells == {nothing}
             first == SubSeq(state.reader, 1, bind_data)
             counted == StripeRows(first, <<>>)
  <2>1. /\ state \in HeInitDataInner /\ bind_data \in Nat /\ query = "over"
        /\ bind_data <= Len(state.reader) /\ Len(output) = Len(Flat(Stripes, bind_data))
    BY <1>1 DEF Progress, TypeOK, Started, Ended
  <2>2. state.reader \in Files /\ state.projected \in Projections
    BY <2>1 DEF HeInitDataInner
  <2>3. /\ Stripes \in Seq(Seq(Row)) /\ Len(Stripes) = Len(state.reader)
        /\ \A i \in 1..Len(state.reader) : Len(Stripes[i]) = Rows(state.reader[i])
    BY <2>2, StripeRowsType DEF Stripes
  <2>4. /\ Len(state.reader) \in Nat
        /\ \A i \in 1..Len(state.reader) : Rows(state.reader[i]) \in Nat
    BY <2>2, FileFacts
  <2>5. /\ Len(first) = bind_data
        /\ \A i \in 1..bind_data : first[i] = state.reader[i] /\ i \in 1..Len(state.reader)
    <3>1. state.reader \in Seq([Column -> Seq(Cell)])
      BY <2>2, FilesAssumption
    <3> QED BY <2>1, <3>1
  <2>6. /\ counted \in Seq(Seq(NoCells)) /\ Len(counted) = bind_data
        /\ \A i \in 1..bind_data : Len(counted[i]) = Rows(state.reader[i])
    <3> DEFINE rows(i) == [r \in 1..Rows(first[i]) |-> nothing]
    <3>1. counted = [i \in 1..bind_data |-> rows(i)]
      <4>1. ASSUME NEW i \in 1..bind_data, NEW r \in 1..Rows(first[i])
            PROVE  [k \in 1..Len(<<>>) |-> first[i][<<>>[k]][r]] = <<>>
        OBVIOUS
      <4> HIDE DEF first
      <4> QED BY <2>5, <4>1 DEF StripeRows
    <3>2. ASSUME NEW i \in 1..bind_data
          PROVE  rows(i) \in Seq(NoCells) /\ Len(rows(i)) = Rows(state.reader[i])
      <4>1. Rows(first[i]) \in Nat /\ Rows(first[i]) = Rows(state.reader[i])
        BY <2>4, <2>5
      <4> DEFINE count == Rows(first[i])
      <4>2. count \in Nat
        BY <4>1
      <4> HIDE DEF nothing, count
      <4>3. [r \in 1..count |-> nothing] \in Seq(NoCells)
            /\ Len([r \in 1..count |-> nothing]) = count
        BY <4>2
      <4> QED BY <4>1, <4>3 DEF count
    <3> HIDE DEF rows, NoCells, counted
    <3> QED BY <2>1, <3>1, <3>2
  <2>7. TableRows(first, <<>>) = Flat(counted, bind_data)
    <3>1. TableRows(first, <<>>) = FlattenSeq(counted)
      BY DEF TableRows
    <3> HIDE DEF counted, NoCells, first
    <3> QED BY <2>6, <3>1, FlatWhole
  <2>8. Len(Flat(Stripes, bind_data)) = Len(Flat(counted, bind_data))
    <3>1. /\ bind_data \in 0..Len(Stripes) /\ bind_data \in 0..Len(counted)
          /\ \A i \in 1..bind_data : Len(Stripes[i]) = Len(counted[i])
      <4> HIDE DEF counted, first
      <4> QED BY <2>1, <2>3, <2>4, <2>5, <2>6
    <3> HIDE DEF counted, NoCells, Row
    <3> QED BY <2>3, <2>6, <3>1, FlatLength
  <2> HIDE DEF counted
  <2> QED BY <2>1, <2>7, <2>8
<1> QED
  BY <1>1, ProgressAlways, PTL

\* No stripe that a query for a list may read is longer than a chunk.
ListsFit ==
  \A columns \in Projections :
    HasList(columns) =>
      \A file \in Files : \A s \in 1..Len(file) : Rows(file[s]) <= VectorSize

\* DuckDB was given the first rows of the table, and a list only whole
\* stripes of them.
Faithful ==
  state # None =>
    /\ Begins(output, TableRows(state.reader, state.projected))
    /\ query = "running" /\ HasList(state.projected)
         => state.row_in_stripe = state.stripe_rows

(* A chunk's rows are the next rows of the table.                           *)
LEMMA EmitFaithful ==
  ASSUME ListsFit, Progress, Faithful, query = "running", state # None,
         NEW cursor \in HeInitDataInner, NEW row_start \in Nat,
         row_start < cursor.stripe_rows, CursorAt(cursor, row_start),
         HasList(cursor.projected) => row_start = 0,
         cursor.reader = state.reader, cursor.projected = state.projected,
         Emit(cursor, row_start)
  PROVE  Faithful'
<1> DEFINE file == cursor.reader
           columns == cursor.projected
           m == cursor.next_stripe
           Row == [1..Len(columns) -> Cell]
           rows == StripeRows(file, columns)
           table == TableRows(file, columns)
<1>1. PICK n \in 1..VectorSize :
           /\ row_start + n <= cursor.stripe_rows
           /\ cursor.stripe_rows - row_start <= VectorSize
                => n = cursor.stripe_rows - row_start
           /\ state' = [cursor EXCEPT !.row_in_stripe = row_start + n]
           /\ output' \in Seq(ToSet(output'))
           /\ Len(output') = Len(output) + n
           /\ \A i \in 1..Len(output) : output'[i] = output[i]
           /\ \A i \in 1..n :
                output'[Len(output) + i] = Chunk(cursor.current_columns, row_start, n)[i]
  BY EmitFacts DEF Progress
<1>2. /\ n \in Nat /\ Len(output) \in Nat
      /\ file \in Files /\ columns \in Projections
  BY <1>1 DEF Progress, Started, HeInitDataInner
<1>3. /\ m \in 1..Len(file) /\ cursor.stripe_rows = Rows(file[m])
      /\ cursor.current_columns = DecodedColumns(file[m], columns)
      /\ Len(output) + (Rows(file[m]) - row_start) = Len(Flat(rows, m))
  BY DEF CursorAt
<1>4. /\ state'.reader = file /\ state'.projected = columns
      /\ state'.row_in_stripe = row_start + n /\ state'.stripe_rows = cursor.stripe_rows
  BY <1>1 DEF HeInitDataInner
<1>5. /\ rows \in Seq(Seq(Row)) /\ Len(rows) = Len(file) /\ Len(rows[m]) = Rows(file[m])
      /\ Rows(file[m]) \in Nat /\ table = FlattenSeq(rows)
  BY <1>2, <1>3, StripeRowsType, FileFacts DEF TableRows
<1> HIDE DEF file, columns, m, Row, rows, table
<1>6. HasList(columns) => n = Rows(file[m])
  BY <1>1, <1>2, <1>3, <1>5 DEF ListsFit, columns
<1>7. ASSUME NEW i \in 1..n
      PROVE  /\ Len(output) + i <= Len(table)
             /\ table[Len(output) + i] = output'[Len(output) + i]
  <2>1. row_start + i \in 1..Len(rows[m])
    BY <1>1, <1>2, <1>3, <1>5
  <2>2. m \in 1..Len(rows)
    BY <1>3, <1>5
  <2>3. /\ Len(Flat(rows, m - 1)) \in Nat
        /\ Len(Flat(rows, m - 1)) + (row_start + i) \in 1..Len(table)
        /\ table[Len(Flat(rows, m - 1)) + (row_start + i)] = rows[m][row_start + i]
    BY <1>5, <2>1, <2>2, FlatAt
  <2>4. Len(Flat(rows, m)) = Len(Flat(rows, m - 1)) + Rows(file[m])
    BY <1>5, <2>2, FlatStepLength
  <2>5. Len(output) + i = Len(Flat(rows, m - 1)) + (row_start + i)
    <3> DEFINE before == Len(Flat(rows, m - 1))
    <3>1. Len(output) + (Rows(file[m]) - row_start) = before + Rows(file[m])
      BY <1>3, <2>4
    <3>2. before \in Nat
      BY <2>3
    <3>3. Len(output) \in Nat /\ row_start \in Nat /\ i \in Nat /\ Rows(file[m]) \in Nat
      BY <1>2, <1>3, <1>5
    <3> HIDE DEF before
    <3>4. Len(output) + i = before + (row_start + i)
      BY <3>1, <3>2, <3>3
    <3> QED BY <3>4 DEF before
  <2>6. Chunk(DecodedColumns(file[m], columns), row_start, n)[i] = rows[m][row_start + i]
    <3>1. row_start + n <= Rows(file[m]) /\ (HasList(columns) => row_start = 0 /\ n = Rows(file[m]))
      BY <1>1, <1>3, <1>6 DEF columns
    <3> QED BY <1>2, <1>3, <3>1, ChunkCells DEF rows
  <2> QED BY <1>1, <1>3, <2>3, <2>5, <2>6
<1>8. Begins(output, table)
  BY DEF Faithful, table, file, columns
<1>9. Begins(output', table)
  <2>1. n # 0 /\ n \in 1..n
    BY <1>1, <1>2
  <2>2. Len(output) + n <= Len(table)
    BY <1>7, <2>1
  <2>3. ASSUME NEW j \in 1..Len(output') PROVE table[j] = output'[j]
    <3>1. CASE j <= Len(output)
      BY <1>1, <1>2, <1>8, <3>1 DEF Begins
    <3>2. CASE j > Len(output)
      <4>1. j - Len(output) \in 1..n /\ Len(output) + (j - Len(output)) = j
        BY <1>1, <1>2, <3>2
      <4> QED BY <1>7, <4>1
    <3> QED BY <1>1, <1>2, <3>1, <3>2
  <2> QED BY <1>1, <2>2, <2>3 DEF Begins
<1>10. HasList(columns) => state'.row_in_stripe = state'.stripe_rows
  BY <1>1, <1>3, <1>4, <1>6 DEF columns
<1> QED
  BY <1>4, <1>9, <1>10 DEF Faithful, table

LEMMA FaithfulInit == Init => Faithful
BY DEF Init, Faithful

LEMMA FaithfulNext ==
  ASSUME ListsFit, Progress, Faithful, [Next]_vars
  PROVE  Faithful'
<1>1. CASE Bind
  BY <1>1, NoneAssumption DEF Bind, Faithful, Progress, Started
<1>2. ASSUME NEW projected \in Projections, InitScan(projected) PROVE Faithful'
  <2> DEFINE rows == StripeRows(path, projected)
             Row == [1..Len(projected) -> Cell]
  <2>1. /\ state'.reader = path /\ state'.projected = projected
        /\ state'.row_in_stripe = state'.stripe_rows /\ output' = <<>> /\ path \in Files
    BY <1>2 DEF InitScan, Progress, Started, TypeOK
  <2>2. Len(TableRows(path, projected)) \in Nat
    <3>1. rows \in Seq(Seq(Row))
      BY <2>1, StripeRowsType
    <3>2. Len(rows) \in 0..Len(rows)
      BY <3>1
    <3> HIDE DEF rows, Row
    <3>3. FlattenSeq(rows) \in Seq(Row)
      BY <3>1, <3>2, FlatStep, FlatWhole
    <3> QED BY <3>3 DEF TableRows, rows
  <2> QED BY <2>1, <2>2 DEF Faithful, Begins
<1>3. CASE FuncSameStripe
  <2>1. /\ query = "running" /\ state # None /\ state \in HeInitDataInner
        /\ ~StripeExhausted /\ Emit(state, state.row_in_stripe)
    BY <1>3 DEF FuncSameStripe, Pulled, Progress, TypeOK
  <2>2. state.row_in_stripe \in Nat /\ state.row_in_stripe < state.stripe_rows
    BY <2>1 DEF HeInitDataInner, StripeExhausted
  <2>3. CursorAt(state, state.row_in_stripe)
    BY <2>1, <2>2 DEF Progress, Position, AtStart
  <2>4. ~HasList(state.projected)
    BY <2>1, <2>2 DEF Faithful, HeInitDataInner
  <2> QED BY <2>1, <2>2, <2>3, <2>4, EmitFaithful
<1>4. CASE FuncNextStripe
  <2> DEFINE cursor == LoadedCursor(Min(Candidates))
  <2>1. /\ Pulled /\ StripeExhausted /\ Candidates # {} /\ Loads(Min(Candidates))
        /\ Emit(cursor, 0)
    BY <1>4 DEF FuncNextStripe
  <2>2. /\ cursor \in HeInitDataInner /\ CursorAt(cursor, 0) /\ cursor.stripe_rows > 0
        /\ cursor.reader = state.reader /\ cursor.projected = state.projected
    BY <2>1, NextStripeFacts
  <2>3. 0 < cursor.stripe_rows /\ query = "running" /\ state # None
    BY <2>1, <2>2 DEF Pulled
  <2> HIDE DEF cursor
  <2> QED BY <2>1, <2>2, <2>3, EmitFaithful
<1>5. ASSUME NEW s, FailAt(s), Pulled PROVE Faithful'
  <2>1. state'.reader = state.reader /\ state'.projected = state.projected
    BY <1>5 DEF FailAt, Pulled, Progress, TypeOK, HeInitDataInner
  <2> QED BY <1>5, <2>1 DEF FailAt, Pulled, Faithful
<1>6. CASE FuncMissing \/ ReadFails
  BY <1>5, <1>6 DEF FuncMissing, ReadFails
<1>7. CASE FuncDone
  <2>1. state'.reader = state.reader /\ state'.projected = state.projected
    BY <1>7 DEF FuncDone, Pulled, Progress, TypeOK, HeInitDataInner
  <2> QED BY <1>7, <2>1 DEF FuncDone, Pulled, Faithful
<1>8. CASE Replace \/ UNCHANGED vars
  BY <1>8 DEF Replace, vars, Faithful
<1> QED
  BY <1>1, <1>2, <1>3, <1>4, <1>6, <1>7, <1>8 DEF Next, InitAny, Func

(* DuckDB gets the rows of one file, in order, each once and with its own   *)
(* cells, whatever happens to the path and wherever chunks and stripes end, *)
(* provided that a chunk holds every stripe that a query for a list may     *)
(* read.  Where no query asks for a list, nothing has to be provided.       *)
THEOREM RowsAreFaithful == ListsFit => (Spec => []RowsFaithful)
<1> SUFFICES ASSUME ListsFit PROVE Spec => []RowsFaithful
  OBVIOUS
<1>1. ASSUME Progress, Faithful PROVE RowsFaithful
  <2> SUFFICES ASSUME state # None
               PROVE  IsPrefix(output, TableRows(state.reader, state.projected))
    BY DEF RowsFaithful
  <2> DEFINE Row == [1..Len(state.projected) -> Cell]
             given == ToSet(output)
             table == FlattenSeq(Stripes)
  <2>1. state.reader \in Files /\ state.projected \in Projections
    BY <1>1 DEF Progress, TypeOK, HeInitDataInner
  <2>2. Stripes \in Seq(Seq(Row))
    BY <2>1, StripeRowsType DEF Stripes
  <2>3. Len(Stripes) \in 0..Len(Stripes)
    BY <2>2
  <2>4. output \in Seq(given) /\ Begins(output, table)
    BY <1>1 DEF Progress, Started, Faithful, TableRows, Stripes
  <2> HIDE DEF Row, given
  <2>5. table \in Seq(Row)
    BY <2>2, <2>3, FlatStep, FlatWhole
  <2> HIDE DEF table
  <2>6. output \in Seq(given \cup Row) /\ table \in Seq(given \cup Row)
    BY <2>4, <2>5
  <2>7. IsPrefix(output, table)
    BY <2>4, <2>6, BeginsIsPrefix
  <2> QED BY <2>7 DEF table, TableRows, Stripes
<1>2. Spec => [](Progress /\ Faithful)
  BY ProgressInit, FaithfulInit, ProgressNext, FaithfulNext, PTL DEF Spec
<1> QED
  BY <1>1, <1>2, PTL

=============================================================================
