---------------------------- MODULE HeliumReader ----------------------------
(***************************************************************************)
(* The .he file format as its reader sees it (src/src/core/file.rs): the   *)
(* layout of a file, the checks HeliumReader::new makes, reading a column  *)
(* of a stripe, and project_to, which copies columns into a new file.      *)
(*                                                                         *)
(* A file is a sequence of cells, the units a write may be torn into:      *)
(*   header, schema, the encoded leaves in the order they were written,    *)
(*   footer, footer length, footer CRC, header again.                      *)
(* A checksum is the content it covers: CRC32C collisions are left out.    *)
(* Coders are left out too: an encoded leaf determines its value, and its  *)
(* cells are told apart from the rest of the file.                         *)
(***************************************************************************)
EXTENDS Naturals, Sequences, SequencesExt

CONSTANTS
  Columns,  \* the schema: a sequence of column names
  NLeaves,  \* [column -> number of physical leaves of its logical type]
  Value,    \* logical column chunks a caller may write
  RowsOf,   \* [Value -> number of rows]
  EncLen,   \* [Value -> cells each of its leaves is encoded to]
  None      \* Rust's None, and the result of a call that failed

ColumnNames == ToSet(Columns)

ASSUME SchemaAssumption ==
  /\ Columns \in Seq(ColumnNames) /\ Columns # <<>>
  /\ \A i, j \in 1..Len(Columns) : Columns[i] = Columns[j] => i = j
  /\ \A c \in ColumnNames : NLeaves[c] \in Nat \ {0}
ASSUME ValueAssumption ==
  /\ RowsOf \in [Value -> Nat]
  /\ EncLen \in [Value -> Nat \ {0}]

-----------------------------------------------------------------------------
(* Cells: records of one field, named for what the cell holds *)

Holds(cell, what) == DOMAIN cell = {what}

\* The header and the schema slot.  flags is 1 in catalog mode, where the slot
\* holds a hash that the resolver turns into the same schema.
Preamble(flags, columns) == <<[header |-> flags], [schema |-> columns]>>
BodyStart == 2

FooterLen == 1
TrailerLen == 3

\* The zstd-compressed footer, its length, its CRC and the echoed header.
Trailer(flags, stripes) ==
  <<[footer |-> stripes], [footer_len |-> FooterLen], [crc |-> stripes],
    [header |-> flags]>>

\* The location of one encoded leaf, relative to the body.
Location(offset, cells) ==
  [offset |-> offset, length |-> Len(cells), crc32c |-> cells]

\* What Pipeline::encode makes of leaf j of value v in column c.
Encode(c, v, j) == [k \in 1..EncLen[v] |-> [leaf |-> <<c, v, j, k>>]]

-----------------------------------------------------------------------------
(* HeliumReader::new *)

Slice(file, from, length) == SubSeq(file, from + 1, from + length)

\* The stripes of the footer fit the schema in the header.
FooterFits(stripes, columns) ==
  /\ stripes # <<>>
  /\ \A s \in 1..Len(stripes) :
       /\ Len(stripes[s].columns) = Len(columns)
       /\ \A i \in 1..Len(columns) : Len(stripes[s].columns[i]) = NLeaves[columns[i]]

\* The checks in the order the code makes them; each failure is an error.
Opens(file) ==
  LET n == Len(file) IN
  /\ n >= 1 /\ Holds(file[1], "header")
  /\ n >= 2 /\ Holds(file[2], "schema")
  /\ n >= BodyStart + TrailerLen
  /\ file[n] = file[1]
  /\ Holds(file[n - 2], "footer_len")
  /\ file[n - 2].footer_len <= n - TrailerLen - BodyStart
  /\ LET footer == file[n - TrailerLen]
     IN /\ Holds(footer, "footer")
        /\ file[n - 1] = [crc |-> footer.footer]
        /\ FooterFits(footer.footer, file[2].schema)

StripesOf(file) == file[Len(file) - TrailerLen].footer
SchemaOf(file) == file[2].schema

-----------------------------------------------------------------------------
(* read_column_piece: fetch each leaf, check its CRC, decode, compose *)

Fetch(file, loc) == Slice(file, BodyStart + loc.offset, loc.length)

LeafOK(file, loc) ==
  /\ BodyStart + loc.offset + loc.length <= Len(file)
  /\ Fetch(file, loc) = loc.crc32c

\* compose fails when the leaves do not make a column of row_count rows.
ReadPiece(file, c, locs, row_count) ==
  LET vs == {v \in Value :
               /\ RowsOf[v] = row_count
               /\ \A j \in 1..Len(locs) :
                    LeafOK(file, locs[j]) /\ Fetch(file, locs[j]) = Encode(c, v, j)}
  IN IF vs = {} THEN None ELSE CHOOSE v \in vs : TRUE

ReadStripe(file, stripe, columns) ==
  [c \in ToSet(columns) |->
     LET i == CHOOSE k \in 1..Len(columns) : columns[k] = c
     IN ReadPiece(file, c, stripe.columns[i], stripe.row_count)]

\* Every column of every stripe of a file that opens.
Contents(file) ==
  IF Opens(file)
  THEN [s \in 1..Len(StripesOf(file)) |->
          ReadStripe(file, StripesOf(file)[s], SchemaOf(file))]
  ELSE None

-----------------------------------------------------------------------------
(* project_to: leaf bytes are copied verbatim, offsets recomputed *)

\* The leaf copies to make, in output order: stripes, then the kept columns in
\* the requested order, then leaves.
CopyPlan(file, columns) ==
  FlattenSeq([s \in 1..Len(StripesOf(file)) |->
    FlattenSeq([k \in 1..Len(columns) |->
      LET i == CHOOSE n \in 1..Len(SchemaOf(file)) : SchemaOf(file)[n] = columns[k]
          locs == StripesOf(file)[s].columns[i]
      IN [j \in 1..Len(locs) |-> <<s, k, j, locs[j]>>]])])

CopiedBefore(plan, n) ==
  FoldLeft(LAMBDA total, item : total + item[4].length, 0, SubSeq(plan, 1, n - 1))

\* Mutant: the leaf keeps the offset it had in the source.
KeepLocation(plan, n) == plan[n][4]

\* The new location of the leaf that the n-th copy writes.
Relocate(plan, n) == [plan[n][4] EXCEPT !.offset = CopiedBefore(plan, n)]

ProjectedStripes(file, columns) ==
  LET plan == CopyPlan(file, columns)
      At(s, k, j) == CHOOSE n \in 1..Len(plan) :
                       plan[n][1] = s /\ plan[n][2] = k /\ plan[n][3] = j
  IN [s \in 1..Len(StripesOf(file)) |->
        [row_count |-> StripesOf(file)[s].row_count,
         columns |-> [k \in 1..Len(columns) |->
                       [j \in 1..NLeaves[columns[k]] |-> Relocate(plan, At(s, k, j))]]]]

\* The new file, or None when a copied leaf fails its CRC.
ProjectTo(file, columns) ==
  LET plan == CopyPlan(file, columns)
      body == FlattenSeq([n \in 1..Len(plan) |-> Fetch(file, plan[n][4])])
  IN IF \E n \in 1..Len(plan) : ~LeafOK(file, plan[n][4]) THEN None
     ELSE Preamble(0, columns) \o body \o Trailer(0, ProjectedStripes(file, columns))

=============================================================================
