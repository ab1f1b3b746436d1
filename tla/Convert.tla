------------------------------- MODULE Convert -------------------------------
(***************************************************************************)
(* One column on its way into a .he file and out again.  It comes from a   *)
(* caller of write_column, or `helium convert' imports JSON documents: an  *)
(* array is turned into one column that is cut into chunks, lines are      *)
(* turned into a column per chunk (src/src/cli/loader.rs).  Every chunk is *)
(* a stripe (src/src/cli/convert.rs).  Python's write_table does the same  *)
(* with the batches of an Arrow table (src/python/src/lib.rs).  The export *)
(* reads the column over all stripes and renders its rows                  *)
(* (src/src/schema/json.rs) or makes Avro data of them, or reads each      *)
(* stripe as a record batch.  Avro files are imported like lines.  The     *)
(* writer and its errors are those of HeliumWriter; here a stripe is the   *)
(* leaves that LogicalColumn makes of a column.                            *)
(***************************************************************************)
EXTENDS AvroBridge

CONSTANTS TypeOf,      \* the columns of the schemas: name -> type
          Documents,   \* name -> the sequences of documents to import
          AvroOf,      \* name -> the type of the column in an Avro file
          Data,        \* name -> the sequences of data in such a file
          Candidates,  \* name -> the columns a caller may hand over
          Tables,      \* name -> the Arrow tables to write: field and batches
          ChunkRows,   \* the values of --stripe-rows
          MaxStripes,  \* bound on the stripes a caller writes
          None

VARIABLES name, producer,
          docs, chunk, at, \* the documents or data, the chunk size, those handed over
          source,          \* the column that an array was turned into
          table,           \* the Arrow table
          rowCount,        \* current_row_count of the writer
          stripes,         \* what the file holds
          written,         \* history: the column behind each stripe
          status

vars == <<name, producer, docs, chunk, at, source, table, rowCount, stripes,
          written, status>>

type == TypeOf[name]

-----------------------------------------------------------------------------
(* Documents: JSON values.  `v' is <<number>>, <<1>> or <<0>> for a boolean, *)
(* the bytes of a string, the elements of an array, or the function from    *)
(* the keys of an object.                                                   *)

Json(shape, v) == [shape |-> shape, v |-> v]
Null == Json("null", <<>>)

\* A number of one digit as text, and a boolean, shortened to its first letter.
Digit(n) == << n + 48 >>
Letter(truth) == << IF truth = 1 THEN 116 ELSE 102 >>

\* What a primitive parses, and what utf8 takes for text; Err if neither.
Parsed(doc) ==
  CASE doc.shape \in {"number", "bool"} -> doc.v[1]
    [] doc.shape = "string" /\ (\E n \in 0..9 : doc.v = Digit(n)) -> doc.v[1] - 48
    [] OTHER -> Err
AsText(doc) ==
  CASE doc.shape = "string" -> doc.v
    [] doc.shape = "number" -> Digit(doc.v[1])
    [] doc.shape = "bool" -> Letter(doc.v[1])
    [] OTHER -> Err

Get(doc, key) ==
  IF doc.shape = "object" /\ key \in DOMAIN doc.v THEN doc.v[key] ELSE Null

\* The variant that a document goes to, 0 if there is none.
Matches(doc, t) == CASE t.kind = "primitive" -> doc.shape \in {"number", "bool"}
                     [] t.kind = "utf8" -> doc.shape = "string"
                     [] t.kind \in {"struct", "map"} -> doc.shape = "object"
                     [] t.kind = "list" -> doc.shape = "array"
                     [] OTHER -> FALSE

Variant(doc, t) ==
  LET fitting == IF doc = Null
                 THEN {k \in DOMAIN t.kids : t.kids[k].kind = "nullable"}
                 ELSE {k \in DOMAIN t.kids : Matches(doc, t.kids[k])}
  IN CASE fitting # {} -> CHOOSE k \in fitting : \A j \in fitting : k <= j
       [] OTHER -> IF doc = Null THEN 1 ELSE 0

(* json_values_to_logical_column.  Decimals and dates come from the text    *)
(* parser that CSV uses, which is not modelled; the keys of maps are utf8.  *)
RECURSIVE FromJson(_, _)
FromJson(values, t) ==
  LET All(shapes) == \A i \in DOMAIN values : values[i].shape \in shapes
      Each(Op(_)) == [i \in DOMAIN values |-> Op(values[i])]
      Node(own, kids) == IF \E k \in DOMAIN kids : kids[k] = Err THEN Err
                         ELSE Column(t.kind, own, kids)
      Nested(shape) == All({shape}) /\ Last(OffsetsOf(values)) < Word
  IN CASE t.kind = "primitive" ->
            IF Err \in ToSet(Each(Parsed)) THEN Err ELSE Node(Each(Parsed), <<>>)
       [] t.kind = "utf8" ->
            IF Err \in ToSet(Each(AsText)) THEN Err ELSE Node(Each(AsText), <<>>)
       [] t.kind = "nullable" ->
            Node(Each(LAMBDA d : d # Null),
                 << FromJson(SelectSeq(values, LAMBDA d : d # Null), t.kids[1]) >>)
       [] t.kind = "list" ->
            IF Nested("array")
            THEN Node(OffsetsOf(values), << FromJson(ItemsOf(values), t.kids[1]) >>)
            ELSE Err
       [] t.kind = "map" ->
            IF Nested("object")
            THEN LET keys == KeysOf(values)
                 IN Node(OffsetsOf(values),
                         << FromJson([i \in DOMAIN keys |-> Json("string", keys[i])],
                                     t.kids[1]),
                            FromJson(ItemsOf(values), t.kids[2]) >>)
            ELSE Err
       [] t.kind = "struct" ->
            Node(<<>>, [k \in DOMAIN t.kids |->
                          FromJson(Each(LAMBDA d : Get(d, t.names[k])),
                                   t.kids[k])])
       [] t.kind = "union" ->
            IF \E i \in DOMAIN values : Variant(values[i], t) = 0 THEN Err
            ELSE Node(Each(LAMBDA d : Variant(d, t) - 1),
                      [k \in DOMAIN t.kids |->
                         FromJson(SelectSeq(values,
                                            LAMBDA d : Variant(d, t) = k),
                                  t.kids[k])])
       [] t.kind = "dict" -> LET plain == FromJson(values, t.kids[1])
                          IN IF plain = Err THEN Err ELSE Reshape(plain, t)

\* A row of a node that is not null, from the rows of its children; `place' is
\* the row of the variant's child that a union takes.
RowOf(kind, own, names, r, place, Kid(_, _)) ==
  LET Entries == own[r] + 1 .. own[r + 1]
      LastAt(key) == CHOOSE i \in Entries :
                       /\ Kid(1, i).v = key
                       /\ \A j \in Entries : Kid(1, j).v = key => j <= i
  IN CASE kind = "utf8" -> Json("string", own[r])
       [] kind \in {"primitive", "date", "decimal"} -> Json("number", << own[r] >>)
       [] kind = "struct" ->
            Json("object", [key \in ToSet(names) |->
                              Kid(CHOOSE k \in DOMAIN names : names[k] = key, r)])
       [] kind = "list" ->
            Json("array", [i \in 1..Cardinality(Entries) |-> Kid(1, own[r] + i)])
       [] kind = "map" ->
            Json("object", [key \in {Kid(1, i).v : i \in Entries} |->
                              Kid(2, LastAt(key))])
       [] kind = "union" ->
            Json("object", [key \in {names[own[r] + 1]} |->
                              Kid(own[r] + 1, place)])
       [] kind = "dict" -> Kid(1, own[r] + 1)

\* logical_column_row_to_json_value: row r of a column, counted from 1.
RECURSIVE JsonRow(_, _, _)
JsonRow(c, t, r) ==
  LET Kid(k, i) == JsonRow(c.kids[k], t.kids[k], i)
      Rank(v) == Tally(SubSeq(c.own, 1, r), v)
  IN CASE r > RowCount(c) -> Null
       [] c.kind = "nullable" -> IF c.own[r] THEN Kid(1, Rank(TRUE)) ELSE Null
       [] OTHER -> RowOf(c.kind, c.own, t.names, r, Rank(c.own[r]), Kid)

JsonRows(c, t) == [r \in 1..RowCount(c) |-> JsonRow(c, t, r)]

\* What an Arrow array holds in a slot.
RECURSIVE ArrowRow(_, _)
ArrowRow(a, r) ==
  LET Kid(k, i) == ArrowRow(a.kids[k], i)
  IN IF ~a.valid[r] THEN Null
     ELSE RowOf(a.kind, a.own, a.names, r, a.at[r] + 1, Kid)

ArrowRows(a) == [r \in 1..Slots(a) |-> ArrowRow(a, r)]

-----------------------------------------------------------------------------
Init ==
  /\ name \in DOMAIN TypeOf
  /\ \/ producer = "caller" /\ docs = <<>> /\ chunk = 0 /\ table = None
     \/ /\ producer \in {"array", "lines"}
        /\ docs \in Documents[name]
        /\ chunk \in ChunkRows
        /\ table = None
     \/ /\ producer = "avro"
        /\ docs \in Data[name]
        /\ chunk \in ChunkRows
        /\ table = None
     \/ /\ producer = "table"
        /\ docs = <<>>
        /\ chunk \in ChunkRows \cup {0}
        /\ table \in Tables[name]
  /\ at = 0
  /\ source = None
  /\ rowCount = None
  /\ stripes = <<>>
  /\ written = <<>>
  /\ status = "open"

\* write_column and finish_stripe of a writer with one column.
Stripe(c, leaves) ==
  /\ rowCount \in {None, RowCount(c)}
  /\ leaves # Err
  /\ stripes' = Append(stripes, [rows |-> RowCount(c), leaves |-> leaves])
  /\ written' = Append(written, c)
  /\ rowCount' = None

CallerWrites(c, leaves) ==
  /\ Stripe(c, leaves)
  /\ UNCHANGED <<name, producer, docs, chunk, at, source, table, status>>

\* The row count is taken before the column is looked at, and stays.
CallerRefused(c, leaves) ==
  /\ rowCount \in {None, RowCount(c)}
  /\ leaves = Err
  /\ rowCount' = RowCount(c)
  /\ UNCHANGED <<name, producer, docs, chunk, at, source, table, stripes,
                 written, status>>

CallerStep ==
  /\ producer = "caller" /\ status = "open"
  /\ Len(stripes) < MaxStripes
  /\ \E c \in Candidates[name] : \E leaves \in {Decompose(c, type)} :
       CallerWrites(c, leaves) \/ CallerRefused(c, leaves)

LoadArray ==
  /\ producer = "array" /\ status = "open" /\ source = None
  /\ LET c == FromJson(docs, type)
     IN IF c = Err THEN status' = "failed" /\ UNCHANGED source
        ELSE source' = c /\ UNCHANGED status
  /\ UNCHANGED <<name, producer, docs, chunk, at, table, rowCount, stripes,
                 written>>

\* A chunk is handed over while there are rows left, and once if there are
\* none at all.
RowsIn == IF producer = "array" THEN RowCount(source) ELSE Len(docs)
ChunkLeft == at < RowsIn \/ (RowsIn = 0 /\ stripes = <<>>)
ChunkLen == IF chunk < RowsIn - at THEN chunk ELSE RowsIn - at

HandOver(c, rows) ==
  LET leaves == IF c = Err THEN Err ELSE Decompose(c, type)
  IN IF leaves # Err
     THEN Stripe(c, leaves) /\ at' = at + rows /\ UNCHANGED status
     ELSE status' = "failed" /\ UNCHANGED <<at, rowCount, stripes, written>>

\* Mutants: every chunk is cut from the beginning; the last one is not clipped.
SliceFromStart ==
  /\ producer = "array" /\ status = "open" /\ source # None
  /\ ChunkLeft
  /\ HandOver(Slice(source, 0, ChunkLen), ChunkLen)
  /\ UNCHANGED <<name, producer, docs, chunk, source, table>>
SliceUnclipped ==
  /\ producer = "array" /\ status = "open" /\ source # None
  /\ ChunkLeft
  /\ HandOver(Slice(source, at, chunk), ChunkLen)
  /\ UNCHANGED <<name, producer, docs, chunk, source, table>>

SliceChunk ==
  /\ producer = "array" /\ status = "open" /\ source # None
  /\ ChunkLeft
  /\ HandOver(Slice(source, at, ChunkLen), ChunkLen)
  /\ UNCHANGED <<name, producer, docs, chunk, source, table>>

LinesChunk ==
  /\ producer = "lines" /\ status = "open"
  /\ ChunkLeft
  /\ HandOver(FromJson(SubSeq(docs, at + 1, at + ChunkLen), type), ChunkLen)
  /\ UNCHANGED <<name, producer, docs, chunk, source, table>>

\* The column has the type of the file, whatever the writer's is; no data, no
\* chunk.
AvroChunk ==
  /\ producer = "avro" /\ status = "open"
  /\ at < RowsIn
  /\ HandOver(FromAvro(SubSeq(docs, at + 1, at + ChunkLen), ParseType(AvroOf[name])),
              ChunkLen)
  /\ UNCHANGED <<name, producer, docs, chunk, source, table>>

\* Mutant: rows that do not fill a window are left out.
FullWindows(rows, most) == rows \div most

WindowCount(rows, most) == (rows + most - 1) \div most

\* plan_stripes: the batches that have rows, each cut into windows of at most
\* `chunk' rows; 0 stands for no limit.
Windows(batches) ==
  LET Cut(b) ==
        LET rows == Slots(batches[b])
            most == IF chunk = 0 \/ chunk > rows THEN rows ELSE chunk
            Window(start) == [batch |-> b, start |-> start,
                              count |-> IF start + most > rows THEN rows - start
                                        ELSE most]
        IN IF rows = 0 THEN <<>>
           ELSE [w \in 1..WindowCount(rows, most) |-> Window((w - 1) * most)]
  IN FlattenSeq([b \in DOMAIN batches |-> Cut(b)])

TableLeft == Len(stripes) < Len(Windows(table.batches))

\* One window of write_table: the array is sliced and turned into a column of
\* the writer's type.
TableWindow ==
  /\ producer = "table" /\ status = "open"
  /\ TableLeft
  /\ LET w == Windows(table.batches)[Len(stripes) + 1]
         slice == SliceArray(table.batches[w.batch], w.start, w.count)
     IN HandOver(FromArrow(slice, type), w.count)
  /\ UNCHANGED <<name, producer, docs, chunk, source, table>>

\* A table without rows becomes one empty stripe.
TableEmpty ==
  /\ producer = "table" /\ status = "open"
  /\ Windows(table.batches) = <<>> /\ stripes = <<>>
  /\ HandOver(FromArrow(ToArrow(EmptyColumn(type), type), type), 0)
  /\ UNCHANGED <<name, producer, docs, chunk, source, table>>

\* finish of the writer, which wants a stripe.
Finish ==
  /\ status = "open"
  /\ \/ producer = "caller"
     \/ producer = "lines" /\ ~ChunkLeft
     \/ producer = "avro" /\ at = RowsIn
     \/ producer = "array" /\ source # None /\ ~ChunkLeft
     \/ producer = "table" /\ ~TableLeft /\ stripes # <<>>
  /\ status' = IF stripes = <<>> THEN "failed" ELSE "done"
  /\ UNCHANGED <<name, producer, docs, chunk, at, source, table, rowCount,
                 stripes, written>>

Next ==
  \/ CallerStep
  \/ LoadArray
  \/ SliceChunk
  \/ LinesChunk
  \/ AvroChunk
  \/ TableWindow
  \/ TableEmpty
  \/ Finish

Spec == Init /\ [][Next]_vars

-----------------------------------------------------------------------------
(* What a document becomes when it is stored in a column of type t and      *)
(* exported again, one document at a time; Err if it cannot be stored.      *)
RECURSIVE Meaning(_, _)
Meaning(doc, t) ==
  LET Shaped(ok, v) == IF ok /\ \A i \in DOMAIN v : v[i] # Err
                       THEN Json(doc.shape, v) ELSE Err
      Wrapped(v) == IF \E i \in DOMAIN v : v[i] = Err THEN Err
                    ELSE Json("object", v)
  IN CASE t.kind = "primitive" ->
            IF Parsed(doc) = Err THEN Err ELSE Json("number", << Parsed(doc) >>)
       [] t.kind = "utf8" ->
            IF AsText(doc) = Err THEN Err ELSE Json("string", AsText(doc))
       [] t.kind = "nullable" -> IF doc = Null THEN Null
                                 ELSE Meaning(doc, t.kids[1])
       [] t.kind = "dict" -> Meaning(doc, t.kids[1])
       [] t.kind = "list" ->
            Shaped(doc.shape = "array",
                   [i \in DOMAIN doc.v |-> Meaning(doc.v[i], t.kids[1])])
       [] t.kind = "map" ->
            Shaped(doc.shape = "object",
                   [key \in DOMAIN doc.v |-> Meaning(doc.v[key], t.kids[2])])
       [] t.kind = "struct" ->
            Wrapped([key \in ToSet(t.names) |->
                       Meaning(Get(doc, key),
                               t.kids[CHOOSE k \in DOMAIN t.names :
                                        t.names[k] = key])])
       [] t.kind = "union" ->
            IF Variant(doc, t) = 0 THEN Err
            ELSE Wrapped([key \in {t.names[Variant(doc, t)]} |->
                            Meaning(doc, t.kids[Variant(doc, t)])])

\* What a datum is in the export, one datum at a time.
RECURSIVE AvroMeaning(_, _)
AvroMeaning(d, a) ==
  LET inner == d.v[2]
      kid == a.kids[d.v[1] + 1]
      named == Cardinality({k \in DOMAIN a.kids : a.kids[k].kind # "null"}) > 1
      Below(k, t) == [i \in k |-> AvroMeaning(d.v[i], t)]
  IN CASE a.kind \in {"int", "long", "double", "date", "decimal"} -> Json("number", d.v)
       [] a.kind \in {"string", "bytes"} -> Json("string", d.v)
       [] a.kind = "enum" -> Json("string", d.v[2])
       [] a.kind = "array" -> Json("array", Below(DOMAIN d.v, a.kids[1]))
       [] a.kind = "map" -> Json("object", Below(DOMAIN d.v, a.kids[1]))
       [] a.kind = "record" ->
            Json("object", [n \in DOMAIN d.v |->
                              AvroMeaning(d.v[n], a.kids[CHOOSE k \in DOMAIN a.fields :
                                                           a.fields[k] = n])])
       [] a.kind = "union" ->
            CASE inner = NullDatum -> Null
              [] inner # NullDatum /\ ~named -> AvroMeaning(inner, kid)
              [] OTHER -> Json("object", [n \in {VariantName(kid)} |-> AvroMeaning(inner, kid)])

\* A union of one branch, or a logical type without a counterpart.
RECURSIVE Unread(_)
Unread(a) == \/ a.kind = "time"
             \/ a.kind = "union" /\ Len(a.kids) = 1
             \/ \E k \in DOMAIN a.kids : Unread(a.kids[k])

\* A datum in a union of null and several others that does not fit the variant
\* of its own branch before all others.
RECURSIVE Misled(_, _)
Misled(d, a) ==
  LET kid == a.kids[d.v[1] + 1]
      Others(n) == SelectSeq(SubSeq(a.kids, 1, n), LAMBDA k : k.kind # "null")
  IN CASE a.kind = "union" ->
            \/ /\ Others(Len(a.kids)) # a.kids /\ Len(Others(Len(a.kids))) > 1
               /\ kid.kind # "null"
               /\ FirstFitting(kid.kind, ParseType(a).kids[1]) # Len(Others(d.v[1] + 1))
            \/ Misled(d.v[2], kid)
       [] a.kind \in {"array", "map"} -> \E i \in DOMAIN d.v : Misled(d.v[i], a.kids[1])
       [] a.kind = "record" -> \E k \in DOMAIN a.kids : Misled(d.v[a.fields[k]], a.kids[k])
       [] OTHER -> FALSE

RECURSIVE Has(_, _)
Has(t, kinds) == t.kind \in kinds \/ \E k \in DOMAIN t.kids : Has(t.kids[k], kinds)

\* The offsets that the lists and maps of a column reach, added up, and the
\* bytes and elements that a document holds: all offsets stay below these.
RECURSIVE Reach(_), Size(_)
Reach(c) == Total([k \in DOMAIN c.kids |-> Reach(c.kids[k])])
              + (IF c.kind \in {"list", "map"} THEN Last(c.own) ELSE 0)
Size(doc) ==
  CASE doc.shape \in {"array", "object", "map", "record"} ->
         LET keys == SetToSeq(DOMAIN doc.v)
         IN Len(keys) + Total([i \in DOMAIN keys |-> Size(doc.v[keys[i]])])
    [] doc.shape = "union" -> Size(doc.v[2])
    [] doc.shape = "enum" -> Len(doc.v[2])
    [] OTHER -> Len(doc.v)

\* Nulls in places where the type has none: an array may hold them in the items
\* of lists, in variants and in dictionaries.
RECURSIVE HasHiddenNulls(_, _)
HasHiddenNulls(a, t) ==
  LET own == IF t.kind = "nullable" THEN t.kids[1] ELSE t
  IN \/ t.kind # "nullable" /\ Tally(a.valid, FALSE) > 0
     \/ \E k \in DOMAIN a.kids : HasHiddenNulls(a.kids[k], own.kids[k])

HiddenNulls == \E b \in DOMAIN table.batches :
                 HasHiddenNulls(table.batches[b], ColumnType(table.field))

\* A map whose values are not nullable.
RECURSIVE PlainMap(_)
PlainMap(t) == \/ t.kind = "map" /\ t.kids[2].kind # "nullable"
               \/ \E k \in DOMAIN t.kids : PlainMap(t.kids[k])

\* A union that is null somewhere, or an offset that does not fit i32.
RECURSIVE Unbatchable(_)
Unbatchable(c) ==
  \/ c.kind = "nullable" /\ c.kids[1].kind = "union" /\ Tally(c.own, FALSE) > 0
  \/ c.kind \in {"list", "map"} /\ Last(c.own) >= Word \div 2
  \/ \E k \in DOMAIN c.kids : Unbatchable(c.kids[k])

RECURSIVE DictBelowDict(_, _)
DictBelowDict(t, above) ==
  LET dict == t.kind = "dict"
  IN (dict /\ above) \/ \E k \in DOMAIN t.kids : DictBelowDict(t.kids[k], dict \/ above)

RECURSIVE SameType(_, _)
SameType(t, u) == /\ t.kind = u.kind /\ (t.kind # "union" => t.names = u.names)
                  /\ DOMAIN t.kids = DOMAIN u.kids
                  /\ \A k \in DOMAIN t.kids : SameType(t.kids[k], u.kids[k])

TableRows == FlattenSeq([b \in DOMAIN table.batches |-> ArrowRows(table.batches[b])])

RowsWritten ==
  FlattenSeq([s \in DOMAIN written |-> JsonRows(written[s], type)])

-----------------------------------------------------------------------------
(* Whatever decompose accepts, compose gives back as it was: no column whose *)
(* offsets, counts, tags or indices disagree gets into a file, and the       *)
(* leaves and the row count of a stripe determine the column.                *)
StripesReadable ==
  \A s \in DOMAIN stripes : ReadPiece(stripes[s], type) = written[s]

(* read_column over all stripes has the rows of the stripes one after the    *)
(* other, as long as the offsets of all stripes together fit u32; it fails   *)
(* only for dictionaries over several stripes.                               *)
ColumnReadsAll ==
  (status = "done" /\ Total([s \in DOMAIN written |-> Reach(written[s])]) < Word)
  => LET c == ReadColumn(stripes, type)
     IN IF c = Err THEN Has(type, {"dict"}) /\ Len(stripes) > 1
        ELSE JsonRows(c, type) = RowsWritten

(* The stripes of an import hold, at every moment, the documents handed over *)
(* so far, in their order: chunking, null compaction, variant buffers and     *)
(* dictionaries lose, repeat and exchange nothing.  The same holds for Avro   *)
(* data, but for those in a union of null with several others that fit        *)
(* another variant too: pick_union_variant_by_shape no longer has the branch. *)
ImportFaithful ==
  /\ producer \in {"array", "lines"} =>
       RowsWritten = [i \in 1..at |-> Meaning(docs[i], type)]
  /\ producer = "avro" =>
       /\ Len(RowsWritten) = at
       /\ \A i \in 1..at : \/ Misled(docs[i], AvroOf[name])
                          \/ RowsWritten[i] = AvroMeaning(docs[i], AvroOf[name])

(* An import fails only for a document that the schema cannot hold, or for    *)
(* offsets beyond u32; and none with such a document ends well.  One of Avro  *)
(* data, which fit their type, fails only if that is not the writer's, if     *)
(* there are none, as the empty stripe that other formats get is missing, for *)
(* data in those unions, for unions of one branch, and for logical types that *)
(* have no counterpart, whose data the readers of numbers do not know.        *)
ImportFailsForCause ==
  LET unfit == \E i \in DOMAIN docs : Meaning(docs[i], type) = Err
      large == Total([i \in DOMAIN docs |-> Size(docs[i])]) >= Word
  IN /\ producer \in {"array", "lines"} =>
          /\ status = "failed" => unfit \/ large
          /\ status = "done" => ~unfit /\ at = Len(docs)
     /\ producer = "avro" =>
          /\ status = "failed" =>
               \/ docs = <<>> \/ large
               \/ type # ParseType(AvroOf[name]) \/ Unread(AvroOf[name])
               \/ \E i \in DOMAIN docs : Misled(docs[i], AvroOf[name])
          /\ status = "done" => at = Len(docs)

(* Every window that slice cuts out of a column has the rows of that window, *)
(* and can itself be written: the compact children of nullables and unions   *)
(* and the offsets of lists and maps move along.                             *)
WindowsFaithful ==
  \A s \in DOMAIN written :
    LET c == written[s]
    IN \A start \in 0..RowCount(c) : \A count \in 0..RowCount(c) - start :
         LET w == Slice(c, start, count)
         IN /\ w # Err
            /\ Decompose(w, type) # Err
            /\ JsonRows(w, type)
                 = SubSeq(JsonRows(c, type), start + 1, start + count)

(* The stripes of a table hold the rows of its batches in their order, and no *)
(* null becomes a value, except in the items of lists, in variants and in     *)
(* dictionaries, where schema_from_arrow does not look for nulls.             *)
TableFaithful ==
  (producer = "table" /\ ~HiddenNulls) => RowsWritten = SubSeq(TableRows, 1, at)

(* write_table fails only for a column that the optimizer turned into a       *)
(* dictionary, for lists, maps and unions that stripe_rows cuts, whose arrays *)
(* keep the children whole, and for the key behind a hidden null; otherwise   *)
(* all rows get in.                                                           *)
TableFailsForCause ==
  producer = "table" =>
    /\ status = "failed" =>
         \/ type # ColumnType(table.field)
         \/ /\ Has(type, {"list", "map", "union"})
            /\ \E b \in DOMAIN table.batches : chunk \in 1..Slots(table.batches[b]) - 1
         \/ HiddenNulls
    /\ status = "done" => at = Len(TableRows)

(* A stripe read as a record batch has the rows of the stripe, nulls in their *)
(* places whatever nests in what, and turned back into a column it has them   *)
(* still.  There is no batch for maps whose values are not nullable, nullable *)
(* unions with nulls, and offsets beyond i32.                                 *)
BatchesFaithful ==
  \A s \in DOMAIN written :
    LET rows == JsonRows(written[s], type)
        batch == RecordBatch(ReadPiece(stripes[s], type), type)
    IN IF batch = Err
       THEN PlainMap(type) \/ Unbatchable(written[s])
       ELSE /\ ArrowRows(batch) = rows
            /\ JsonRows(FromArrow(batch, type), type) = rows

(* Whatever dictionaries the optimizer puts into the type of a column, the    *)
(* plain column, reshaped, can be written with that type and has the same     *)
(* rows; except inside a dictionary, where reshape_to_schema_type stops.      *)
PromotionsWritable ==
  \A s \in DOMAIN written : \A promoted \in Promotions(type, TRUE) :
    LET reshaped == Reshape(written[s], promoted)
    IN DictBelowDict(promoted, FALSE) \/
       /\ Decompose(reshaped, promoted) # Err
       /\ JsonRows(reshaped, promoted) = JsonRows(written[s], type)

(* A column that is read over all stripes and exported to Avro comes back with *)
(* the same rows, and with the same type but for the names of variants, which  *)
(* are made of Avro's types.  The export fails only for dictionaries with      *)
(* values, keys that are not strings, unions directly in unions, variants of   *)
(* one Avro type, and decimals, for which the library is asked.                *)
AvroFaithful ==
  status = "done" =>
    LET c == ReadColumn(stripes, type)
        a == AvroTypeOf(type, <<>>)
        fit == Total([s \in DOMAIN written |-> Reach(written[s])]) < Word
    IN (c # Err /\ fit) =>
         IF Exported(c, type) = Err
         THEN Has(type, {"dict", "decimal"}) \/ ~TextKeys(type) \/ ~ValidAvro(a)
         ELSE /\ ~Has(type, {"dict"}) => SameType(ParseType(a), type)
              /\ JsonRows(FromAvro(Exported(c, type), type), type) = RowsWritten

=============================================================================
