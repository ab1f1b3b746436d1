------------------------------ MODULE AvroBridge -------------------------------
(***************************************************************************)
(* Avro types and data as logical columns, and back                        *)
(* (src/src/schema/avro.rs).                                               *)
(*                                                                         *)
(* A type is its kind, the name of a record or an enum, the names of a     *)
(* record's fields, and its children; "bytes" is also fixed, "date" every  *)
(* logical type that has a counterpart, "time" one that has none.  A datum *)
(* is its shape, the kind of its type, and its content: <<number>>, the    *)
(* bytes of a string, <<index, symbol>> of an enum, the items of an array, *)
(* the function of a map or a record, <<branch, datum>> of a union, whose  *)
(* branches are counted from 0.  The library that reads and writes Avro    *)
(* files gives back what it was given.                                     *)
(***************************************************************************)
EXTENDS ArrowBridge

AvroType(kind, name, fields, kids) ==
  [kind |-> kind, name |-> name, fields |-> fields, kids |-> kids]

Datum(shape, v) == [shape |-> shape, v |-> v]
NullDatum == Datum("null", <<>>)

\* The numbers of values that are arrays or objects, one after the other.
OffsetsOf(values) ==
  [i \in 1..Len(values) + 1 |->
     Total([j \in 1..i - 1 |-> Cardinality(DOMAIN values[j].v)])]
KeysOf(values) == FlattenSeq([i \in DOMAIN values |-> SetToSeq(DOMAIN values[i].v)])
ItemsOf(values) ==
  FlattenSeq([i \in DOMAIN values |->
                LET keys == SetToSeq(DOMAIN values[i].v)
                IN [k \in DOMAIN keys |-> values[i].v[keys[k]]]])

-----------------------------------------------------------------------------
(* Types.                                                                   *)

NumberOf == [int |-> "i32", time |-> "i32", long |-> "i64", double |-> "f64"]
Text(kind) == LogicalType("utf8", <<kind>>, <<>>)

\* avro_variant_name
VariantName(a) == IF a.name = <<>> THEN <<a.kind>> ELSE a.name

\* The types without children.
LeafType(kind) ==
  CASE kind \in DOMAIN NumberOf -> LogicalType("primitive", << NumberOf[kind] >>, <<>>)
    [] kind \in {"string", "bytes"} -> Text(kind)
    [] OTHER -> LogicalType(kind, <<>>, <<>>)

\* A union is told by what it has besides null: one branch stands for itself.
ParseUnion(branches, types) ==
  LET others == SelectSeq([k \in DOMAIN branches |-> k], LAMBDA k : branches[k].kind # "null")
      names == [i \in DOMAIN others |-> VariantName(branches[others[i]])]
      choice == IF Len(others) = 1 THEN types[others[1]]
                ELSE LogicalType("union", names, [i \in DOMAIN others |-> types[others[i]]])
  IN IF Len(others) = Len(branches) THEN choice ELSE Optional(choice)

\* parse_avro_type
RECURSIVE ParseType(_)
ParseType(a) ==
  LET kids == [k \in DOMAIN a.kids |-> ParseType(a.kids[k])]
  IN CASE a.kind = "enum" -> DictOf(Text("string"))
       [] a.kind = "array" -> LogicalType("list", <<>>, kids)
       [] a.kind = "map" -> LogicalType("map", <<>>, <<Text("string")>> \o kids)
       [] a.kind = "record" -> LogicalType("struct", a.fields, kids)
       [] a.kind = "union" -> ParseUnion(a.kids, kids)
       [] OTHER -> LeafType(a.kind)

\* helium_lt_to_avro_json; the record of a struct is named for its place.
RECURSIVE AvroTypeOf(_, _)
AvroTypeOf(t, name) ==
  LET Plain(kind, kids) == AvroType(kind, <<>>, <<>>, kids)
      Kid(k) == AvroTypeOf(t.kids[k], IF t.kind \in {"struct", "union"} THEN t.names[k]
                                      ELSE name)
      kids == [k \in DOMAIN t.kids |-> Kid(k)]
  IN CASE t.kind = "primitive" ->
            Plain(CHOOSE kind \in {"int", "long", "double"} : NumberOf[kind] = t.names[1], <<>>)
       [] t.kind = "utf8" -> Plain(t.names[1], <<>>)
       [] t.kind = "nullable" -> Plain("union", << Plain("null", <<>>) >> \o kids)
       [] t.kind = "list" -> Plain("array", kids)
       [] t.kind = "map" -> Plain("map", Tail(kids))
       [] t.kind = "struct" -> AvroType("record", name, t.names, kids)
       [] t.kind = "union" -> Plain("union", kids)
       [] t.kind = "dict" -> kids[1]
       [] OTHER -> Plain(t.kind, <<>>)

\* What Avro requires of a union: none directly in it, no two branches alike.
RECURSIVE ValidAvro(_)
ValidAvro(a) ==
  /\ \A k \in DOMAIN a.kids : ValidAvro(a.kids[k])
  /\ a.kind = "union" =>
       \A k, j \in DOMAIN a.kids :
         /\ a.kids[k].kind # "union"
         /\ a.kids[k].kind = a.kids[j].kind /\ a.kids[k].name = a.kids[j].name => k = j

RECURSIVE TextKeys(_)
TextKeys(t) == /\ t.kind = "map" => t.kids[1] = Text("string")
               /\ \A k \in DOMAIN t.kids : TextKeys(t.kids[k])

-----------------------------------------------------------------------------
(* From data to columns.                                                    *)

\* A long as an i32.
AsInt(n) == ((n + Word \div 2) % Word) - Word \div 2

\* The variant that a datum goes to by its shape, 0 if there is none.
FirstFitting(shape, t) ==
  LET Fits(v) == CASE v.kind = "primitive" ->
                        \/ shape = "long"
                        \/ <<v.names[1], shape>> \in {<<"i32", "int">>, <<"f64", "double">>}
                   [] v.kind = "utf8" -> shape \in (IF v.names[1] = "bytes" THEN {"bytes"}
                                                    ELSE {"string", "enum"})
                   [] OTHER -> <<v.kind, shape>> \in {<<"struct", "record">>,
                                                       <<"list", "array">>, <<"map", "map">>}
      fitting == {k \in DOMAIN t.kids : Fits(t.kids[k])}
  IN IF fitting = {} THEN 0 ELSE CHOOSE k \in fitting : \A j \in fitting : k <= j

\* In a nullable union the branch is gone with the null.
Branch(d, t) == CASE d.shape = "union" -> d.v[1] + 1
                  [] d.shape = "null" -> 1
                  [] OTHER -> FirstFitting(d.shape, t)
Bare(d) == IF d.shape = "union" THEN d.v[2] ELSE d

RecordField(d, name) ==
  IF d.shape = "record" /\ name \in DOMAIN d.v THEN d.v[name] ELSE NullDatum

\* avro_values_to_logical_column: all data of a chunk at once.
RECURSIVE FromAvro(_, _)

AllOf(data, shapes) == \A i \in DOMAIN data : data[i].shape \in shapes
Mapped(data, Op(_)) == [i \in DOMAIN data |-> Op(data[i])]
NodeOf(t, own, kids) == IF \E k \in DOMAIN kids : kids[k] = Err THEN Err
                        ELSE Column(t.kind, own, kids)

NumbersFromAvro(data, t) ==
  LET number == t.names[1]
      extra == IF number = "f64" THEN "double" ELSE "enum"
      As(d) == IF number = "i32" THEN AsInt(d.v[1]) ELSE d.v[1]
  IN IF AllOf(data, {"int", "long", extra}) THEN NodeOf(t, Mapped(data, As), <<>>) ELSE Err

\* Strings from strings and symbols, bytes from bytes and strings.
TextFromAvro(data, t) ==
  LET extra == IF t.names[1] = "string" THEN "enum" ELSE "string"
      As(d) == IF d.shape = "enum" THEN d.v[2] ELSE d.v
  IN IF AllOf(data, {t.names[1], extra}) THEN NodeOf(t, Mapped(data, As), <<>>) ELSE Err

SemanticFromAvro(data, t) ==
  IF AllOf(data, {"int", "long", t.kind})
  THEN NodeOf(t, Mapped(data, LAMBDA d : d.v[1]), <<>>)
  ELSE Err

NullableFromAvro(data, t) ==
  LET present == SelectSeq(data, LAMBDA d : Bare(d).shape # "null")
  IN NodeOf(t, Mapped(data, LAMBDA d : Bare(d).shape # "null"),
          << FromAvro(Mapped(present, Bare), t.kids[1]) >>)

NestedFromAvro(data, t) ==
  LET keys == [i \in DOMAIN KeysOf(data) |-> Datum("string", KeysOf(data)[i])]
      items == FromAvro(ItemsOf(data), Last(t.kids))
  IN IF /\ AllOf(data, {IF t.kind = "list" THEN "array" ELSE "map"})
        /\ Last(OffsetsOf(data)) < Word
     THEN NodeOf(t, OffsetsOf(data), IF t.kind = "list" THEN <<items>>
                                   ELSE << FromAvro(keys, t.kids[1]), items >>)
     ELSE Err

StructFromAvro(data, t) ==
  LET Field(k) == Mapped(data, LAMBDA d : RecordField(d, t.names[k]))
  IN NodeOf(t, <<>>, [k \in DOMAIN t.kids |-> FromAvro(Field(k), t.kids[k])])

UnionFromAvro(data, t) ==
  LET Of(k) == Mapped(SelectSeq(data, LAMBDA d : Branch(d, t) = k), Bare)
  IN IF \E i \in DOMAIN data : Branch(data[i], t) \notin DOMAIN t.kids THEN Err
     ELSE NodeOf(t, Mapped(data, LAMBDA d : Branch(d, t) - 1),
               [k \in DOMAIN t.kids |-> FromAvro(Of(k), t.kids[k])])

\* Only strings are made distinct.
DictFromAvro(data, t) ==
  LET plain == FromAvro(data, t.kids[1])
  IN CASE plain # Err /\ t.kids[1] = Text("string") -> DictEncode(plain)
       [] OTHER -> NodeOf(t, [i \in DOMAIN data |-> i - 1], <<plain>>)

FromAvro(data, t) ==
  CASE t.kind = "primitive" -> NumbersFromAvro(data, t)
    [] t.kind = "utf8" -> TextFromAvro(data, t)
    [] t.kind \in {"date", "decimal"} -> SemanticFromAvro(data, t)
    [] t.kind = "nullable" -> NullableFromAvro(data, t)
    [] t.kind \in {"list", "map"} -> NestedFromAvro(data, t)
    [] t.kind = "struct" -> StructFromAvro(data, t)
    [] t.kind = "union" -> UnionFromAvro(data, t)
    [] t.kind = "dict" -> DictFromAvro(data, t)
    [] OTHER -> Err

-----------------------------------------------------------------------------
(* From columns to data.                                                    *)

\* Mutant: the rows before are not counted.
FirstRow(own, r) == 1

\* The row of a compact child that row r takes.
CompactRow(own, r) == Tally(SubSeq(own, 1, r - 1), own[r]) + 1

\* logical_column_to_avro_value: row r, counted from 1.
RECURSIVE ToAvro(_, _, _)
ToAvro(c, t, r) ==
  LET Kid(k, i) == ToAvro(c.kids[k], t.kids[k], i)
      Entries == c.own[r] + 1 .. c.own[r + 1]
      Key(i) == Kid(1, i).v
      LastAt(key) == CHOOSE i \in Entries :
                       Key(i) = key /\ \A j \in Entries : Key(j) = key => j <= i
      at == CompactRow(c.own, r)
  IN CASE t.kind = "nullable" -> Datum("union", IF c.own[r] THEN <<1, Kid(1, at)>>
                                                ELSE <<0, NullDatum>>)
       [] t.kind = "union" -> Datum("union", <<c.own[r], Kid(c.own[r] + 1, at)>>)
       [] t.kind = "list" -> Datum("array", [i \in 1..Cardinality(Entries) |->
                                               Kid(1, c.own[r] + i)])
       [] t.kind = "map" -> Datum("map", [key \in {Key(i) : i \in Entries} |->
                                            Kid(2, LastAt(key))])
       [] t.kind = "struct" ->
            Datum("record", [n \in ToSet(t.names) |->
                               Kid(CHOOSE k \in DOMAIN t.names : t.names[k] = n, r)])
       [] t.kind = "utf8" -> Datum(t.names[1], c.own[r])
       [] t.kind = "dict" -> Datum("dict", <<>>)
       [] OTHER -> Datum(AvroTypeOf(t, <<>>).kind, << c.own[r] >>)

\* No dictionary is in a datum, for which there is no conversion, and no decimal:
\* whether the library takes its bytes is not modelled.
RECURSIVE Complete(_)
Complete(d) == CASE d.shape \in {"array", "map", "record"} ->
                      \A k \in DOMAIN d.v : Complete(d.v[k])
                 [] d.shape = "union" -> Complete(d.v[2])
                 [] OTHER -> d.shape \notin {"dict", "decimal"}

\* write_avro_data for one column.
Exported(c, t) ==
  LET rows == [r \in 1..RowCount(c) |-> ToAvro(c, t, r)]
  IN IF /\ TextKeys(t)
        /\ ValidAvro(AvroTypeOf(t, <<>>))
        /\ \A r \in DOMAIN rows : Complete(rows[r])
     THEN rows ELSE Err
=============================================================================
