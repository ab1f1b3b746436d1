----------------------------- MODULE MCConvert -------------------------------
(* Columns of every kind, nested up to three deep.                           *)
EXTENDS Convert

Type(kind, kids) == LogicalType(kind, <<>>, kids)
Named(kind, names, kids) == LogicalType(kind, names, kids)

Prim == Named("primitive", <<"i64">>, <<>>)
Utf8 == Text("string")
Opt(t) == Type("nullable", <<t>>)
List(t) == Type("list", <<t>>)
Dict(t) == Type("dict", <<t>>)

JsonTypes ==
  [date    |-> Type("date", <<>>),
   decimal |-> Type("decimal", <<>>),
   text    |-> Opt(Utf8),
   lists   |-> List(Opt(Prim)),
   map     |-> Type("map", <<Utf8, Opt(Prim)>>),
   struct  |-> Named("struct", << <<1>>, <<2>> >>, <<Prim, Opt(List(Prim))>>),
   union   |-> Named("union", << <<1>>, <<2>>, <<3>> >>,
                     <<Prim, Utf8, Opt(List(Prim))>>),
   choice  |-> Named("union", << <<1>>, <<2>> >>, <<Prim, Utf8>>),
   words   |-> Dict(Utf8),
   bags    |-> List(Dict(Prim)),
   records |-> Dict(Named("struct", << <<1>> >>, <<Opt(Prim)>>)),
   numbers |-> List(Prim),
   series  |-> Opt(List(Prim)),
   people  |-> Opt(Named("struct", << <<1>>, <<2>> >>, <<Opt(Utf8), Prim>>)),
   either  |-> Opt(Named("union", << <<1>>, <<2>> >>, <<Prim, Utf8>>)),
   counts  |-> Type("map", <<Utf8, Prim>>),
   tags    |-> Opt(Dict(Utf8))]

\* Columns of Avro files.
Plain(kind) == AvroType(kind, <<>>, <<>>, <<>>)
Around(kind, kid) == AvroType(kind, <<>>, <<>>, <<kid>>)
Choice(kids) == AvroType("union", <<>>, <<>>, kids)
OrNull(kid) == Choice(<<Plain("null"), kid>>)
Record(n, fields, kids) == AvroType("record", n, fields, kids)
Enum == AvroType("enum", <<"e">>, <<>>, <<>>)
IntOrNot == OrNull(Plain("int"))

AvroTypes ==
  [longs    |-> Around("array", Plain("long")),
   doubles  |-> Choice(<<Plain("double"), Plain("null")>>),
   branches |-> Choice(<<Plain("int"), Plain("long"), Enum>>),
   scalars  |-> Choice(<<Plain("string"), Plain("null"), Plain("long")>>),
   numerics |-> Choice(<<Plain("null"), Plain("int"), Plain("long")>>),
   persons  |-> Choice(<<Plain("null"), Record(<<"a">>, << <<"x">> >>, <<IntOrNot>>),
                         Record(<<"b">>, << <<"y">> >>, <<Plain("string")>>)>>),
   colors   |-> Enum,
   alone    |-> Choice(<<Plain("long")>>),
   times    |-> Plain("time"),
   events   |-> Record(<<"d">>, << <<"at">>, <<"of">> >>,
                       <<Plain("date"), OrNull(Plain("decimal"))>>),
   blobs    |-> Around("map", OrNull(Around("array", Plain("bytes")))),
   stated   |-> Plain("int")]

\* The last one is imported with a schema that says otherwise.
MCAvroOf == [n \in DOMAIN JsonTypes |-> None] @@ AvroTypes
MCTypeOf == JsonTypes @@ [n \in DOMAIN AvroTypes |->
                            IF n = "stated" THEN Opt(Prim) ELSE ParseType(AvroTypes[n])]

UpTo(n, set) == UNION {[1..k -> set] : k \in 0..n}

\* The data of a type, which has longs that are no ints.
RECURSIVE DataOf(_)
DataOf(a) ==
  LET Below(k) == DataOf(a.kids[k])
      Of(contents) == {Datum(a.kind, v) : v \in contents}
  IN CASE a.kind = "int" -> Of({<<1>>, <<-3>>})
       [] a.kind = "long" -> Of({<<2>>, <<5>>})
       [] a.kind = "string" -> Of({<<>>, <<7, 8>>})
       [] a.kind = "null" -> {NullDatum}
       [] a.kind = "enum" -> Of({<<0, <<1>>>>, <<1, <<2, 3>>>>})
       [] a.kind = "array" -> Of(UpTo(2, Below(1)))
       [] a.kind = "map" -> Of(UNION {[keys -> Below(1)] : keys \in SUBSET {<<1>>, <<2>>}})
       [] a.kind = "record" ->
            Of({v \in [ToSet(a.fields) -> UNION {Below(k) : k \in DOMAIN a.kids}] :
                  \A k \in DOMAIN a.kids : v[a.fields[k]] \in Below(k)})
       [] a.kind = "union" -> Of(UNION {{<<k - 1, d>> : d \in Below(k)} : k \in DOMAIN a.kids})
       [] OTHER -> Of({<<2>>})

MCData == [n \in DOMAIN MCTypeOf |->
             IF n \in DOMAIN JsonTypes THEN {}
             ELSE UpTo(IF Cardinality(DataOf(MCAvroOf[n])) > 6 THEN 2 ELSE 3,
                       DataOf(MCAvroOf[n]))]

Num(n) == Json("number", <<n>>)
Bool(b) == Json("bool", <<b>>)
Str(s) == Json("string", s)
Arr(s) == Json("array", s)
Obj(f) == Json("object", f)

\* The documents to choose from.
Pool ==
  [text    |-> {Null, Str(<<>>), Str(<<7, 8>>), Num(3), Bool(0)},
   lists   |-> {Arr(<<>>), Arr(<<Null>>), Arr(<<Num(1), Null>>), Null,
               Arr(<<Str(Digit(4)), Bool(1)>>), Arr(<<Str(<<9>>)>>)},
   map     |-> {Obj(<<>>), Obj([k \in {<<1>>} |-> Null]),
                Obj([k \in {<<1>>, <<2>>} |-> Num(k[1])]), Arr(<<>>)},
   struct  |-> {Obj([k \in {<<1>>} |-> Num(4)]),
                Obj([k \in {<<1>>, <<2>>} |->
                       IF k = <<1>> THEN Num(5) ELSE Arr(<<Num(6), Num(7)>>)]),
                Null},
   union   |-> {Num(1), Str(Digit(9)), Null, Bool(1), Arr(<<>>)},
   choice  |-> {},
   words   |-> {Str(<<>>), Str(<<1>>), Str(<<1, 2>>)},
   bags    |-> {Arr(<<>>), Arr(<<Num(1)>>), Arr(<<Num(2), Num(1)>>)},
   numbers |-> {}, series |-> {}, people |-> {}, either |-> {},
   counts |-> {}, tags |-> {}]

MCDocuments == [n \in DOMAIN MCTypeOf |->
                  IF n \notin DOMAIN Pool THEN {}
                  ELSE UNION {[1..k -> Pool[n]] : k \in 0..3}]

\* The columns of a type with r rows, well formed or not; no struct is ragged,
\* and values tell the places they are at.
RECURSIVE Columns(_, _)
Columns(t, r) ==
  LET Kids(k) == UNION {Columns(t.kids[k], n) : n \in 0..2}
      Nodes(owns, kids) == {Column(t.kind, o, k) : o \in owns, k \in kids}
  IN CASE t.kind \in {"primitive", "date"} -> Nodes({[i \in 1..r |-> i]}, {<<>>})
       [] t.kind = "decimal" -> Nodes([1..r -> {-5, -1, 2, 6}], {<<>>})
       [] t.kind = "utf8" -> 
            Nodes({[i \in 1..r |-> IF i \in long THEN <<i, i, i>> ELSE <<>>] :
                     long \in SUBSET (1..r)}, {<<>>})
       [] t.kind = "nullable" -> Nodes([1..r -> BOOLEAN], {<<k>> : k \in Kids(1)})
       [] t.kind = "list" ->
            Nodes([1..r + 1 -> 0..2] \cup {<<>>}, {<<k>> : k \in Kids(1)})
       [] t.kind = "map" ->
            Nodes([1..r + 1 -> {0, 1}],
                  {<<k, v>> : k \in Columns(t.kids[1], 1),
                              v \in UNION {Columns(t.kids[2], n) : n \in 0..1}})
       [] t.kind = "struct" ->
            Nodes({<<>>}, {k \in [DOMAIN t.kids ->
                                    UNION {Columns(t.kids[j], r) :
                                             j \in DOMAIN t.kids}] :
                             \A j \in DOMAIN t.kids :
                               k[j] \in Columns(t.kids[j], r)})
       [] t.kind = "dict" -> Nodes([1..r -> {0, 1}], {<<k>> : k \in Kids(1)})
       [] t.kind = "union" -> IF Len(t.kids) > 2 THEN {}
                              ELSE Nodes([1..r -> 0..2],
                                         {<<k, v>> : k \in Kids(1), v \in Kids(2)})

\* Rows for which all columns are tried, per type.
Bound == [n \in DOMAIN MCTypeOf |->
            IF n \in {"struct", "map", "series", "people", "either"} THEN 1 ELSE 2]

MCCandidates == [n \in DOMAIN MCTypeOf |->
                   IF n \notin DOMAIN JsonTypes THEN {}
                   ELSE UNION {Columns(MCTypeOf[n], r) : r \in 0..Bound[n]}]

-----------------------------------------------------------------------------
(* Arrow tables: every array of a field with up to three slots in one batch, *)
(* and a few of two and of no batches.                                       *)

Field(kind, kids) == ArrowField(kind, <<>>, kids, FALSE)
Maybe(f) == [f EXCEPT !.nullable = TRUE]
Number == ArrowField("primitive", <<"i64">>, <<>>, FALSE)
String == ArrowField("utf8", <<"string">>, <<>>, FALSE)

MCFields ==
  [date    |-> {},
   decimal |-> {Field("decimal", <<>>)},
   text    |-> {Maybe(String)},
   lists   |-> {},
   map     |-> {Field("map", <<String, Maybe(Number)>>)},
   struct  |-> {},
   union   |-> {},
   choice  |-> {ArrowField("union", << <<1>>, <<2>> >>,
                           <<Number, Maybe(String)>>, FALSE)},
   words   |-> {Field("dict", <<Maybe(String)>>), String},
   bags    |-> {Field("list", <<Field("dict", <<Number>>)>>)},
   records |-> {},
   numbers |-> {Field("list", <<Maybe(Number)>>)},
   series  |-> {Maybe(Field("list", <<Number>>))},
   people  |-> {ArrowField("struct", << <<1>>, <<2>> >>, <<Maybe(String), Number>>,
                           TRUE)},
   either  |-> {ArrowField("union", << <<1>>, <<2>> >>, <<Number, String>>, TRUE)},
   counts  |-> {Field("map", <<String, Number>>)},
   tags    |-> {Maybe(Field("dict", <<String>>)), Maybe(String)}]

\* The arrays of a field with n slots; a slot without a value holds 0 or nothing.
RECURSIVE Arrays(_, _)
Arrays(f, n) ==
  LET Kids(k) == UNION {Arrays(f.kids[k], m) : m \in 0..2}
      Valid == IF f.nullable /\ f.kind # "union" THEN [1..n -> BOOLEAN]
               ELSE {AllValid(n)}
      Nodes(owns, kids) ==
        {Array(f.kind, f.names, v, o, Nowhere(n), k) : v \in Valid, o \in owns, k \in kids}
      Offsets(m) == {o \in [1..n + 1 -> 0..m] :
                       /\ o[1] = 0 /\ o[n + 1] = m
                       /\ \A i \in 1..n : o[i] <= o[i + 1]}
      Flat(v, Value(_), none) == [i \in 1..n |-> IF v[i] THEN Value(i) ELSE none]
  IN CASE f.kind \in {"primitive", "decimal"} ->
            {Array(f.kind, f.names, v, Flat(v, LAMBDA i : i, 0), Nowhere(n), <<>>) :
               v \in Valid}
       [] f.kind = "utf8" ->
            {Array("utf8", f.names, v, Flat(v, LAMBDA i : <<i % 2>>, <<>>), Nowhere(n),
                   <<>>) : v \in Valid}
       [] f.kind = "list" ->
            UNION {Nodes(Offsets(m), {<<k>> : k \in Arrays(f.kids[1], m)}) : m \in 0..2}
       [] f.kind = "map" ->
            UNION {Nodes(Offsets(m), {<<k, v>> : k \in Arrays(f.kids[1], m),
                                                 v \in Arrays(f.kids[2], m)}) :
                     m \in 0..1}
       [] f.kind = "struct" ->
            Nodes({<<>>}, {<<k, v>> : k \in Arrays(f.kids[1], n),
                                      v \in Arrays(f.kids[2], n)})
       [] f.kind = "dict" ->
            UNION {Nodes([1..n -> 0..m - 1], {<<k>> : k \in Arrays(f.kids[1], m)}) :
                     m \in 1..2}
              \cup (IF n = 0 THEN Nodes({<<>>}, {<<k>> : k \in Arrays(f.kids[1], 0)})
                    ELSE {})
       [] f.kind = "union" ->
            UNION {{Array("union", f.names, AllValid(n), ids, Ranks(ids), <<k, v>>) :
                      k \in Arrays(f.kids[1], Tally(ids, 0)),
                      v \in Arrays(f.kids[2], Tally(ids, 1))} :
                     ids \in [1..n -> 0..1]}

\* Some of the arrays with one and two slots go together in a table.
Pairs(f) == {<<a, b>> : a \in Arrays(f, 1), b \in Arrays(f, 2)}
Few(tables) == IF Cardinality(tables) > 60 THEN {} ELSE tables

Batches(f) == {<<>>} \cup {<<a>> : a \in UNION {Arrays(f, m) : m \in 0..3}}
                \cup Few(Pairs(f))

MCTables ==
  [n \in DOMAIN MCTypeOf |->
     IF n \notin DOMAIN MCFields THEN {}
     ELSE UNION {{[field |-> f, batches |-> b] : b \in Batches(f)} : f \in MCFields[n]}]

\* The optimizer may have changed the type that a table's field has.
ASSUME \A n \in DOMAIN MCFields : \A f \in MCFields[n] :
         MCTypeOf[n] \in Promotions(ColumnType(f), TRUE)

=============================================================================
