----------------------------- MODULE MCSchemas -------------------------------
(* Types up to four deep where the cap is three, and schemas of two columns.  *)
EXTENDS Schemas

MCWidth == [i8 |-> 3, i32 |-> 4, u8 |-> 2, u32 |-> 4, f64 |-> 4,
            i16 |-> 3, u16 |-> 3, i64 |-> 4, u64 |-> 4, f32 |-> 2]

Int64 == Leaf("i64")
Text == Leaf("utf8")
Struct(names, kids) == LogicalType("struct", names, kids, [k \in DOMAIN kids |-> <<>>])
Union(names, kids) == LogicalType("union", names, kids, <<>>)

Around(kind, t) == CASE kind = "struct" -> Struct(<<"a">>, <<t>>)
                   [] kind = "map" -> Of("map", <<Text, t>>)
                   [] kind = "union" -> Union(<<"a", "b">>, <<t, Leaf("f64")>>)
                   [] OTHER -> Of(kind, <<t>>)

Nest(kinds, t) == FoldRight(Around, kinds, t)

Chains(n, kinds, t) == {Nest(c, t) : c \in UNION {[1..k -> kinds] : k \in 0..n}}
Deep(kinds, t) == {Nest([i \in 1..n |-> k], t) : n \in 3..4, k \in kinds}

Wide == {Struct(<<"a", "b">>, <<Of("map", <<Text, Int64>>), Text>>),
         Union(<<"a", "b">>, <<Of("list", <<Text>>), Struct(<<"a">>, <<Int64>>)>>),
         Of("map", <<Leaf("u8"), Of("nullable", <<Text>>)>>),
         Of("dict", << Struct(<<"a", "b">>, <<Leaf("decimal128"), Leaf("date32")>>) >>),
         Leaf("datetime"), Leaf("binary"), Leaf("u8")}

MCShapes == Chains(2, {"struct", "list", "map", "nullable", "union", "dict"}, Text)
              \cup Deep({"struct", "list", "nullable"}, Int64) \cup Wide

MCSamples == {Text, Around("dict", Text), Nest(<<"struct", "struct", "struct">>, Text),
              Around("nullable", Leaf("u8")), Of("map", <<Leaf("u8"), Leaf("f64")>>),
              Union(<<"a", "b">>, <<Leaf("binary"), Leaf("f64")>>),
              Nest(<<"list", "struct">>, Leaf("f64")), Leaf("decimal128"), Leaf("date32")}

\* What callers state: defaults, and what is wrong with a schema in every way.
Plain(name, t) == ColumnSpec(name, Generated[t], DefaultEncodings[Generated[t]])
With(t, encodings) == ColumnSpec("a", t, encodings)

Counts(t) == LET all == DefaultEncodings[t]
             IN {With(t, SubSeq(all, 1, n)) : n \in 0..Len(all)}
                  \cup {With(t, Append(all, Stages(<<"zstd">>)))}

MCSpecs ==
  {Plain(n, Int64) : n \in {"a", "b", ""}}
    \cup {Plain("b", t) : t \in Deep({"struct", "list"}, Int64)
                                \cup {Nest(<<"struct", "struct">>, Int64),
                                      Nest(<<"union", "nullable">>, Int64)}}
    \cup UNION {Counts(Generated[t]) :
                  t \in {Text, Nest(<<"list", "nullable">>, Text), Around("dict", Text),
                         Of("map", <<Text, Of("map", <<Int64, Text>>)>>),
                         Around("struct", Text), Around("union", Text)}}
    \cup {With(Int64, <<Stages(ids)>>) : ids \in {<<>>, <<"delta">>, <<"gorilla">>,
                                                   <<"zstd">>, <<"rle", "leb128">>}}
    \cup {With(Leaf("bytes"), << <<>> >>), Plain("b", Leaf("bytes")),
          With(Around("struct", Int64), <<>>),
          Plain("a", Union(<<>>, <<>>)),
          Plain("a", Union(<<"a", "b", "c">>, <<Int64, Text, Int64>>)),
          Plain("a", Union(<<"a", "a">>, <<Int64, Text>>)),
          Plain("a", Union(<<"">>, <<Int64>>)),
          Plain("a", Struct(<<"b", "b">>, <<Int64, Text>>)),
          Plain("a", Struct(<<"">>, <<Int64>>)),
          Plain("a", Struct(<<>>, <<>>)),
          Plain("a", Of("list", <<Of("map", <<Of("nullable", <<Text>>), Text>>)>>)),
          Plain("a", Of("map", <<Leaf("date32"), Text>>))}
=============================================================================
