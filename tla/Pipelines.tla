------------------------------ MODULE Pipelines -------------------------------
(***************************************************************************)
(* Pipelines of coders: the registry that builds them from specifications  *)
(* (src/src/core/registry.rs, pipeline.rs), the self-describing container   *)
(* HEC0 (src/src/codec), the default pipelines, and the candidates among    *)
(* which the optimizer chooses for a leaf (src/src/optimizer).  A stage is  *)
(* the id of a coder and the width that bitpack_fixed needs, or Fail if the *)
(* specification has none.                                                  *)
(***************************************************************************)
EXTENDS Coders

Stage(id) == [id |-> id, width |-> Fail]
Stages(ids) == [i \in DOMAIN ids |-> Stage(ids[i])]

ByteCoders == {"zstd", "lz4", "snappy"}
TypeKeeping == {"delta", "delta_of_delta", "rle", "deltamin"}
Blocks == ByteCoders \cup {"deltamin", "bitpack_auto", "elias_fano", "pcodec"}

Buildable(stage, t) ==
  CASE stage.id \in TypeKeeping \cup {"leb128", "bitpack_auto"} -> t \in Integral
    [] stage.id = "bitpack_fixed" ->
         stage.width # Fail /\ t \in Integral /\ stage.width <= Width[t]
    [] stage.id = "elias_fano" -> t \in Sorted
    [] stage.id = "gorilla" -> t \in Floats
    [] stage.id = "pcodec" -> t \in Integral \cup Floats
    [] stage.id \in ByteCoders -> t = "bytes"
    [] OTHER -> FALSE

Registered == TypeKeeping \cup Blocks \cup {"leb128", "bitpack_fixed", "gorilla"}

\* The type that stage i gets; after the last stage, the type of the output.
TypeAt(t, stages, i) ==
  IF \A j \in 1..i - 1 : stages[j].id \in TypeKeeping THEN t ELSE "bytes"
OutputType(t, stages) == TypeAt(t, stages, Len(stages) + 1)

Builds(t, stages) ==
  /\ \A i \in DOMAIN stages : Buildable(stages[i], TypeAt(t, stages, i))
  /\ \A i, j \in DOMAIN stages :
       i < j /\ stages[i].id \in Blocks => stages[j].id \in Blocks

-----------------------------------------------------------------------------
Tag(id) == CASE id = "zstd" -> -1 [] id = "lz4" -> -2
             [] id = "snappy" -> -3 [] id = "pcodec" -> -4
Framed(id, xs) == << Tag(id), Len(xs) >> \o xs
Unframed(id, xs) ==
  IF Len(xs) < 2 THEN Fail
  ELSE IF xs[1] # Tag(id) \/ Len(xs) # 2 + xs[2] THEN Fail
  ELSE SubSeq(xs, 3, Len(xs))

EncodeStage(stage, t, xs) ==
  CASE stage.id = "delta" -> Deltas(xs, t)
    [] stage.id = "delta_of_delta" -> DeltasOfDeltas(xs, t)
    [] stage.id = "deltamin" -> AboveMin(xs, t)
    [] stage.id = "rle" -> RunLengths(xs, t)
    [] stage.id = "leb128" -> ToLeb(xs, t)
    [] stage.id = "bitpack_fixed" -> PackFixed(xs, stage.width)
    [] stage.id = "bitpack_auto" -> PackAuto(xs)
    [] stage.id = "elias_fano" -> ToEliasFano(xs)
    [] stage.id = "gorilla" -> ToGorilla(xs, t)
    [] OTHER -> Framed(stage.id, xs)

DecodeStage(stage, t, xs) ==
  CASE stage.id = "delta" -> RunningSums(xs, t)
    [] stage.id = "delta_of_delta" -> SumsOfSums(xs, t)
    [] stage.id = "deltamin" -> MinAdded(xs, t)
    [] stage.id = "rle" -> RunsToValues(xs)
    [] stage.id = "leb128" -> FromLeb(xs, t)
    [] stage.id = "bitpack_fixed" -> UnpackFixed(xs, stage.width, t)
    [] stage.id = "bitpack_auto" -> UnpackAuto(xs, t)
    [] stage.id = "elias_fano" -> FromEliasFano(xs, t)
    [] stage.id = "gorilla" -> FromGorilla(xs, t)
    [] OTHER -> Unframed(stage.id, xs)

Through(stage, t, data) == IF data = Fail THEN Fail ELSE EncodeStage(stage, t, data)
Back(stage, t, data) == IF data = Fail THEN Fail ELSE DecodeStage(stage, t, data)

Encode(t, stages, xs) ==
  LET data[i \in 0..Len(stages)] ==
        IF i = 0 THEN xs
        ELSE Through(stages[i], TypeAt(t, stages, i), data[i - 1])
  IN data[Len(stages)]
Decode(t, stages, bytes) ==
  LET place(i) == Len(stages) - i + 1
      data[i \in 0..Len(stages)] ==
        IF i = 0 THEN bytes
        ELSE Back(stages[place(i)], TypeAt(t, stages, place(i)), data[i - 1])
  IN data[Len(stages)]

-----------------------------------------------------------------------------
(* HEC0: a header with the type and the stages, the number of values, and   *)
(* the encoded bytes.  The stages are recovered from the ids of a pipeline,  *)
(* so every parameter is lost.                                               *)
BareStages(stages) == [i \in DOMAIN stages |-> Stage(stages[i].id)]

Compress(t, stages, xs) ==
  LET body == Encode(t, stages, xs)
      bare == BareStages(stages)
  IN IF \/ OutputType(t, stages) # "bytes"
        \/ body = Fail
        \/ ~Builds(t, bare)
        \/ Len(bare) > MaxStages
     THEN Fail
     ELSE [header |-> << [type |-> t, stages |-> bare] >>,
           tail |-> LebBytes(Len(xs)) \o body]

\* Buffers, with a header or without.
Headers == [type : Integral \cup Floats \cup {"bytes"},
            stages : Seq([id : Registered, width : {Fail}])]
Buffers == [header : Seq(Headers), tail : Seq(Int)]

\* How many cells the number of values takes, 0 if it does not end.
CountCells(tail) ==
  LET ends == {i \in DOMAIN tail : tail[i] >= 0 /\ tail[i] < Group}
      first == CHOOSE i \in ends : \A j \in ends : i <= j
  IN IF ends = {} THEN 0
     ELSE IF TooLong(SubSeq(tail, 1, first - 1)) THEN 0 ELSE first

\* Mutant: the number of values is read and not compared.
SameCount(values, count) == TRUE
RightCount(values, count) == Len(values) = count

Decompress(buffer) ==
  LET cells == CountCells(buffer.tail)
      h == buffer.header[1]
      values == Decode(h.type, h.stages,
                       SubSeq(buffer.tail, cells + 1, Len(buffer.tail)))
  IN IF buffer.header = <<>> \/ cells = 0 THEN Fail
     ELSE IF ~Builds(h.type, h.stages) THEN Fail
     ELSE IF values = Fail THEN Fail
     ELSE IF ~RightCount(values, LebNumber(SubSeq(buffer.tail, 1, cells))) THEN Fail
     ELSE values

-----------------------------------------------------------------------------
(* Pipelines that the program chooses itself.                                *)
Small == {"i8", "i16", "u8", "u16"}

\* default_specs_for: what compress uses.
CodecDefault(t) ==
  CASE t \in Small -> Stages(<<"leb128", "zstd">>)
    [] t \in Integral \ Small -> Stages(<<"delta", "leb128", "zstd">>)
    [] t \in Floats -> Stages(<<"gorilla", "zstd">>)
    [] t = "bytes" -> Stages(<<"zstd">>)

\* default_encodings: what a generated schema has for a leaf.  The bytes of a
\* string or blob have the role "data"; a primitive's values go to pcodec unless
\* they are u8, and pcodec takes no bytes.
SchemaDefault(role, t) ==
  CASE role \in {"offsets", "indices"} -> Stages(<<"delta", "leb128", "zstd">>)
    [] role = "data" -> Stages(<<"zstd">>)
    [] OTHER -> Stages(IF t = "u8" THEN <<"leb128", "zstd">> ELSE <<"pcodec">>)

\* The constructors of TypedCodec that name a pipeline.
TypedCodecs(t) ==
  CASE t = "i64" -> {Stages(<<"delta_of_delta", "leb128", "zstd">>),
                     Stages(<<"delta", "leb128", "zstd">>)}
    [] t = "f64" -> {Stages(<<"gorilla", "zstd">>)}
    [] t = "u32" -> {Stages(<<"bitpack_auto", "zstd">>),
                     Stages(<<"elias_fano">>)}
    [] OTHER -> {}

-----------------------------------------------------------------------------
(* The candidates of the optimizer for a leaf with the values xs.            *)
Leb == <<"leb128", "zstd">>
DeltaLeb == <<"delta", "leb128", "zstd">>
MinPacked == <<"deltamin", "bitpack_auto", "zstd">>
RunsPacked == <<"rle", "bitpack_auto", "zstd">>
Packed == <<"bitpack_auto", "zstd">>
Pco == <<"pcodec">>

DataCandidates(t, xs) ==
  LET NoneNegative == \A i \in DOMAIN xs : xs[i] >= 0
      Monotonic == \A i \in 1..Len(xs) - 1 : xs[i] <= xs[i + 1]
      If(fits, pipelines) == IF fits THEN pipelines ELSE {}
      deltaOfDelta == <<"delta_of_delta", "leb128", "zstd">>
  IN CASE t = "i32" -> {Leb, DeltaLeb, deltaOfDelta, Pco, <<"rle", "leb128", "zstd">>}
                         \cup If(NoneNegative, {MinPacked})
       [] t = "i64" -> {Leb, DeltaLeb, deltaOfDelta, Pco}
                         \cup If(NoneNegative, {MinPacked})
       [] t \in {"i8", "i16"} -> {Leb, DeltaLeb, Pco}
       [] t = "u8" -> {Leb, RunsPacked, Pco}
       [] t = "u16" -> {Leb, Packed, Pco}
       [] t = "u32" -> {Leb, Packed, Pco} \cup If(Monotonic, {DeltaLeb, MinPacked})
       [] t = "u64" -> {Leb, Pco}
       [] t \in Floats -> {<<"gorilla", "zstd">>, Pco}
       [] t = "bytes" -> {<<"zstd">>}

Candidates(role, t, xs) ==
  CASE role = "offsets" ->
         {DeltaLeb, Pco, MinPacked}
           \cup (IF t = "u32" THEN {<<"elias_fano", "zstd">>} ELSE {})
    [] role \in {"present", "tag"} -> {RunsPacked, Leb}
    [] role = "indices" -> {Packed, Leb, Pco}
    [] role = "data" -> {<<"zstd">>}
    [] OTHER -> DataCandidates(t, xs)

\* Those that encode the values: the smallest is picked, and which one that
\* is depends on sizes that are not modelled.
Fitting(role, t, xs) ==
  {Stages(ids) : ids \in {c \in Candidates(role, t, xs) :
                            /\ Builds(t, Stages(c))
                            /\ Encode(t, Stages(c), xs) # Fail}}
=============================================================================
