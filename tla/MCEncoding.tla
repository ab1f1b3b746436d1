----------------------------- MODULE MCEncoding ------------------------------
(* Types of two to four bits, bytes of three, leaves of up to four values and runs of up to six.     *)
EXTENDS Encoding

MCWidth == [i8 |-> 3, i32 |-> 4, u8 |-> 2, u32 |-> 4, f64 |-> 4,
            i16 |-> 3, u16 |-> 3, i64 |-> 4, u64 |-> 4, f32 |-> 2]

MCLeaves == { <<"values", "i8">>, <<"values", "i32">>, <<"values", "i64">>,
              <<"values", "u16">>, <<"values", "u32">>, <<"values", "u64">>,
              <<"values", "f64">>, <<"present", "u8">>, <<"tag", "u8">>,
              <<"values", "u8">>, <<"offsets", "u32">>, <<"indices", "u32">>,
              <<"data", "bytes">> }

UpTo(n, set) == UNION {[1..k -> set] : k \in 0..n}
Runs == {[i \in 1..n |-> v] : n \in 4..6, v \in {0, 1}}

Of(role, type) ==
  CASE role = "offsets" ->
         {<< 0 >> \o s : s \in {t \in UpTo(3, {0, 1, 2, 9, 15}) :
                                  \A i \in 1..Len(t) - 1 : t[i] <= t[i + 1]}}
    [] role \in {"present", "tag"} -> UpTo(4, {0, 1}) \cup Runs
    [] role = "data" -> UpTo(2, {0, 3, 7})
    [] type = "i8" -> UpTo(4, {-4, -3, -1, 0, 3}) \cup Runs
    [] type = "i32" -> UpTo(3, {-8, -7, -1, 0, 1, 7})
    [] type = "i64" -> UpTo(3, {-8, -1, 0, 7})
    [] type = "f64" -> UpTo(3, {0, 1, 2, 4, 6, 8, 15}) \cup [1..4 -> {0, 4, 6}]
    [] type \in {"u8", "u16"} -> UpTo(4, {0, 1, 3}) \cup Runs
    [] OTHER -> UpTo(3, {0, 1, 5, 15})

MCValues == [l \in MCLeaves |-> Of(l[1], l[2])]

Fixed(w) == [id |-> "bitpack_fixed", width |-> w]

MCStated ==
  [t \in {l[2] : l \in MCLeaves} |->
     CASE t = "bytes" -> {<<>>, Stages(<<"lz4", "snappy">>)}
       [] t = "f64" -> {Stages(<<"gorilla">>), Stages(<<"delta", "gorilla">>)}
       [] t = "i8" -> {Stages(<<"rle", "leb128">>), Stages(<<"delta">>),
                       << Fixed(3) >>}
       [] t = "i32" -> {Stages(<<"deltamin", "bitpack_auto">>),
                        Stages(<<"delta", "delta_of_delta", "rle", "leb128", "zstd">>),
                        Stages(<<"deltamin", "leb128">>)}
       [] t = "u8" -> {Stages(<<"delta", "rle", "bitpack_auto">>), << Fixed(1) >>,
                       Stages(<<"bitpack_fixed">>)}
       [] t = "u32" -> {Stages(<<"elias_fano">>), Stages(<<"delta", "elias_fano">>),
                        Stages(<<"leb128">>)}
       [] OTHER -> {}]
=============================================================================
