------------------------------- MODULE Schemas --------------------------------
(***************************************************************************)
(* Schemas: the physical fields and encodings of nested types, validation,  *)
(* the pipelines built for them, and their way through a file               *)
(* (src/src/core/schema.rs).  A schema is stated by a caller, generated     *)
(* with default encodings by an input adapter (src/src/schema/encodings.rs) *)
(* or returned by the optimizer (src/src/optimizer/recursive.rs).  A writer *)
(* takes or refuses it, a reader parses it out of the file again, and a     *)
(* projection writes a part of it into a new file.                          *)
(*                                                                         *)
(* A type is a tree: its kind, the names of its fields or variants, its     *)
(* children, and for a struct the encodings of each field.  The kind of a   *)
(* primitive is its data type.  A spec is a column, or a field of a struct. *)
(***************************************************************************)
EXTENDS Pipelines

CONSTANTS MaxDepth,     \* MAX_NESTED_DEPTH
          MaxVariants,  \* 255: the tag is a u8
          JsonLimit,    \* nesting that serde_json refuses to parse: 128
          Current,      \* CURRENT_SCHEMA_VERSION
          Panic,        \* a slice out of range
          Specs,        \* the specs that callers state
          Shapes,       \* the types that adapters find in their input
          Samples,      \* the types that the optimizer is given
          Names,        \* the names that adapters find in their input
          MaxColumns,   \* bound on the columns of a schema
          MaxHeight     \* bound on the height of a type that is given

VARIABLES phase,
          origin,     \* "caller", "adapter" or "optimizer"
          schema,     \* version and columns
          pipelines,  \* those of the writer, one sequence per column
          opened,     \* those of the reader of the file
          source      \* the columns and pipelines a projection started from

vars == <<phase, origin, schema, pipelines, opened, source>>

DataTypes == Integral \cup Floats \cup {"bytes"}
Semantic == {"utf8", "binary", "decimal128", "date32", "date64", "datetime"}
Containers == {"struct", "list", "map", "nullable", "union", "dict"}

Coding == [id : STRING \cup Registered, width : Nat \cup {Fail}]
Encodings == Seq(Seq(Coding))

LogicalType(kind, names, kids, encodings) ==
  [kind |-> kind, names |-> names, kids |-> kids, encodings |-> encodings]
Leaf(kind) == LogicalType(kind, <<>>, <<>>, <<>>)
Of(kind, kids) == LogicalType(kind, <<>>, kids, <<>>)
DictOf(t) == Of("dict", <<t>>)

\* What the constructors of LogicalType make.
WellFormed(t) ==
  /\ Len(t.kids) = CASE t.kind \in DataTypes \cup Semantic -> 0
                     [] t.kind \in {"list", "nullable", "dict"} -> 1
                     [] t.kind = "map" -> 2
                     [] OTHER -> Len(t.names)
  /\ Len(t.encodings) = IF t.kind = "struct" THEN Len(t.kids) ELSE 0

\* The types of at most this height; the optimizer may add a dictionary.
TypesUpTo[h \in Nat] ==
  IF h = 0 THEN {}
  ELSE {t \in [kind : DataTypes \cup Semantic \cup Containers, names : Seq(STRING),
               kids : Seq(TypesUpTo[h - 1]), encodings : Seq(Encodings)] : WellFormed(t)}
Types == TypesUpTo[MaxHeight + 1]

Columns == [name : STRING, type : Types, encodings : Encodings]

\* A pipeline, and what a schema is made from.  Inputs with an empty name are
\* left out; the optimizer may make a type one higher.
Pipeline == [input : DataTypes, stages : Seq(Coding)]

ASSUME SchemasAssumption ==
  /\ {"i32", "i64"} \subseteq Signed /\ Signed \subseteq {"i8", "i16", "i32", "i64"}
  /\ {"u8", "u32"} \subseteq Unsigned /\ Unsigned \subseteq {"u8", "u16", "u32", "u64"}
  /\ Floats \subseteq {"f32", "f64"}
  /\ Panic # Fail
  /\ \A v \in {Fail, Panic} : v \notin Seq(Pipeline) /\ v \notin Seq(Seq(Pipeline))
  /\ {MaxDepth, MaxVariants, JsonLimit, Current, MaxColumns, MaxHeight} \subseteq Nat
  /\ Names \subseteq STRING \ {""}
  /\ Specs \subseteq Columns
  /\ Shapes \cup Samples \subseteq TypesUpTo[MaxHeight]

ColumnSpec(name, t, encodings) == [name |-> name, type |-> t, encodings |-> encodings]

\* The fields of a struct as specs.
Fields(t) == [k \in DOMAIN t.kids |-> ColumnSpec(t.names[k], t.kids[k], t.encodings[k])]

-----------------------------------------------------------------------------
(* physical_fields.  A role is the sequence of the parts of its dotted name. *)
Field(role, t) == [role |-> <<role>>, type |-> t]

\* The fields that a node has itself, before and after those of its children.
Before(kind) ==
  CASE kind \in DataTypes -> << Field("values", kind) >>
    [] kind \in {"utf8", "binary"} -> << Field("offsets", "u32"), Field("data", "bytes") >>
    [] kind = "decimal128" -> << Field("high", "i64"), Field("low", "i64") >>
    [] kind = "date32" -> << Field("values", "i32") >>
    [] kind \in {"date64", "datetime"} -> << Field("values", "i64") >>
    [] kind \in {"list", "map"} -> << Field("offsets", "u32") >>
    [] kind = "nullable" -> << Field("present", "u8") >>
    [] kind = "union" -> << Field("tag", "u8") >>
    [] kind \in {"struct", "dict"} -> <<>>
After(kind) == IF kind = "dict" THEN << Field("indices", "u32") >> ELSE <<>>

Prefix(t, k) == CASE t.kind = "struct" -> << t.names[k] >>
                  [] t.kind = "union" -> << "v", t.names[k] >>
                  [] t.kind = "map" -> << IF k = 1 THEN "key" ELSE "value" >>
                  [] t.kind \in {"list", "nullable"} -> << "item" >>
                  [] t.kind = "dict" -> <<>>

Prefixed(t, k, fields) ==
  [i \in DOMAIN fields |-> [fields[i] EXCEPT !.role = Prefix(t, k) \o @]]

PhysicalFields[t \in Types] ==
  Before(t.kind)
    \o FlattenSeq([k \in DOMAIN t.kids |-> Prefixed(t, k, PhysicalFields[t.kids[k]])])
    \o After(t.kind)

Total(lengths) == FoldLeft(LAMBDA n, length : n + length, 0, lengths)

\* expected_encodings_len: what a struct holds is with its fields.
EncodingsLen[t \in Types] ==
  IF t.kind = "struct" THEN 0
  ELSE Len(Before(t.kind)) + Total([k \in DOMAIN t.kids |-> EncodingsLen[t.kids[k]]])
         + Len(After(t.kind))

-----------------------------------------------------------------------------
(* Validation.                                                              *)
Distinct(names) == \A i, j \in DOMAIN names : names[i] = names[j] => i = j

\* ColumnSpec::validate and validate_field_spec.
ValidSpec(s) == s.name # "" /\ Len(s.encodings) = EncodingsLen[s.type]

\* Mutant: the encodings of fields are not looked at.
ValidNodeAlone(t, depth) ==
  /\ t.kind \in Containers => depth < MaxDepth
  /\ t.kind = "union" => Len(t.kids) \in 1..MaxVariants /\ Distinct(t.names)
  /\ t.kind = "struct" => Distinct(t.names)

ValidNode(t, depth) ==
  /\ t.kind \in Containers => depth < MaxDepth
  /\ t.kind = "map" => t.kids[1].kind \in DataTypes \cup {"utf8", "binary"}
  /\ t.kind = "union" => /\ Len(t.kids) \in 1..MaxVariants
                         /\ \A k \in DOMAIN t.names : t.names[k] # ""
                         /\ Distinct(t.names)
  /\ t.kind = "struct" => /\ Distinct(t.names)
                          /\ \A k \in DOMAIN t.kids : ValidSpec(Fields(t)[k])

ValidType[t \in Types] ==
  [depth \in Nat |->
     /\ ValidNode(t, depth)
     /\ \A k \in DOMAIN t.kids : ValidType[t.kids[k]][depth + 1]]

NamesOf(specs) == [c \in DOMAIN specs |-> specs[c].name]

Validate(s) ==
  /\ \A c \in DOMAIN s.columns : /\ ValidSpec(s.columns[c])
                                 /\ ValidType[s.columns[c].type][0]
  /\ Distinct(NamesOf(s.columns))

-----------------------------------------------------------------------------
(* build_pipelines_for_type: a node takes its own encodings and hands slices *)
(* of the rest to its children; the last child of a list, map or nullable    *)
(* gets everything that is left.                                             *)
Built(field, coders) ==
  IF Builds(field.type, coders)
  THEN << [input |-> field.type, stages |-> coders] >> ELSE Fail

\* The results of the parts one after the other, or the first that failed.
Joined(parts) ==
  LET bad == {i \in DOMAIN parts : parts[i] \in {Fail, Panic}}
  IN IF bad = {} THEN FlattenSeq(parts)
     ELSE parts[CHOOSE i \in bad : \A j \in bad : i <= j]

\* Mutant: the children of a map both start behind its offsets.
StartOfKey(t, k) ==
  Len(Before(t.kind))
    + IF t.kind = "map" THEN 0 ELSE Total([i \in 1..k - 1 |-> EncodingsLen[t.kids[i]]])

\* Where the encodings of child k start, counted from 0.
Start(t, k) == Len(Before(t.kind)) + Total([i \in 1..k - 1 |-> EncodingsLen[t.kids[i]]])

End(t, k, encodings) ==
  IF k = Len(t.kids) /\ t.kind \in {"list", "map", "nullable"} THEN Len(encodings)
  ELSE Start(t, k) + EncodingsLen[t.kids[k]]

\* The results of the children, by the results they have for any encodings.
Children(t, encodings, results) ==
  [k \in DOMAIN t.kids |->
     IF t.kind = "struct" THEN results[k][t.encodings[k]]
     ELSE IF \/ Start(t, k) > End(t, k, encodings)
             \/ End(t, k, encodings) > Len(encodings)
     THEN Panic
     ELSE results[k][SubSeq(encodings, Start(t, k) + 1, End(t, k, encodings))]]

\* As many of a node's own fields as there are encodings.
Own(t, encodings) ==
  LET fields == Before(t.kind)
      zipped == IF Len(fields) < Len(encodings) THEN Len(fields) ELSE Len(encodings)
  IN [i \in 1..zipped |-> Built(fields[i], encodings[i])]

BuildPipelines[t \in Types] ==
  [encodings \in Encodings |->
     LET children == Children(t, encodings,
                              [k \in DOMAIN t.kids |-> BuildPipelines[t.kids[k]]])
     IN CASE t.kind \notin Containers -> Joined(Own(t, encodings))
          [] t.kind = "dict" ->
               IF Len(encodings) < EncodingsLen[t] THEN Fail
               ELSE Joined(Append(children, Built(After("dict")[1],
                                                  encodings[EncodingsLen[t]])))
          [] OTHER ->
               IF t.kind # "struct" /\ encodings = <<>> THEN Fail
               ELSE Joined(Own(t, encodings) \o children)]

ResolveAll(columns) ==
  LET built == [c \in DOMAIN columns |->
                  BuildPipelines[columns[c].type][columns[c].encodings]]
      bad == {c \in DOMAIN built : built[c] \in {Fail, Panic}}
  IN IF bad = {} THEN built ELSE built[CHOOSE c \in bad : \A d \in bad : c <= d]

\* What a writer needs besides: every pipeline ends in bytes.
EndInBytes(built) ==
  \A column \in ToSet(built) : \A i \in DOMAIN column :
    OutputType(column[i].input, column[i].stages) = "bytes"

-----------------------------------------------------------------------------
(* What the JSON parser has room for: it counts the arrays and objects that  *)
(* it is in.  A type is an object with its one child directly in it, but a    *)
(* struct has an array of field objects and a union an array of pairs.        *)
RoomFor(encodings, room) ==
  /\ room >= 1
  /\ \A i \in DOMAIN encodings :
       room >= IF encodings[i] = <<>> THEN 2
               ELSE IF \E j \in DOMAIN encodings[i] : encodings[i][j].width # Fail
               THEN 4 ELSE 3

ParsesType[t \in Types] ==
  [room \in Int |->
     LET inside == CASE t.kind = "struct" -> IF t.kids = <<>> THEN room - 1 ELSE room - 3
                     [] t.kind = "union" -> room - 3
                     [] OTHER -> room - 1
     IN /\ inside >= 0
        /\ \A k \in DOMAIN t.kids : ParsesType[t.kids[k]][inside]
        /\ t.kind = "struct" =>
             /\ inside >= 1
             /\ \A k \in DOMAIN t.encodings : RoomFor(t.encodings[k], inside)]

Parses(s) ==
  /\ JsonLimit > 2
  /\ \A c \in DOMAIN s.columns : /\ ParsesType[s.columns[c].type][JsonLimit - 4]
                                 /\ RoomFor(s.columns[c].encodings, JsonLimit - 4)

FromJson(s) == Parses(s) /\ s.version = Current /\ Validate(s)

-----------------------------------------------------------------------------
(* Schemas that the program makes itself.                                   *)

\* default_encodings: like EncodingsLen it stops at structs.
Defaults(fields) ==
  [i \in DOMAIN fields |-> SchemaDefault(fields[i].role[1], fields[i].type)]

DefaultEncodings[t \in Types] ==
  IF t.kind = "struct" THEN <<>>
  ELSE Defaults(Before(t.kind))
         \o FlattenSeq([k \in DOMAIN t.kids |-> DefaultEncodings[t.kids[k]]])
         \o Defaults(After(t.kind))

\* The adapters give the fields of structs their defaults as well.
Generated[t \in Types] ==
  LET kids == [k \in DOMAIN t.kids |-> Generated[t.kids[k]]]
  IN LogicalType(t.kind, t.names, kids,
                 IF t.kind = "struct"
                 THEN [k \in DOMAIN kids |-> DefaultEncodings[kids[k]]] ELSE <<>>)

\* What pick_best_leaf may return for a node's own fields; the sample decides,
\* and the leaves of the samples are those that Encoding has.
Picks(fields) ==
  {p \in [DOMAIN fields -> UNION {Fitting(fields[i].role[1], fields[i].type, <<0>>) :
                                    i \in DOMAIN fields}] :
     \A i \in DOMAIN fields : p[i] \in Fitting(fields[i].role[1], fields[i].type, <<0>>)}

Optimum(t, encodings) == [type |-> t, encodings |-> encodings]

\* The inner type's encodings, then those of the indices.
Promoted(plain) ==
  {Optimum(DictOf(o.type), o.encodings \o i) : o \in plain, i \in Picks(After("dict"))}

\* optimize_type_inner: the types with encodings that it may return.  Integers
\* and strings become dictionaries, except as keys and directly in one.
Optimized[t \in Types] ==
  [dictAllowed \in BOOLEAN |->
     LET plain == {Optimum(t, p) : p \in Picks(Before(t.kind))}
         Kid(k) == Optimized[t.kids[k]][~(t.kind = "map" /\ k = 1) /\ t.kind # "dict"]
         Kids == {o \in [DOMAIN t.kids -> UNION {Kid(k) : k \in DOMAIN t.kids}] :
                    \A k \in DOMAIN t.kids : o[k] \in Kid(k)}
         KidTypes(o) == [k \in DOMAIN o |-> o[k].type]
         KidEncodings(o) == [k \in DOMAIN o |-> o[k].encodings]
     IN CASE t.kind \in Integral \cup {"utf8"} ->
               plain \cup (IF dictAllowed THEN Promoted(plain) ELSE {})
          [] t.kind = "struct" ->
               {Optimum(LogicalType("struct", t.names, KidTypes(o), KidEncodings(o)), <<>>) :
                  o \in Kids}
          [] t.kind \in Containers \ {"struct"} ->
               {Optimum(LogicalType(t.kind, t.names, KidTypes(o), <<>>),
                        before \o FlattenSeq(KidEncodings(o)) \o after) :
                  before \in Picks(Before(t.kind)), after \in Picks(After(t.kind)), o \in Kids}
          [] OTHER -> plain]

Optima == UNION {Optimized[t][TRUE] : t \in Samples}

-----------------------------------------------------------------------------
Nothing == [columns |-> <<>>, pipelines |-> <<>>]

Init ==
  /\ phase = "draft"
  /\ origin \in {"caller", "adapter", "optimizer"}
  /\ \E version \in {Current} \cup (IF origin = "caller" THEN {Current + 1} ELSE {}) :
       schema = [version |-> version, columns |-> <<>>]
  /\ pipelines = <<>>
  /\ opened = <<>>
  /\ source = Nothing

AddColumn(from, spec) ==
  /\ phase = "draft" /\ origin = from
  /\ Len(schema.columns) < MaxColumns
  /\ schema' = [schema EXCEPT !.columns = Append(@, spec)]
  /\ UNCHANGED <<phase, origin, pipelines, opened, source>>

Unused == Names \ {schema.columns[c].name : c \in DOMAIN schema.columns}
NewName == CHOOSE n \in Names : n \in Unused

StateColumn == \E spec \in Specs : AddColumn("caller", spec)
GenerateColumn ==
  \E t \in Shapes :
    /\ Unused # {}
    /\ AddColumn("adapter",
                 ColumnSpec(NewName, Generated[t], DefaultEncodings[Generated[t]]))
OptimizeColumn ==
  \E o \in Optima :
    /\ Unused # {}
    /\ AddColumn("optimizer", ColumnSpec(NewName, o.type, o.encodings))

\* What becomes of a file that would be written with these pipelines.
Ended(built) ==
  CASE built = Panic -> "panicked"
    [] built = Fail -> "refused"
    [] OTHER -> IF EndInBytes(built) THEN "written" ELSE "refused"

\* Mutant: the schema is not validated.
NewWriterUnvalidated ==
  /\ phase = "draft"
  /\ LET built == ResolveAll(schema.columns)
     IN /\ phase' = Ended(built)
        /\ pipelines' = IF phase' = "written" THEN built ELSE <<>>
  /\ UNCHANGED <<origin, schema, opened, source>>

\* HeliumWriter::new: nothing is written unless the schema passes.
NewWriter ==
  /\ phase = "draft"
  /\ LET built == IF Validate(schema) THEN ResolveAll(schema.columns) ELSE Fail
     IN /\ phase' = Ended(built)
        /\ pipelines' = IF phase' = "written" THEN built ELSE <<>>
  /\ UNCHANGED <<origin, schema, opened, source>>

\* HeliumReader::new on the file; where the pipelines end is not looked at.
OpenReader ==
  /\ phase = "written"
  /\ LET built == IF FromJson(schema) THEN ResolveAll(schema.columns) ELSE Fail
     IN /\ phase' = CASE built = Fail -> "unreadable"
                     [] built = Panic -> "panicked"
                     [] OTHER -> "open"
        /\ opened' = IF phase' = "open" THEN built ELSE <<>>
  /\ UNCHANGED <<origin, schema, pipelines, source>>

\* Schema::project and project_to: the columns of the given names, each once,
\* make the schema of a new file, which is resolved before it is written.
Project ==
  /\ phase = "open" /\ source = Nothing
  /\ \E names \in UNION {[1..n -> ToSet(NamesOf(schema.columns))] :
                           n \in 1..Len(schema.columns)} :
       /\ Distinct(names)
       /\ LET At(i) == CHOOSE c \in DOMAIN schema.columns :
                         schema.columns[c].name = names[i]
              columns == [i \in DOMAIN names |-> schema.columns[At(i)]]
          IN /\ schema' = [version |-> Current, columns |-> columns]
             /\ phase' = Ended(ResolveAll(columns))
  /\ source' = [columns |-> schema.columns, pipelines |-> opened]
  /\ UNCHANGED <<origin, pipelines, opened>>

Next ==
  \/ StateColumn
  \/ GenerateColumn
  \/ OptimizeColumn
  \/ NewWriter
  \/ OpenReader
  \/ Project

Spec == Init /\ [][Next]_vars

-----------------------------------------------------------------------------
Nodes[t \in Types] ==
  [depth \in Nat |->
     {[node |-> t, depth |-> depth]}
       \cup UNION {Nodes[t.kids[k]][depth + 1] : k \in DOMAIN t.kids}]

AllNodes == UNION {Nodes[schema.columns[c].type][0] : c \in DOMAIN schema.columns}

AllSpecs == ToSet(schema.columns)
              \cup UNION {ToSet(Fields(n.node)) : n \in {m \in AllNodes : m.node.kind = "struct"}}

\* The physical fields of a spec that are in no struct below it.
OwnFields[t \in Types] ==
  IF t.kind = "struct" THEN <<>>
  ELSE Before(t.kind) \o FlattenSeq([k \in DOMAIN t.kids |-> OwnFields[t.kids[k]]])
         \o After(t.kind)

TooDeep == \E n \in AllNodes : n.node.kind \in Containers /\ n.depth >= MaxDepth

UnfitEncodings(s) ==
  \/ Len(s.encodings) # Len(OwnFields[s.type])
  \/ \E i \in DOMAIN s.encodings :
       LET t == OwnFields[s.type][i].type
       IN ~Builds(t, s.encodings[i]) \/ OutputType(t, s.encodings[i]) # "bytes"

UnfitNode(t) ==
  \/ t.kind = "map" /\ t.kids[1].kind \in Containers \cup {"decimal128", "date32",
                                                           "date64", "datetime"}
  \/ t.kind = "union" /\ (t.kids = <<>> \/ Len(t.kids) > MaxVariants \/ "" \in ToSet(t.names))
  \/ t.kind \in {"struct", "union"} /\ Cardinality(ToSet(t.names)) < Len(t.names)

\* Inputs and samples with such nodes, or a field without a name, are left out.
\* Byte strings are found as binary or utf8, a primitive of bytes by no adapter.
ASSUME ShapesAssumption ==
  \A t \in Shapes \cup Samples : \A n \in Nodes[t][0] :
    /\ ~UnfitNode(n.node)
    /\ n.node.kind = "struct" => "" \notin ToSet(n.node.names)
    /\ t \in Shapes => n.node.kind # "bytes"

HasFault ==
  \/ Cardinality({schema.columns[c].name : c \in DOMAIN schema.columns}) < Len(schema.columns)
  \/ \E s \in AllSpecs : s.name = "" \/ UnfitEncodings(s)
  \/ \E n \in AllNodes : UnfitNode(n.node)

(* Slices of nested encodings never leave their range, and what a writer or a *)
(* reader works with has for every physical field of every column one         *)
(* pipeline, in the fields' order, that takes the field's type and ends in    *)
(* bytes: decompose and the pipelines follow two recursions over the type.    *)
PipelinesFitFields ==
  LET Fit(built) ==
        \A c \in DOMAIN schema.columns :
          LET fields == PhysicalFields[schema.columns[c].type]
          IN /\ Len(built[c]) = Len(fields)
             /\ \A i \in DOMAIN fields :
                  /\ built[c][i].input = fields[i].type
                  /\ OutputType(fields[i].type, built[c][i].stages) = "bytes"
  IN /\ phase # "panicked"
     /\ (phase = "written" /\ source = Nothing) => Fit(pipelines)
     /\ phase = "open" => Fit(opened)

(* A file whose schema a writer accepted can be opened, with the pipelines it *)
(* was written with, and so can every projection of it; except with another   *)
(* version and with structs or unions nested deeper than the JSON parser      *)
(* goes, which no writer looks at.                                            *)
WrittenOpens ==
  /\ phase = "unreadable" =>
       source = Nothing /\ (schema.version # Current \/ ~Parses(schema))
  /\ phase = "open" =>
       IF source = Nothing THEN opened = pipelines
       ELSE \A c \in DOMAIN schema.columns : \E d \in DOMAIN source.columns :
              /\ source.columns[d] = schema.columns[c]
              /\ source.pipelines[d] = opened[c]

(* A writer refuses a schema exactly if a name is empty or used twice, a node  *)
(* is too deep or not allowed, or a spec's encodings do not fit its fields one *)
(* by one.  A generated or optimized schema is refused for its depth only: the *)
(* default of every leaf that an adapter finds takes it and ends in bytes.  A  *)
(* caller's primitive of bytes does not get through with its default, pcodec.  *)
RefusedForCause ==
  /\ phase = "refused" => TooDeep \/ (HasFault /\ origin = "caller")
  /\ phase = "written" => ~TooDeep /\ ~HasFault

=============================================================================
