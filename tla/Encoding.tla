------------------------------- MODULE Encoding -------------------------------
(***************************************************************************)
(* One leaf on its way through a pipeline and back.  The pipeline is stated *)
(* in a schema or by a caller of the codec, is a default, belongs to a      *)
(* TypedCodec, or was picked by the optimizer for a sample; later the leaf  *)
(* has other values than the sample.  It is kept as a leaf of a .he file,   *)
(* in a HEC0 buffer, which may be cut off, or as bare bytes.                *)
(***************************************************************************)
EXTENDS Pipelines

CONSTANTS Leaves,  \* the kinds of leaves: pairs of a role and a type
          Values,  \* leaf -> the sequences of values it may have
          Stated   \* type -> the pipelines that schemas and callers state

\* The types are those that have names; elias_fano takes u32.  Offsets, indices,
\* bitmaps and tags are integers, only data are bytes.  The values of a leaf are numbers
\* of its type, fewer than a word can count; a stage states the width of
\* bitpack_fixed as a number, if at all.  Fail is told from a buffer.
ASSUME EncodingAssumption ==
  /\ Signed \subseteq {"i8", "i16", "i32", "i64"}
  /\ Unsigned \subseteq {"u8", "u16", "u32", "u64"}
  /\ Floats \subseteq {"f32", "f64"}
  /\ "u32" \in Unsigned => "u32" \in Sorted
  /\ Fail \notin Buffers
  /\ \A l \in Leaves :
       /\ l[2] \in Integral \cup Floats \cup {"bytes"}
       /\ l[1] \in {"offsets", "indices", "present", "tag"} => l[2] \in Integral
       /\ l[1] = "data" <=> l[2] = "bytes"
       /\ \A xs \in Values[l] :
            /\ xs \in Seq(Int) /\ Len(xs) < Pow(WordBits)
            /\ l[2] # "bytes" => \A i \in DOMAIN xs : InRange(xs[i], l[2])
       /\ Stated[l[2]] \subseteq Seq([id : STRING, width : Nat \cup {Fail}])

VARIABLES phase, leaf,
          origin,     \* where the pipeline comes from
          stages,
          container,  \* "he", "hec0" or "bare"
          column,     \* history: the values that were stored
          buffer, cut,
          result

vars == <<phase, leaf, origin, stages, container, column, buffer, cut, result>>

Role == leaf[1]
Type == leaf[2]

Init ==
  /\ phase = "choose"
  /\ leaf \in Leaves
  /\ origin = "none"
  /\ stages = <<>>
  /\ container = "none"
  /\ column = <<>>
  /\ buffer = [header |-> <<>>, tail |-> <<>>]
  /\ cut = FALSE
  /\ result = Fail

Choose(where, from, pipeline) ==
  /\ phase = "choose"
  /\ origin' = from
  /\ stages' = pipeline
  /\ container' = where
  /\ phase' = "build"
  /\ UNCHANGED <<leaf, column, buffer, cut, result>>

ChooseStated == \E pipeline \in Stated[Type] : \E where \in {"he", "hec0", "bare"} :
                  Choose(where, "stated", pipeline)
ChooseDefault == \/ Choose("hec0", "default", CodecDefault(Type))
                 \/ Choose("he", "default", SchemaDefault(Role, Type))
ChooseTyped == \E pipeline \in TypedCodecs(Type) : Choose("hec0", "typed", pipeline)

\* The optimizer encodes the sample with every candidate that it can.
Optimize ==
  /\ phase = "choose"
  /\ \E sample \in Values[leaf] : \E fitting \in {Fitting(Role, Type, sample)} :
       \/ \E pipeline \in fitting : Choose("he", "optimizer", pipeline)
       \/ /\ fitting = {}
          /\ origin' = "optimizer"
          /\ phase' = "refused"
          /\ UNCHANGED <<leaf, stages, container, column, buffer, cut, result>>

\* A writer refuses a schema with a leaf that does not end in bytes.
Build ==
  /\ phase = "build"
  /\ phase' = IF /\ Builds(Type, stages)
                 /\ container = "he" => OutputType(Type, stages) = "bytes"
              THEN "built" ELSE "refused"
  /\ UNCHANGED <<leaf, origin, stages, container, column, buffer, cut, result>>

Stored(xs) ==
  IF container = "hec0" THEN Compress(Type, stages, xs)
  ELSE LET bytes == Encode(Type, stages, xs)
       IN IF bytes = Fail \/ OutputType(Type, stages) # "bytes" THEN Fail
          ELSE [header |-> <<>>, tail |-> bytes]

Store ==
  /\ phase = "built"
  /\ \E xs \in Values[leaf] : \E stored \in {Stored(xs)} :
       /\ column' = xs
       /\ IF stored = Fail THEN phase' = "rejected" /\ UNCHANGED buffer
          ELSE phase' = "stored" /\ buffer' = stored
  /\ UNCHANGED <<leaf, origin, stages, container, cut, result>>

\* The file that holds a HEC0 buffer ends too early: in its header, or later.
CutOff ==
  /\ phase = "stored" /\ container = "hec0" /\ ~cut
  /\ cut' = TRUE
  /\ \/ buffer' = [header |-> <<>>, tail |-> <<>>]
     \/ \E n \in 0..Len(buffer.tail) - 1 :
          buffer' = [buffer EXCEPT !.tail = SubSeq(@, 1, n)]
  /\ UNCHANGED <<phase, leaf, origin, stages, container, column, result>>

Read ==
  /\ phase = "stored"
  /\ phase' = "read"
  /\ result' = IF container = "hec0" THEN Decompress(buffer)
               ELSE Decode(Type, stages, buffer.tail)
  /\ UNCHANGED <<leaf, origin, stages, container, column, buffer, cut>>

\* Every behaviour ends with one leaf read, refused or rejected.
Next ==
  \/ ChooseStated
  \/ ChooseDefault
  \/ ChooseTyped
  \/ Optimize
  \/ Build
  \/ Store
  \/ CutOff
  \/ Read

Spec == Init /\ [][Next]_vars

-----------------------------------------------------------------------------
(* Whatever any pipeline accepts it gives back: runs longer than their type   *)
(* counts, differences that wrap, values at both ends of their range, windows *)
(* used again, empty leaves.  HEC0 needs nothing but the buffer for it.       *)
RoundTrip == phase = "read" /\ ~cut => result = column

(* A HEC0 buffer that is cut off anywhere is refused and never read as a      *)
(* shorter column, also with coders that cannot tell where their input ends.  *)
TruncationDetected == phase = "read" /\ cut => result = Fail

(* Only a stated pipeline is refused: the defaults and whatever the optimizer *)
(* picks can be built, and it finds one for every sample.  A pipeline that was *)
(* built rejects values only if it packs bits of signed values or to a fixed   *)
(* width, or by Elias-Fano what does not increase; HEC0 only what it has no    *)
(* bytes or no header for.  So no default rejects a value, and what the        *)
(* optimizer picked for unsigned leaves other than offsets never does,         *)
(* whatever the sample was.                                                    *)
RejectedForCause ==
  /\ phase = "refused" => origin = "stated"
  /\ phase = "rejected" =>
       LET Uses(id) == \E i \in DOMAIN stages : stages[i].id = id
           StartsWith(id) == stages # <<>> /\ stages[1].id = id
       IN \/ Uses("elias_fano") /\ (StartsWith("elias_fano") => ~Increasing(column))
          \/ Uses("bitpack_fixed")
          \/ /\ Uses("bitpack_auto") /\ Type \in Signed
             /\ StartsWith("bitpack_auto") => \E i \in DOMAIN column : column[i] < 0
          \/ container # "he" /\ OutputType(Type, stages) # "bytes"
          \/ container = "hec0" /\ Len(stages) > MaxStages
=============================================================================
