---------------------------- MODULE SchemaProofs ----------------------------
(***************************************************************************)
(* Proofs about Schemas, for types of any height, any specs that callers   *)
(* state, any shapes that adapters find and any samples of the optimizer:  *)
(* what a writer accepts has a pipeline for every field and opens again,   *)
(* and it refuses what has a fault and nothing else.  From the bottom up:  *)
(* the types level by level, and what follows from a function being        *)
(* defined by an equation over them; slices of encodings and the pipelines *)
(* built from them; the encodings that the program chooses itself; types   *)
(* that it generates and optimizes; behaviours; and what a writer accepts, *)
(* node by node.                                                           *)
(***************************************************************************)
EXTENDS Schemas, SequenceLemmas

-----------------------------------------------------------------------------
(* Types and recursion over them                                            *)

\* The types whose children are in a set.
Above(below) ==
  {t \in [kind : DataTypes \cup Semantic \cup Containers, names : Seq(STRING),
          kids : Seq(below), encodings : Seq(Encodings)] : WellFormed(t)}

\* g has the first n levels of types.
Levels(g, n) == \A h \in 0..n : g[h] = IF h = 0 THEN {} ELSE Above(g[h - 1])

(* Two such functions agree.                                                *)
LEMMA LevelsUnique ==
  ASSUME NEW m \in Nat, NEW n \in Nat, NEW f, NEW g, Levels(f, m), Levels(g, n),
         NEW h \in Nat, h <= m, h <= n
  PROVE  f[h] = g[h]
<1> DEFINE S == {k \in Nat : k <= m /\ k <= n => f[k] = g[k]}
<1>1. 0 \in S
  BY DEF Levels
<1>2. ASSUME NEW k \in Nat \ {0}, k - 1 \in S PROVE k \in S
  <2> SUFFICES ASSUME k <= m, k <= n PROVE f[k] = g[k]
    OBVIOUS
  <2>1. f[k - 1] = g[k - 1]
    BY <1>2
  <2>2. f[k] = Above(f[k - 1]) /\ g[k] = Above(g[k - 1])
    BY DEF Levels
  <2> QED BY <2>1, <2>2
<1>3. h \in S
  <2> HIDE DEF S
  <2> QED BY <1>1, <1>2, SetInduction
<1> QED
  BY <1>3

(* There are such functions.                                                *)
LEMMA LevelsExist ==
  ASSUME NEW n \in Nat
  PROVE  \E g : Levels(g, n)
<1> DEFINE S == {k \in Nat : \E g : Levels(g, k)}
<1>1. 0 \in S
  <2>1. Levels([h \in {0} |-> {}], 0)
    BY DEF Levels
  <2> QED BY <2>1
<1>2. ASSUME NEW k \in Nat \ {0}, k - 1 \in S PROVE k \in S
  <2>1. PICK g : Levels(g, k - 1)
    BY <1>2
  <2> DEFINE f == [h \in 0..k |-> IF h = k THEN Above(g[k - 1]) ELSE g[h]]
  <2>2. ASSUME NEW h \in 0..k PROVE f[h] = IF h = 0 THEN {} ELSE Above(f[h - 1])
    <3>1. CASE h = k
      <4>1. f[h] = Above(g[k - 1]) /\ f[h - 1] = g[k - 1]
        BY <3>1
      <4> HIDE DEF f
      <4> QED BY <3>1, <4>1
    <3>2. CASE h # k
      <4>1. h \in 0..(k - 1) /\ f[h] = g[h] /\ (h # 0 => f[h - 1] = g[h - 1])
        BY <3>2
      <4>2. g[h] = IF h = 0 THEN {} ELSE Above(g[h - 1])
        BY <2>1, <4>1 DEF Levels
      <4> HIDE DEF f
      <4> QED BY <4>1, <4>2
    <3> QED BY <3>1, <3>2
  <2> HIDE DEF f
  <2>3. Levels(f, k)
    BY <2>2 DEF Levels
  <2> QED BY <2>3
<1>3. n \in S
  <2> HIDE DEF S
  <2> QED BY <1>1, <1>2, SetInduction
<1> QED
  BY <1>3

(* The levels of types are what their recursion says.                       *)
LEMMA TypesUpToIs ==
  /\ TypesUpTo[0] = {}
  /\ \A h \in Nat \ {0} : TypesUpTo[h] = Above(TypesUpTo[h - 1])
<1> DEFINE level(n) == CHOOSE g : Levels(g, n)
           f == [h \in Nat |-> level(h)[h]]
           body(g) == [h \in Nat |->
             IF h = 0 THEN {}
             ELSE {t \in [kind : DataTypes \cup Semantic \cup Containers, names : Seq(STRING),
                          kids : Seq(g[h - 1]), encodings : Seq(Encodings)] : WellFormed(t)}]
<1>1. ASSUME NEW n \in Nat PROVE Levels(level(n), n)
  BY LevelsExist
<1> HIDE DEF level
<1>2. ASSUME NEW h \in Nat PROVE f[h] = IF h = 0 THEN {} ELSE Above(f[h - 1])
  <2>1. f[h] = level(h)[h] /\ (h # 0 => f[h - 1] = level(h - 1)[h - 1])
    OBVIOUS
  <2> HIDE DEF f
  <2>2. h \in 0..h
    OBVIOUS
  <2>3. level(h)[h] = IF h = 0 THEN {} ELSE Above(level(h)[h - 1])
    BY <1>1, <2>2 DEF Levels
  <2>4. h # 0 => level(h)[h - 1] = level(h - 1)[h - 1]
    <3> SUFFICES ASSUME h # 0 PROVE level(h)[h - 1] = level(h - 1)[h - 1]
      OBVIOUS
    <3>1. h - 1 \in Nat /\ h - 1 <= h /\ h - 1 <= h - 1
      OBVIOUS
    <3>2. Levels(level(h), h) /\ Levels(level(h - 1), h - 1)
      BY <1>1, <3>1
    <3> QED BY <3>1, <3>2, LevelsUnique
  <2> QED BY <2>1, <2>3, <2>4
<1>3. f = body(f)
  <2>1. \A h \in Nat : f[h] = body(f)[h]
    BY <1>2 DEF Above
  <2> QED BY <2>1
<1> HIDE DEF f
<1>4. TypesUpTo = CHOOSE g : g = body(g)
  BY DEF TypesUpTo
<1>5. TypesUpTo = body(TypesUpTo)
  <2> HIDE DEF body
  <2> QED BY <1>3, <1>4
<1> QED
  BY <1>5 DEF Above

(* Every type of a level is on the levels above.                            *)
LEMMA TypesGrow ==
  ASSUME NEW h \in Nat, NEW t \in TypesUpTo[h]
  PROVE  t \in TypesUpTo[h + 1]
<1> DEFINE S == {k \in Nat : TypesUpTo[k] \subseteq TypesUpTo[k + 1]}
<1>1. 0 \in S
  BY TypesUpToIs
<1>2. ASSUME NEW k \in Nat \ {0}, k - 1 \in S PROVE k \in S
  <2>1. TypesUpTo[k - 1] \subseteq TypesUpTo[k]
    BY <1>2
  <2>2. TypesUpTo[k] = Above(TypesUpTo[k - 1]) /\ TypesUpTo[k + 1] = Above(TypesUpTo[k])
    BY TypesUpToIs
  <2>3. Seq(TypesUpTo[k - 1]) \subseteq Seq(TypesUpTo[k])
    BY <2>1
  <2>4. Above(TypesUpTo[k - 1]) \subseteq Above(TypesUpTo[k])
    BY <2>3 DEF Above
  <2> QED BY <2>2, <2>4
<1>3. h \in S
  <2> HIDE DEF S
  <2> QED BY <1>1, <1>2, SetInduction
<1> QED
  BY <1>3

(* There are no fewer types of a greater height.                            *)
LEMMA TypesMonotone ==
  ASSUME NEW h \in Nat, NEW k \in Nat, h <= k
  PROVE  TypesUpTo[h] \subseteq TypesUpTo[k]
<1> DEFINE S == {n \in Nat : h <= n => TypesUpTo[h] \subseteq TypesUpTo[n]}
<1>1. 0 \in S
  BY TypesUpToIs
<1>2. ASSUME NEW n \in Nat \ {0}, n - 1 \in S PROVE n \in S
  <2>1. CASE h = n
    BY <2>1
  <2>2. CASE h # n
    <3>1. TypesUpTo[n - 1] \subseteq TypesUpTo[(n - 1) + 1]
      BY TypesGrow
    <3>2. h <= n => TypesUpTo[h] \subseteq TypesUpTo[n - 1]
      BY <1>2, <2>2
    <3>3. (n - 1) + 1 = n
      OBVIOUS
    <3> QED BY <3>1, <3>2, <3>3
  <2> QED BY <2>1, <2>2
<1>3. k \in S
  <2> HIDE DEF S
  <2> QED BY <1>1, <1>2, SetInduction
<1> QED
  BY <1>3

(* What a type on a level is made of.                                       *)
LEMMA LevelOf ==
  ASSUME NEW h \in Nat, NEW t \in TypesUpTo[h]
  PROVE  /\ h # 0
         /\ t = [kind |-> t.kind, names |-> t.names, kids |-> t.kids, encodings |-> t.encodings]
         /\ t.kind \in DataTypes \cup Semantic \cup Containers
         /\ t.names \in Seq(STRING) /\ t.kids \in Seq(TypesUpTo[h - 1])
         /\ t.encodings \in Seq(Encodings)
         /\ WellFormed(t)
<1>1. h # 0
  BY TypesUpToIs
<1>2. t \in Above(TypesUpTo[h - 1])
  BY <1>1, TypesUpToIs
<1> QED
  BY <1>1, <1>2 DEF Above

(* What a type is made of.                                                  *)
LEMMA TypeParts ==
  ASSUME NEW t \in Types
  PROVE  /\ t = [kind |-> t.kind, names |-> t.names, kids |-> t.kids, encodings |-> t.encodings]
         /\ t.kind \in DataTypes \cup Semantic \cup Containers
         /\ t.names \in Seq(STRING) /\ t.kids \in Seq(Types)
         /\ t.encodings \in Seq(Encodings)
         /\ WellFormed(t)
<1>1. MaxHeight \in Nat
  BY SchemasAssumption
<1> DEFINE m == MaxHeight + 1
<1>2. m \in Nat /\ m - 1 = MaxHeight
  BY <1>1
<1> HIDE DEF m
<1>3. t \in TypesUpTo[m]
  BY DEF Types, m
<1>4. Seq(TypesUpTo[m - 1]) \subseteq Seq(Types)
  <2>1. TypesUpTo[MaxHeight] \subseteq Types
    BY <1>1, TypesGrow DEF Types
  <2> QED BY <1>2, <2>1
<1> QED
  BY <1>2, <1>3, <1>4, LevelOf

(* The children of a type are types.                                        *)
LEMMA KidTypes ==
  ASSUME NEW t \in Types
  PROVE  /\ Len(t.kids) \in Nat /\ DOMAIN t.kids = 1..Len(t.kids)
         /\ \A k \in DOMAIN t.kids : t.kids[k] \in Types
<1>1. t.kids \in Seq(Types)
  BY TypeParts
<1> QED
  BY <1>1

(* A set that holds every type whose children it holds has all types.       *)
LEMMA TypeInduction ==
  ASSUME NEW S, \A t \in Types : (\A k \in DOMAIN t.kids : t.kids[k] \in S) => t \in S
  PROVE  Types \subseteq S
<1>1. MaxHeight \in Nat
  BY SchemasAssumption
<1> DEFINE m == MaxHeight + 1
<1>2. m \in Nat
  BY <1>1
<1> HIDE DEF m
<1> DEFINE G == {h \in Nat : h <= m => TypesUpTo[h] \subseteq S}
<1>3. 0 \in G
  BY TypesUpToIs
<1>4. ASSUME NEW h \in Nat \ {0}, h - 1 \in G PROVE h \in G
  <2> SUFFICES ASSUME h <= m, NEW t \in TypesUpTo[h] PROVE t \in S
    OBVIOUS
  <2>1. TypesUpTo[h - 1] \subseteq S
    BY <1>2, <1>4
  <2>2. t \in Types
    BY <1>2, TypesMonotone DEF Types, m
  <2>3. t.kids \in Seq(TypesUpTo[h - 1])
    BY LevelOf
  <2> QED BY <2>1, <2>2, <2>3
<1>5. m \in G
  <2> HIDE DEF G
  <2> QED BY <1>2, <1>3, <1>4, SetInduction
<1> QED
  BY <1>2, <1>5 DEF Types, m

\* The results of the children of t.
Results(f, t) == [k \in DOMAIN t.kids |-> f[t.kids[k]]]

(* They make a sequence.                                                    *)
LEMMA ResultsType ==
  ASSUME NEW V, NEW t \in Types, NEW f, \A k \in DOMAIN t.kids : f[t.kids[k]] \in V
  PROVE  /\ Results(f, t) \in Seq(V)
         /\ Len(Results(f, t)) = Len(t.kids)
         /\ \A i \in DOMAIN t.kids : Results(f, t)[i] = f[t.kids[i]]
<1> DEFINE n == Len(t.kids)
           r == Results(f, t)
<1>1. n \in Nat /\ DOMAIN t.kids = 1..n
  BY KidTypes
<1>2. r \in [1..n -> V]
  BY <1>1 DEF Results
<1>3. \A i \in DOMAIN t.kids : r[i] = f[t.kids[i]]
  BY DEF Results
<1> HIDE DEF n, r
<1>4. r \in Seq(V) /\ Len(r) = n
  BY <1>1, <1>2
<1> QED
  BY <1>3, <1>4 DEF n, r

\* step[t] takes the results of the children of t; those and its own are in the
\* sets that W has for the types.
Respects(step, V, W) ==
  \A t \in Types : \A r \in Seq(V) :
    /\ Len(r) = Len(t.kids)
    /\ \A k \in DOMAIN t.kids : r[k] \in W[t.kids[k]]
    => step[t][r] \in W[t]

\* f follows the steps over the types of a set.
Follows(f, step, types) == \A t \in types : f[t] = step[t][Results(f, t)]

(* A recursion over types has a solution.                                   *)
LEMMA TreeFold ==
  ASSUME NEW V, NEW W \in [Types -> SUBSET V], NEW step, Respects(step, V, W)
  PROVE  \E f \in [Types -> V] : Follows(f, step, Types)
<1>1. MaxHeight \in Nat
  BY SchemasAssumption
<1> DEFINE m == MaxHeight + 1
<1>2. m \in Nat
  BY <1>1
<1> HIDE DEF m
<1> DEFINE Solves(f, h) == /\ f \in [TypesUpTo[h] -> V]
                           /\ Follows(f, step, TypesUpTo[h])
                           /\ \A t \in TypesUpTo[h] : f[t] \in W[t]
           S == {h \in Nat : h <= m => \E f : Solves(f, h)}
<1>3. 0 \in S
  <2>1. TypesUpTo[0] = {}
    BY TypesUpToIs
  <2>2. Solves([t \in {} |-> t], 0)
    BY <2>1 DEF Follows
  <2> QED BY <2>2
<1>4. ASSUME NEW h \in Nat \ {0}, h - 1 \in S PROVE h \in S
  <2> SUFFICES ASSUME h <= m PROVE \E f : Solves(f, h)
    OBVIOUS
  <2>1. PICK f : Solves(f, h - 1)
    <3>1. h - 1 <= m
      BY <1>2
    <3> HIDE DEF Solves
    <3> QED BY <1>4, <3>1
  <2> DEFINE g == [t \in TypesUpTo[h] |-> step[t][Results(f, t)]]
  <2>2. ASSUME NEW t \in TypesUpTo[h]
        PROVE  /\ t \in Types /\ t.kids \in Seq(TypesUpTo[h - 1])
               /\ step[t][Results(f, t)] \in W[t]
               /\ g[t] = step[t][Results(f, t)]
    <3>1. t \in Types
      BY <1>2, TypesMonotone DEF Types, m
    <3>2. t.kids \in Seq(TypesUpTo[h - 1])
      BY LevelOf
    <3>3. \A k \in DOMAIN t.kids : t.kids[k] \in TypesUpTo[h - 1]
      BY <3>2
    <3>4. \A k \in DOMAIN t.kids : f[t.kids[k]] \in V /\ f[t.kids[k]] \in W[t.kids[k]]
      BY <2>1, <3>3
    <3>5. /\ Results(f, t) \in Seq(V) /\ Len(Results(f, t)) = Len(t.kids)
          /\ \A k \in DOMAIN t.kids : Results(f, t)[k] = f[t.kids[k]]
      <4> HIDE DEF g
      <4> QED BY <3>1, <3>4, ResultsType
    <3>6. g[t] = step[t][Results(f, t)]
      OBVIOUS
    <3> HIDE DEF g
    <3>7. step[t][Results(f, t)] \in W[t]
      BY <3>1, <3>4, <3>5 DEF Respects
    <3> QED BY <3>1, <3>2, <3>6, <3>7
  <2>3. ASSUME NEW t \in TypesUpTo[h - 1] PROVE t \in TypesUpTo[h] /\ g[t] = f[t]
    <3>1. t \in TypesUpTo[h]
      <4>1. t \in TypesUpTo[(h - 1) + 1]
        BY TypesGrow
      <4>2. (h - 1) + 1 = h
        OBVIOUS
      <4> QED BY <4>1, <4>2
    <3>2. f[t] = step[t][Results(f, t)]
      BY <2>1 DEF Follows
    <3> QED BY <2>2, <3>1, <3>2
  <2>4. ASSUME NEW t \in TypesUpTo[h] PROVE Results(g, t) = Results(f, t)
    <3>1. \A k \in DOMAIN t.kids : t.kids[k] \in TypesUpTo[h - 1]
      <4>1. t.kids \in Seq(TypesUpTo[h - 1])
        BY <2>2
      <4> QED BY <4>1
    <3> HIDE DEF g
    <3>2. \A k \in DOMAIN t.kids : g[t.kids[k]] = f[t.kids[k]]
      BY <2>3, <3>1
    <3> QED BY <3>2 DEF Results
  <2>5. g \in [TypesUpTo[h] -> V]
    <3>1. \A t \in TypesUpTo[h] : step[t][Results(f, t)] \in V
      BY <2>2
    <3> QED BY <3>1
  <2> HIDE DEF g
  <2>6. Solves(g, h)
    BY <2>2, <2>4, <2>5 DEF Follows
  <2> QED BY <2>6
<1>5. m \in S
  <2> HIDE DEF S
  <2> QED BY <1>2, <1>3, <1>4, SetInduction
<1>6. PICK f : Solves(f, m)
  <2> HIDE DEF Solves
  <2> QED BY <1>2, <1>5
<1> QED
  BY <1>6 DEF Types, m

(* What follows the steps where its results have their types has them.      *)
LEMMA FoldType ==
  ASSUME NEW V, NEW W \in [Types -> SUBSET V], NEW step, Respects(step, V, W), NEW f,
         \A t \in Types : Results(f, t) \in Seq(V) => f[t] = step[t][Results(f, t)]
  PROVE  /\ \A t \in Types : f[t] \in V /\ f[t] \in W[t] /\ Results(f, t) \in Seq(V)
         /\ Follows(f, step, Types)
<1> DEFINE S == {t \in Types : f[t] \in W[t] /\ Results(f, t) \in Seq(V)}
<1>1. ASSUME NEW t \in Types, \A k \in DOMAIN t.kids : t.kids[k] \in S PROVE t \in S
  <2>1. \A k \in DOMAIN t.kids : f[t.kids[k]] \in V /\ f[t.kids[k]] \in W[t.kids[k]]
    BY <1>1
  <2>2. /\ Results(f, t) \in Seq(V) /\ Len(Results(f, t)) = Len(t.kids)
        /\ \A k \in DOMAIN t.kids : Results(f, t)[k] = f[t.kids[k]]
    BY <2>1, ResultsType
  <2>3. f[t] = step[t][Results(f, t)]
    BY <2>2
  <2>4. step[t][Results(f, t)] \in W[t]
    BY <2>1, <2>2 DEF Respects
  <2> QED BY <2>2, <2>3, <2>4
<1>2. Types \subseteq S
  <2> HIDE DEF S
  <2> QED BY <1>1, TypeInduction
<1> QED
  BY <1>2 DEF Follows

-----------------------------------------------------------------------------
(* Physical fields and the number of encodings                              *)

\* The parts of roles: names, and what physical_fields puts between them.
RoleParts ==
  STRING \cup {"values", "offsets", "data", "high", "low", "present", "tag", "indices",
               "v", "key", "value", "item"}
Physical == [role : Seq(RoleParts), type : DataTypes]

(* Data types are not kinds of nested types.                                *)
LEMMA Kinds ==
  /\ DataTypes \cap (Semantic \cup Containers) = {} /\ Semantic \cap Containers = {}
  /\ {"u8", "u32", "i32", "i64", "bytes"} \subseteq DataTypes
  /\ {"u8", "u32", "i32", "i64"} \subseteq Integral /\ "bytes" \notin Integral \cup Floats
<1>1. DataTypes \subseteq {"i8", "i16", "i32", "i64", "u8", "u16", "u32", "u64", "f32", "f64",
                           "bytes"}
  BY SchemasAssumption DEF DataTypes, Integral
<1>2. {"u8", "u32", "i32", "i64"} \subseteq Integral
  BY SchemasAssumption DEF Integral
<1> QED
  BY <1>1, <1>2, CodersAssumption DEF DataTypes, Semantic, Containers

(* The fields that a node has itself.                                       *)
LEMMA BeforeIs ==
  ASSUME NEW kind \in DataTypes \cup Semantic \cup Containers
  PROVE  /\ kind \in DataTypes => Before(kind) = << Field("values", kind) >>
         /\ kind \in {"utf8", "binary"} =>
              Before(kind) = << Field("offsets", "u32"), Field("data", "bytes") >>
         /\ kind = "decimal128" =>
              Before(kind) = << Field("high", "i64"), Field("low", "i64") >>
         /\ kind = "date32" => Before(kind) = << Field("values", "i32") >>
         /\ kind \in {"date64", "datetime"} => Before(kind) = << Field("values", "i64") >>
         /\ kind \in {"list", "map"} => Before(kind) = << Field("offsets", "u32") >>
         /\ kind = "nullable" => Before(kind) = << Field("present", "u8") >>
         /\ kind = "union" => Before(kind) = << Field("tag", "u8") >>
         /\ kind \in {"struct", "dict"} => Before(kind) = <<>>
<1>1. /\ DataTypes \cap (Semantic \cup Containers) = {}
  BY Kinds
<1>2. kind \in DataTypes => kind \notin {"utf8", "binary", "decimal128", "date32", "date64",
                              "datetime", "struct", "list", "map", "nullable", "union", "dict"}
  BY <1>1 DEF Semantic, Containers
<1> QED
  BY <1>2 DEF Before

(* What a field is.                                                         *)
LEMMA FieldType ==
  ASSUME NEW role \in RoleParts, NEW t \in DataTypes
  PROVE  Field(role, t) \in Physical /\ Field(role, t).type = t /\ Field(role, t).role[1] = role
<1>1. << role >> \in Seq(RoleParts)
  OBVIOUS
<1> QED
  BY <1>1 DEF Field, Physical

(* The fields of a node are fields.                                         *)
LEMMA BeforeType ==
  ASSUME NEW kind \in DataTypes \cup Semantic \cup Containers
  PROVE  Before(kind) \in Seq(Physical) /\ After(kind) \in Seq(Physical)
<1>1. ASSUME NEW role \in {"values", "offsets", "data", "high", "low", "present", "tag", "indices"},
             NEW t \in DataTypes
      PROVE  Field(role, t) \in Physical
  <2>1. role \in RoleParts
    BY DEF RoleParts
  <2> QED BY <2>1, FieldType
<1>2. "u8" \in DataTypes /\ "u32" \in DataTypes /\ "i32" \in DataTypes /\ "i64" \in DataTypes
      /\ "bytes" \in DataTypes
  BY Kinds
<1>3. /\ Field("offsets", "u32") \in Physical /\ Field("data", "bytes") \in Physical
      /\ Field("high", "i64") \in Physical /\ Field("low", "i64") \in Physical
      /\ Field("values", "i32") \in Physical /\ Field("values", "i64") \in Physical
      /\ Field("present", "u8") \in Physical /\ Field("tag", "u8") \in Physical
      /\ Field("indices", "u32") \in Physical
      /\ kind \in DataTypes => Field("values", kind) \in Physical
  BY <1>1, <1>2
<1>4. Before(kind) \in Seq(Physical)
  <2>1. CASE kind \in DataTypes
    <3>1. Before(kind) = << Field("values", kind) >>
      BY <2>1, BeforeIs
    <3> QED BY <1>3, <2>1, <3>1
  <2>2. CASE kind \in {"utf8", "binary"}
    <3>1. Before(kind) = << Field("offsets", "u32"), Field("data", "bytes") >>
      BY <2>2, BeforeIs
    <3> QED BY <1>3, <3>1
  <2>3. CASE kind = "decimal128"
    <3>1. Before(kind) = << Field("high", "i64"), Field("low", "i64") >>
      BY <2>3, BeforeIs
    <3> QED BY <1>3, <3>1
  <2>4. CASE kind = "date32"
    <3>1. Before(kind) = << Field("values", "i32") >>
      BY <2>4, BeforeIs
    <3> QED BY <1>3, <3>1
  <2>5. CASE kind \in {"date64", "datetime"}
    <3>1. Before(kind) = << Field("values", "i64") >>
      BY <2>5, BeforeIs
    <3> QED BY <1>3, <3>1
  <2>6. CASE kind \in {"list", "map"}
    <3>1. Before(kind) = << Field("offsets", "u32") >>
      BY <2>6, BeforeIs
    <3> QED BY <1>3, <3>1
  <2>7. CASE kind = "nullable"
    <3>1. Before(kind) = << Field("present", "u8") >>
      BY <2>7, BeforeIs
    <3> QED BY <1>3, <3>1
  <2>8. CASE kind = "union"
    <3>1. Before(kind) = << Field("tag", "u8") >>
      BY <2>8, BeforeIs
    <3> QED BY <1>3, <3>1
  <2>9. CASE kind \in {"struct", "dict"}
    <3>1. Before(kind) = <<>>
      BY <2>9, BeforeIs
    <3> QED BY <3>1
  <2>10. \/ kind \in DataTypes \/ kind \in {"utf8", "binary"} \/ kind = "decimal128"
         \/ kind = "date32" \/ kind \in {"date64", "datetime"} \/ kind \in {"list", "map"}
         \/ kind = "nullable" \/ kind = "union" \/ kind \in {"struct", "dict"}
    BY DEF Semantic, Containers
  <2> QED BY <2>1, <2>2, <2>3, <2>4, <2>5, <2>6, <2>7, <2>8, <2>9, <2>10
<1>5. After(kind) \in Seq(Physical)
  BY <1>3 DEF After
<1> QED
  BY <1>4, <1>5

(* Total is the sum.                                                        *)
LEMMA TotalSummed ==
  ASSUME NEW counts
  PROVE  Total(counts) = Summed(counts)
BY Zenon DEF Total, Summed, FoldLeft, MapThenFoldSet

(* A sum of natural numbers is one.                                         *)
LEMMA TotalType ==
  ASSUME NEW counts \in Seq(Nat)
  PROVE  Total(counts) \in Nat
<1>1. Len(counts) \in 0..Len(counts)
  OBVIOUS
<1> QED
  BY <1>1, SummedStep, TotalSummed

(* The equation of expected_encodings_len.                                  *)
LEMMA EncodingsLenIs ==
  /\ EncodingsLen \in [Types -> Nat]
  /\ \A t \in Types :
       EncodingsLen[t] =
         IF t.kind = "struct" THEN 0
         ELSE Len(Before(t.kind)) + Total([k \in DOMAIN t.kids |-> EncodingsLen[t.kids[k]]])
                + Len(After(t.kind))
<1> DEFINE own(t, r) == IF t.kind = "struct" THEN 0
                        ELSE Len(Before(t.kind)) + Total(r) + Len(After(t.kind))
           body(f) == [t \in Types |-> own(t, Results(f, t))]
           step == [t \in Types |-> [r \in Seq(Nat) |-> own(t, r)]]
           W == [t \in Types |-> Nat]
<1>1. ASSUME NEW t \in Types, NEW r \in Seq(Nat) PROVE own(t, r) \in Nat
  <2>1. Total(r) \in Nat
    BY TotalType
  <2>2. Len(Before(t.kind)) \in Nat /\ Len(After(t.kind)) \in Nat
    <3>1. t.kind \in DataTypes \cup Semantic \cup Containers
      BY TypeParts
    <3> QED BY <3>1, BeforeType
  <2> QED BY <2>1, <2>2
<1>2. EncodingsLen = CHOOSE f : f = body(f)
  BY DEF EncodingsLen, Results
<1> HIDE DEF own
<1>3. W \in [Types -> SUBSET Nat] /\ \A t \in Types : W[t] = Nat
  OBVIOUS
<1>4. \A t \in Types : \A r \in Seq(Nat) : step[t][r] = own(t, r)
  OBVIOUS
<1> HIDE DEF W, step
<1>5. Respects(step, Nat, W)
  BY <1>1, <1>3, <1>4 DEF Respects
<1>6. PICK f \in [Types -> Nat] : Follows(f, step, Types)
  BY <1>3, <1>5, TreeFold
<1>7. f = body(f)
  <2>1. ASSUME NEW t \in Types PROVE f[t] = body(f)[t]
    <3>1. Results(f, t) \in Seq(Nat)
      BY KidTypes, ResultsType
    <3> QED BY <1>4, <1>6, <3>1 DEF Follows
  <2> QED BY <2>1
<1>8. EncodingsLen = body(EncodingsLen)
  <2> HIDE DEF body
  <2> QED BY <1>2, <1>7
<1>9. \A t \in Types : EncodingsLen[t] \in Nat
  <2>1. \A t \in Types : Results(EncodingsLen, t) \in Seq(Nat)
                          => EncodingsLen[t] = step[t][Results(EncodingsLen, t)]
    BY <1>4, <1>8
  <2> QED BY <1>3, <1>5, <2>1, FoldType
<1> QED
  BY <1>8, <1>9 DEF own, Results

(* How many children and encodings a type has, by its kind.                 *)
LEMMA Shape ==
  ASSUME NEW t \in Types
  PROVE  /\ t.kind \notin Containers => Len(t.kids) = 0
         /\ t.kind \in {"list", "nullable", "dict"} => Len(t.kids) = 1
         /\ t.kind = "map" => Len(t.kids) = 2
         /\ t.kind \in {"struct", "union"} => Len(t.kids) = Len(t.names)
         /\ t.kind = "struct" => Len(t.encodings) = Len(t.kids)
<1>1. WellFormed(t) /\ t.kind \in DataTypes \cup Semantic \cup Containers
  BY TypeParts
<1>2. t.kind \in Containers => t.kind \notin DataTypes \cup Semantic
  BY Kinds
<1>3. t.kind = "struct" => Len(t.encodings) = Len(t.kids)
  BY <1>1 DEF WellFormed
<1>4. CASE t.kind \notin Containers
  <2>1. Len(t.kids) = 0
    BY <1>1, <1>4 DEF WellFormed, Containers
  <2> QED BY <1>4, <2>1 DEF Containers
<1>5. CASE t.kind \in Containers
  <2>1. Len(t.kids) = CASE t.kind \in DataTypes \cup Semantic -> 0
                        [] t.kind \in {"list", "nullable", "dict"} -> 1
                        [] t.kind = "map" -> 2
                        [] OTHER -> Len(t.names)
    BY <1>1 DEF WellFormed
  <2> QED BY <1>2, <1>3, <1>5, <2>1
<1> QED
  BY <1>4, <1>5

(* The prefix that a node puts before its children's roles.                 *)
LEMMA PrefixType ==
  ASSUME NEW t \in Types, NEW k \in DOMAIN t.kids
  PROVE  Prefix(t, k) \in Seq(RoleParts)
<1>1. t.kind \in Containers
  BY Shape, KidTypes
<1>2. t.kind \in {"struct", "union"} => t.names[k] \in RoleParts
  <2>1. t.names \in Seq(STRING) /\ Len(t.kids) \in Nat /\ DOMAIN t.kids = 1..Len(t.kids)
    BY TypeParts, KidTypes
  <2>2. t.kind \in {"struct", "union"} => Len(t.names) = Len(t.kids)
    BY Shape
  <2> QED BY <2>1, <2>2 DEF RoleParts
<1>3. {"v", "key", "value", "item"} \subseteq RoleParts
  BY DEF RoleParts
<1> QED
  BY <1>1, <1>2, <1>3 DEF Prefix, Containers

(* A prefix leaves the number and the types of the fields.                  *)
LEMMA PrefixedType ==
  ASSUME NEW t \in Types, NEW k \in DOMAIN t.kids, NEW fields \in Seq(Physical)
  PROVE  /\ Prefixed(t, k, fields) \in Seq(Physical)
         /\ Len(Prefixed(t, k, fields)) = Len(fields)
         /\ \A i \in DOMAIN fields : Prefixed(t, k, fields)[i].type = fields[i].type
<1> DEFINE before == Prefix(t, k)
           new(i) == [fields[i] EXCEPT !.role = before \o @]
<1>1. before \in Seq(RoleParts)
  BY PrefixType
<1>2. Prefixed(t, k, fields) = [i \in DOMAIN fields |-> new(i)]
  BY DEF Prefixed
<1> HIDE DEF before
<1>3. ASSUME NEW i \in DOMAIN fields PROVE new(i) \in Physical /\ new(i).type = fields[i].type
  <2> DEFINE f == fields[i]
             r == before \o f.role
             g == [f EXCEPT !.role = r]
  <2>1. f \in [role : Seq(RoleParts), type : DataTypes]
    <3>1. f \in Physical
      OBVIOUS
    <3> HIDE DEF f
    <3> QED BY <3>1 DEF Physical
  <2>2. r \in Seq(RoleParts)
    <3>1. f.role \in Seq(RoleParts)
      BY <2>1
    <3> HIDE DEF f
    <3> QED BY <1>1, <3>1
  <2> HIDE DEF f, r
  <2>3. g \in [role : Seq(RoleParts), type : DataTypes] /\ g.type = f.type
    BY <2>1, <2>2
  <2>4. new(i) = g
    BY DEF f, r
  <2> HIDE DEF new, g
  <2> QED BY <2>3, <2>4 DEF Physical, f
<1> HIDE DEF new
<1>4. Len(fields) \in Nat /\ DOMAIN fields = 1..Len(fields)
  OBVIOUS
<1> QED
  BY <1>2, <1>3, <1>4

(* The equation of physical_fields.                                         *)
\* The fields of the children, one after the other.
KidFields(t, r) == [k \in DOMAIN t.kids |-> Prefixed(t, k, r[k])]

(* The fields of each child, with their prefix.                             *)
LEMMA KidFieldsType ==
  ASSUME NEW t \in Types, NEW r \in Seq(Seq(Physical)), Len(r) = Len(t.kids)
  PROVE  /\ KidFields(t, r) \in Seq(Seq(Physical)) /\ Len(KidFields(t, r)) = Len(t.kids)
         /\ \A k \in DOMAIN t.kids : KidFields(t, r)[k] = Prefixed(t, k, r[k])
<1>1. Len(t.kids) \in Nat /\ DOMAIN t.kids = 1..Len(t.kids)
  BY KidTypes
<1>2. \A k \in DOMAIN t.kids : Prefixed(t, k, r[k]) \in Seq(Physical)
  BY <1>1, PrefixedType
<1> QED
  BY <1>1, <1>2 DEF KidFields

(* The equation of the physical fields.                                     *)
LEMMA PhysicalFieldsIs ==
  /\ \A t \in Types : PhysicalFields[t] \in Seq(Physical)
  /\ \A t \in Types :
       /\ Results(PhysicalFields, t) \in Seq(Seq(Physical))
       /\ PhysicalFields[t] = Before(t.kind) \o FlattenSeq(KidFields(t, Results(PhysicalFields, t)))
                                \o After(t.kind)
<1> DEFINE V == Seq(Physical)
           own(t, r) == Before(t.kind) \o FlattenSeq(KidFields(t, r)) \o After(t.kind)
           body(f) == [t \in Types |->
             Before(t.kind)
               \o FlattenSeq([k \in DOMAIN t.kids |-> Prefixed(t, k, f[t.kids[k]])])
               \o After(t.kind)]
           step == [t \in Types |-> [r \in Seq(V) |-> own(t, r)]]
           W == [t \in Types |-> V]
<1>1. ASSUME NEW t \in Types, NEW r \in Seq(V), Len(r) = Len(t.kids) PROVE own(t, r) \in V
  <2>1. FlattenSeq(KidFields(t, r)) \in Seq(Physical)
    BY <1>1, KidFieldsType, FlattenType
  <2>2. Before(t.kind) \in Seq(Physical) /\ After(t.kind) \in Seq(Physical)
    BY TypeParts, BeforeType
  <2> QED BY <2>1, <2>2
<1>2. PhysicalFields = CHOOSE f : f = body(f)
  BY DEF PhysicalFields
<1>0. ASSUME NEW f PROVE body(f) = [t \in Types |-> own(t, Results(f, t))]
  <2>1. \A t : KidFields(t, Results(f, t))
                    = [k \in DOMAIN t.kids |-> Prefixed(t, k, f[t.kids[k]])]
    BY DEF KidFields, Results
  <2> QED BY <2>1
<1> HIDE DEF own, V, body
<1>3. W \in [Types -> SUBSET V] /\ \A t \in Types : W[t] = V
  OBVIOUS
<1>4. \A t \in Types : \A r \in Seq(V) : step[t][r] = own(t, r)
  OBVIOUS
<1> HIDE DEF W, step
<1>5. Respects(step, V, W)
  BY <1>1, <1>3, <1>4 DEF Respects
<1>6. PICK f \in [Types -> V] : Follows(f, step, Types)
  BY <1>3, <1>5, TreeFold
<1>7. f = body(f)
  <2>1. ASSUME NEW t \in Types PROVE f[t] = body(f)[t]
    <3>1. Results(f, t) \in Seq(V)
      BY KidTypes, ResultsType
    <3> QED BY <1>0, <1>4, <1>6, <3>1 DEF Follows
  <2> QED BY <1>0, <2>1
<1>8. PhysicalFields = [t \in Types |-> own(t, Results(PhysicalFields, t))]
  BY <1>0, <1>2, <1>7
<1>9. \A t \in Types : PhysicalFields[t] \in V /\ Results(PhysicalFields, t) \in Seq(V)
  <2>1. \A t \in Types : Results(PhysicalFields, t) \in Seq(V)
                          => PhysicalFields[t] = step[t][Results(PhysicalFields, t)]
    BY <1>4, <1>8
  <2>2. \A t \in Types : PhysicalFields[t] \in V /\ PhysicalFields[t] \in W[t]
                          /\ Results(PhysicalFields, t) \in Seq(V)
    BY <1>3, <1>5, <2>1, FoldType
  <2> QED BY <2>2
<1> QED
  BY <1>8, <1>9 DEF own, V

-----------------------------------------------------------------------------
(* Validation                                                               *)

(* The equation of validation.                                              *)
LEMMA ValidTypeIs ==
  /\ \A t \in Types : ValidType[t] \in [Nat -> BOOLEAN]
  /\ \A t \in Types : \A depth \in Nat :
       ValidType[t][depth] <=> /\ ValidNode(t, depth)
                               /\ \A k \in DOMAIN t.kids : ValidType[t.kids[k]][depth + 1]
<1> DEFINE V == [Nat -> BOOLEAN]
           own(t, r) == [depth \in Nat |-> /\ ValidNode(t, depth)
                                           /\ \A k \in DOMAIN t.kids : r[k][depth + 1]]
           body(f) == [t \in Types |->
             [depth \in Nat |-> /\ ValidNode(t, depth)
                                /\ \A k \in DOMAIN t.kids : f[t.kids[k]][depth + 1]]]
           step == [t \in Types |-> [r \in Seq(V) |-> own(t, r)]]
           W == [t \in Types |-> V]
<1>1. ASSUME NEW t \in Types, NEW r \in Seq(V) PROVE own(t, r) \in V
  BY Zenon
<1>2. ValidType = CHOOSE f : f = body(f)
  BY DEF ValidType
<1>0. ASSUME NEW f PROVE body(f) = [t \in Types |-> own(t, Results(f, t))]
  <2>1. ASSUME NEW t
        PROVE  own(t, Results(f, t))
                 = [depth \in Nat |-> /\ ValidNode(t, depth)
                                      /\ \A k \in DOMAIN t.kids : f[t.kids[k]][depth + 1]]
    <3>1. \A k \in DOMAIN t.kids : Results(f, t)[k] = f[t.kids[k]]
      BY DEF Results
    <3> QED BY <3>1
  <2> QED BY <2>1
<1> HIDE DEF own, V, body
<1>3. W \in [Types -> SUBSET V] /\ \A t \in Types : W[t] = V
  OBVIOUS
<1>4. \A t \in Types : \A r \in Seq(V) : step[t][r] = own(t, r)
  OBVIOUS
<1> HIDE DEF W, step
<1>5. Respects(step, V, W)
  BY <1>1, <1>3, <1>4 DEF Respects
<1>6. PICK f \in [Types -> V] : Follows(f, step, Types)
  BY <1>3, <1>5, TreeFold
<1>7. f = body(f)
  <2>1. ASSUME NEW t \in Types PROVE f[t] = body(f)[t]
    <3>1. Results(f, t) \in Seq(V)
      BY KidTypes, ResultsType
    <3> QED BY <1>0, <1>4, <1>6, <3>1 DEF Follows
  <2> QED BY <1>0, <2>1
<1>8. ValidType = [t \in Types |-> own(t, Results(ValidType, t))]
  BY <1>0, <1>2, <1>7
<1>9. \A t \in Types : ValidType[t] \in V
  <2>1. \A t \in Types : Results(ValidType, t) \in Seq(V)
                          => ValidType[t] = step[t][Results(ValidType, t)]
    BY <1>4, <1>8
  <2> QED BY <1>3, <1>5, <2>1, FoldType
<1>10. ASSUME NEW t \in Types, NEW depth \in Nat
       PROVE  ValidType[t][depth] <=> /\ ValidNode(t, depth)
                                      /\ \A k \in DOMAIN t.kids : ValidType[t.kids[k]][depth + 1]
  <2>1. ValidType[t] = own(t, Results(ValidType, t))
    BY <1>8
  <2>2. \A k \in DOMAIN t.kids : Results(ValidType, t)[k] = ValidType[t.kids[k]]
    BY DEF Results
  <2> QED BY <2>1, <2>2 DEF own
<1> QED
  BY <1>9, <1>10 DEF V

-----------------------------------------------------------------------------
(* Slices of encodings                                                      *)

\* The numbers of encodings of the children.
Lens(t) == Results(EncodingsLen, t)

\* The encodings of a node before and with those of its first k children.
Taken(t, k) == Len(Before(t.kind)) + Summed(SubSeq(Lens(t), 1, k))

(* One number for each child.                                               *)
LEMMA LensType ==
  ASSUME NEW t \in Types
  PROVE  /\ Lens(t) \in Seq(Nat) /\ Len(Lens(t)) = Len(t.kids)
         /\ \A k \in DOMAIN t.kids : Lens(t)[k] = EncodingsLen[t.kids[k]]
<1>1. \A k \in DOMAIN t.kids : EncodingsLen[t.kids[k]] \in Nat
  BY KidTypes, EncodingsLenIs
<1> QED
  BY <1>1, ResultsType DEF Lens

(* From one child to the next, and all together.                            *)
LEMMA TakenIs ==
  ASSUME NEW t \in Types
  PROVE  /\ Len(Before(t.kind)) \in Nat /\ Len(After(t.kind)) \in Nat
         /\ Taken(t, 0) = Len(Before(t.kind))
         /\ \A k \in 0..Len(t.kids) : /\ Taken(t, k) \in Nat
                                      /\ Len(Before(t.kind)) <= Taken(t, k)
                                      /\ Taken(t, k) <= Taken(t, Len(t.kids))
         /\ \A k \in DOMAIN t.kids : Taken(t, k) = Taken(t, k - 1) + EncodingsLen[t.kids[k]]
         /\ t.kind # "struct" =>
              EncodingsLen[t] = Taken(t, Len(t.kids)) + Len(After(t.kind))
<1> DEFINE n == Len(t.kids)
           upTo(k) == Summed(SubSeq(Lens(t), 1, k))
<1>1. n \in Nat /\ DOMAIN t.kids = 1..n
  BY KidTypes
<1>2. Len(Before(t.kind)) \in Nat /\ Len(After(t.kind)) \in Nat
  <2>1. Before(t.kind) \in Seq(Physical) /\ After(t.kind) \in Seq(Physical)
    BY TypeParts, BeforeType
  <2> QED BY <2>1
<1>3. Lens(t) \in Seq(Nat) /\ Len(Lens(t)) = n
  BY LensType
<1>4. upTo(0) = 0
  BY <1>3, SummedStep
<1>5. \A k \in 0..n : upTo(k) \in Nat
  <2>1. \A k \in 0..Len(Lens(t)) : upTo(k) \in Nat
    BY <1>3, SummedStep
  <2> QED BY <1>3, <2>1
<1>6. \A k \in 1..n : upTo(k) = upTo(k - 1) + EncodingsLen[t.kids[k]]
  <2>1. \A k \in 1..Len(Lens(t)) : upTo(k) = upTo(k - 1) + Lens(t)[k]
    BY <1>3, SummedStep
  <2>2. \A k \in 1..n : Lens(t)[k] = EncodingsLen[t.kids[k]]
    BY <1>1, LensType
  <2> HIDE DEF upTo
  <2> QED BY <1>3, <2>1, <2>2
<1>7. \A k \in 0..n : upTo(k) <= upTo(n)
  <2> SUFFICES ASSUME NEW k \in 0..n PROVE upTo(k) <= upTo(n)
    OBVIOUS
  <2>1. k \in 0..Len(Lens(t)) /\ n \in k..Len(Lens(t))
    BY <1>1, <1>3
  <2> HIDE DEF n
  <2> QED BY <1>3, <2>1, SummedGrows
<1>8. upTo(n) = Total(Lens(t))
  <2>1. SubSeq(Lens(t), 1, n) = Lens(t)
    <3>1. SubSeq(Lens(t), 1, Len(Lens(t))) = Lens(t)
      BY <1>3, SummedStep
    <3> QED BY <1>3, <3>1
  <2> QED BY <2>1, TotalSummed
<1>9. t.kind # "struct" =>
        EncodingsLen[t] = Len(Before(t.kind)) + Total(Lens(t)) + Len(After(t.kind))
  BY EncodingsLenIs DEF Lens, Results
<1>10. \A k : Taken(t, k) = Len(Before(t.kind)) + upTo(k)
  BY DEF Taken
<1> HIDE DEF upTo, n
<1>11. Taken(t, 0) = Len(Before(t.kind))
  BY <1>2, <1>4, <1>10
<1>12. ASSUME NEW k \in 0..n
       PROVE  Taken(t, k) \in Nat /\ Len(Before(t.kind)) <= Taken(t, k) /\ Taken(t, k) <= Taken(t, n)
  <2>1. n \in 0..n
    BY <1>1
  <2> QED BY <1>2, <1>5, <1>7, <1>10, <2>1
<1>13. ASSUME NEW k \in 1..n PROVE Taken(t, k) = Taken(t, k - 1) + EncodingsLen[t.kids[k]]
  <2>1. k - 1 \in 0..n /\ k \in 0..n
    BY <1>1
  <2>2. EncodingsLen[t.kids[k]] \in Nat
    BY <1>1, KidTypes, EncodingsLenIs
  <2> QED BY <1>2, <1>5, <1>6, <1>10, <2>1, <2>2
<1>14. t.kind # "struct" => EncodingsLen[t] = Taken(t, n) + Len(After(t.kind))
  BY <1>8, <1>9, <1>10
<1> QED
  BY <1>1, <1>2, <1>11, <1>12, <1>13, <1>14 DEF n

(* Where the slice of a child starts.                                       *)
LEMMA StartIs ==
  ASSUME NEW t \in Types, NEW k \in DOMAIN t.kids
  PROVE  Start(t, k) = Taken(t, k - 1) /\ Start(t, k) \in Nat
<1>1. Len(t.kids) \in Nat /\ k \in 1..Len(t.kids) /\ k - 1 \in 0..Len(t.kids)
  BY KidTypes
<1>2. Lens(t) \in Seq(Nat) /\ Len(Lens(t)) = Len(t.kids)
  BY LensType
<1>3. [i \in 1..k - 1 |-> EncodingsLen[t.kids[i]]] = SubSeq(Lens(t), 1, k - 1)
  <2> DEFINE a == [i \in 1..k - 1 |-> EncodingsLen[t.kids[i]]]
             b == SubSeq(Lens(t), 1, k - 1)
             m == k - 1
  <2>1. m \in Nat /\ m <= Len(Lens(t))
    BY <1>1, <1>2
  <2>2. b \in Seq(Nat) /\ Len(b) = m /\ \A i \in 1..m : b[i] = Lens(t)[i]
    BY <1>2, <2>1
  <2>3. \A i \in 1..m : a[i] = Lens(t)[i]
    BY <1>1, LensType, KidTypes
  <2>4. DOMAIN a = 1..m
    OBVIOUS
  <2>5. a \in Seq(Nat) /\ Len(a) = m
    <3>1. \A i \in 1..m : a[i] \in Nat
      BY <1>1, KidTypes, EncodingsLenIs
    <3> QED BY <2>1, <2>4, <3>1
  <2> HIDE DEF a, b, m
  <2>6. \A i \in 1..Len(a) : a[i] = b[i]
    BY <2>2, <2>3, <2>5
  <2>7. Len(a) = Len(b)
    BY <2>2, <2>5
  <2>8. a = b
    BY <2>2, <2>5, <2>6, <2>7, SeqEqual
  <2> QED BY <2>8 DEF a, b, m
<1>4. Start(t, k) = Taken(t, k - 1)
  BY <1>3, TotalSummed DEF Start, Taken
<1> QED
  BY <1>1, <1>4, TakenIs

(* The slices of exactly as many encodings as the type needs are exactly as  *)
(* long as the children need.                                               *)
LEMMA SlicesFit ==
  ASSUME NEW t \in Types, t.kind # "struct", NEW encodings \in Encodings,
         Len(encodings) = EncodingsLen[t], NEW k \in DOMAIN t.kids
  PROVE  /\ Start(t, k) \in Nat /\ End(t, k, encodings) \in Nat
         /\ End(t, k, encodings) = Start(t, k) + EncodingsLen[t.kids[k]]
         /\ End(t, k, encodings) = Taken(t, k)
         /\ Start(t, k) <= End(t, k, encodings)
         /\ End(t, k, encodings) <= Len(encodings)
<1>1. Len(t.kids) \in Nat /\ k \in 1..Len(t.kids) /\ k \in 0..Len(t.kids)
  BY KidTypes
<1>2. Start(t, k) \in Nat /\ Start(t, k) = Taken(t, k - 1)
  BY StartIs
<1>3. EncodingsLen[t.kids[k]] \in Nat
  BY KidTypes, EncodingsLenIs
<1>4. Taken(t, k) = Start(t, k) + EncodingsLen[t.kids[k]]
  BY <1>2, TakenIs
<1>5. Taken(t, k) \in Nat /\ Taken(t, k) <= Taken(t, Len(t.kids)) /\ Taken(t, Len(t.kids)) \in Nat
  <2>1. Len(t.kids) \in 0..Len(t.kids)
    BY <1>1
  <2> QED BY <1>1, <2>1, TakenIs
<1>6. Len(encodings) = Taken(t, Len(t.kids)) + Len(After(t.kind)) /\ Len(After(t.kind)) \in Nat
  BY TakenIs
<1>7. End(t, k, encodings) = Taken(t, k)
  <2>1. CASE k = Len(t.kids) /\ t.kind \in {"list", "map", "nullable"}
    <3>1. Len(After(t.kind)) = 0
      BY <2>1 DEF After
    <3>2. End(t, k, encodings) = Len(encodings)
      BY <2>1 DEF End
    <3> QED BY <1>5, <1>6, <2>1, <3>1, <3>2
  <2>2. CASE ~(k = Len(t.kids) /\ t.kind \in {"list", "map", "nullable"})
    BY <1>4, <2>2 DEF End
  <2> QED BY <2>1, <2>2
<1> QED
  BY <1>2, <1>3, <1>4, <1>5, <1>6, <1>7

-----------------------------------------------------------------------------
(* Building pipelines                                                       *)

Outcomes == Seq(Pipeline) \cup {Fail, Panic}

(* A pipeline is built if the coders fit the type of the field.             *)
LEMMA BuiltIs ==
  ASSUME NEW field \in Physical, NEW coders \in Seq(Coding)
  PROVE  /\ Built(field, coders) \in Outcomes /\ Built(field, coders) # Panic
         /\ Builds(field.type, coders) =>
              /\ Built(field, coders) \in Seq(Pipeline) /\ Len(Built(field, coders)) = 1
              /\ Built(field, coders)[1].input = field.type
              /\ Built(field, coders)[1].stages = coders
         /\ Built(field, coders) # Fail => Builds(field.type, coders)
<1> DEFINE p == [input |-> field.type, stages |-> coders]
<1>1. p \in Pipeline /\ p.input = field.type /\ p.stages = coders
  BY DEF Physical, Pipeline
<1>2. Built(field, coders) = IF Builds(field.type, coders) THEN << p >> ELSE Fail
  BY DEF Built
<1> HIDE DEF p
<1>3. << p >> \in Seq(Pipeline) /\ Len(<< p >>) = 1 /\ << p >>[1] = p
  BY <1>1
<1>4. Panic # Fail /\ Fail \notin Seq(Pipeline) /\ Panic \notin Seq(Pipeline)
  BY SchemasAssumption
<1> QED
  BY <1>1, <1>2, <1>3, <1>4 DEF Outcomes

(* The first part that failed decides; without one, the parts are joined.   *)
LEMMA JoinedIs ==
  ASSUME NEW parts \in Seq(Outcomes)
  PROVE  /\ Joined(parts) \in Outcomes
         /\ (\A i \in DOMAIN parts : parts[i] \notin {Fail, Panic}) =>
              /\ parts \in Seq(Seq(Pipeline)) /\ Joined(parts) = FlattenSeq(parts)
              /\ Joined(parts) \in Seq(Pipeline)
         /\ Joined(parts) \notin {Fail, Panic} =>
              \A i \in DOMAIN parts : parts[i] \notin {Fail, Panic}
         /\ Joined(parts) = Panic => \E i \in DOMAIN parts : parts[i] = Panic
<1> DEFINE bad == {i \in DOMAIN parts : parts[i] \in {Fail, Panic}}
           first == CHOOSE i \in bad : \A j \in bad : i <= j
<1>1. Panic # Fail /\ Fail \notin Seq(Pipeline) /\ Panic \notin Seq(Pipeline)
  BY SchemasAssumption
<1>2. Joined(parts) = IF bad = {} THEN FlattenSeq(parts) ELSE parts[first]
  BY DEF Joined
<1>3. CASE bad = {}
  <2>1. \A i \in DOMAIN parts : parts[i] \notin {Fail, Panic}
    BY <1>3
  <2>2. parts \in Seq(Seq(Pipeline))
    <3>1. \A i \in 1..Len(parts) : parts[i] \in Outcomes
      OBVIOUS
    <3>2. \A i \in 1..Len(parts) : parts[i] \in Seq(Pipeline)
      BY <2>1, <3>1 DEF Outcomes
    <3> QED BY <3>2
  <2>3. FlattenSeq(parts) \in Seq(Pipeline)
    BY <2>2, FlattenType
  <2> HIDE DEF bad, first
  <2> QED BY <1>1, <1>2, <1>3, <2>1, <2>2, <2>3 DEF Outcomes
<1>4. CASE bad # {}
  <2>1. \E i \in bad : \A j \in bad : i <= j
    <3>1. bad \subseteq Nat
      OBVIOUS
    <3> HIDE DEF bad
    <3> QED BY <1>4, <3>1, LeastNatural
  <2>2. first \in bad
    <3> HIDE DEF bad
    <3> QED BY <2>1
  <2> HIDE DEF first
  <2>3. first \in DOMAIN parts /\ parts[first] \in {Fail, Panic}
    BY <2>2
  <2> HIDE DEF bad
  <2> QED BY <1>1, <1>2, <1>4, <2>3 DEF Outcomes
<1> QED
  BY <1>3, <1>4

(* What the children of a node give.                                        *)
LEMMA ChildrenType ==
  ASSUME NEW t \in Types, NEW encodings \in Encodings, NEW r \in Seq([Encodings -> Outcomes]),
         Len(r) = Len(t.kids)
  PROVE  /\ Children(t, encodings, r) \in Seq(Outcomes)
         /\ Len(Children(t, encodings, r)) = Len(t.kids)
         /\ \A k \in DOMAIN t.kids :
              /\ t.kind = "struct" =>
                   /\ t.encodings[k] \in Encodings
                   /\ Children(t, encodings, r)[k] = r[k][t.encodings[k]]
              /\ t.kind # "struct" /\ Start(t, k) <= End(t, k, encodings)
                                   /\ End(t, k, encodings) <= Len(encodings) =>
                   LET slice == SubSeq(encodings, Start(t, k) + 1, End(t, k, encodings))
                   IN /\ slice \in Encodings
                      /\ Children(t, encodings, r)[k] = r[k][slice]
<1> DEFINE n == Len(t.kids)
           slice(k) == SubSeq(encodings, Start(t, k) + 1, End(t, k, encodings))
           fits(k) == Start(t, k) <= End(t, k, encodings) /\ End(t, k, encodings) <= Len(encodings)
           child(k) == IF t.kind = "struct" THEN r[k][t.encodings[k]]
                       ELSE IF fits(k) THEN r[k][slice(k)] ELSE Panic
<1>1. n \in Nat /\ DOMAIN t.kids = 1..n
  BY KidTypes
<1>2. ASSUME NEW k \in 1..n PROVE Start(t, k) \in Nat /\ End(t, k, encodings) \in Nat
  <2>1. Start(t, k) \in Nat
    BY <1>1, StartIs
  <2>2. EncodingsLen[t.kids[k]] \in Nat
    BY <1>1, KidTypes, EncodingsLenIs
  <2>3. Len(encodings) \in Nat
    BY DEF Encodings
  <2> QED BY <2>1, <2>2, <2>3 DEF End
<1>3. ASSUME NEW k \in 1..n, fits(k) PROVE slice(k) \in Encodings
  <2> DEFINE a == Start(t, k)
             b == End(t, k, encodings)
  <2>1. a \in Nat /\ b \in Nat /\ b <= Len(encodings)
    BY <1>2, <1>3
  <2> HIDE DEF a, b
  <2>2. SubSeq(encodings, a + 1, b) \in Encodings
    BY <2>1 DEF Encodings
  <2> QED BY <2>2 DEF a, b
<1>4. ASSUME NEW k \in 1..n, t.kind = "struct" PROVE t.encodings[k] \in Encodings
  <2>1. t.encodings \in Seq(Encodings) /\ Len(t.encodings) = n
    BY <1>4, TypeParts, Shape
  <2> QED BY <1>1, <2>1
<1>5. Children(t, encodings, r) = [k \in 1..n |-> child(k)]
  <2>1. \A k \in 1..n : fits(k) <=> ~(\/ Start(t, k) > End(t, k, encodings)
                                      \/ End(t, k, encodings) > Len(encodings))
    <3>1. Len(encodings) \in Nat
      BY DEF Encodings
    <3> QED BY <1>2, <3>1
  <2> HIDE DEF n, fits
  <2> QED BY <1>1, <2>1, Zenon DEF Children
<1> HIDE DEF slice, fits
<1>6. ASSUME NEW k \in 1..n PROVE child(k) \in Outcomes
  <2>1. r[k] \in [Encodings -> Outcomes]
    BY <1>1
  <2> QED BY <1>3, <1>4, <2>1 DEF Outcomes
<1>7. \A k \in 1..n : /\ t.kind = "struct" => child(k) = r[k][t.encodings[k]]
                      /\ t.kind # "struct" /\ fits(k) => child(k) = r[k][slice(k)]
  OBVIOUS
<1> HIDE DEF n, child
<1>8. Children(t, encodings, r) \in Seq(Outcomes) /\ Len(Children(t, encodings, r)) = n
  BY <1>1, <1>5, <1>6
<1>9. \A k \in 1..n : Children(t, encodings, r)[k] = child(k)
  BY <1>5
<1> QED
  BY <1>1, <1>3, <1>4, <1>7, <1>8, <1>9 DEF n, slice, fits

(* The results of a node's own fields.                                      *)
LEMMA OwnType ==
  ASSUME NEW t \in Types, NEW encodings \in Encodings
  PROVE  /\ Own(t, encodings) \in Seq(Outcomes)
         /\ Len(Own(t, encodings)) <= Len(encodings)
         /\ Len(Own(t, encodings)) <= Len(Before(t.kind))
         /\ Len(Before(t.kind)) <= Len(encodings) => Len(Own(t, encodings)) = Len(Before(t.kind))
         /\ \A i \in DOMAIN Own(t, encodings) :
              Own(t, encodings)[i] = Built(Before(t.kind)[i], encodings[i])
<1> DEFINE fields == Before(t.kind)
           zipped == IF Len(fields) < Len(encodings) THEN Len(fields) ELSE Len(encodings)
           built(i) == Built(fields[i], encodings[i])
<1>1. fields \in Seq(Physical) /\ Len(fields) \in Nat
  BY TypeParts, BeforeType
<1>2. encodings \in Seq(Seq(Coding)) /\ Len(encodings) \in Nat
  BY DEF Encodings
<1>3. Own(t, encodings) = [i \in 1..zipped |-> built(i)]
  BY DEF Own
<1>4. /\ zipped \in Nat /\ zipped <= Len(encodings) /\ zipped <= Len(fields)
      /\ Len(fields) <= Len(encodings) => zipped = Len(fields)
  BY <1>1, <1>2
<1>5. ASSUME NEW i \in 1..zipped PROVE built(i) \in Outcomes
  <2>1. fields[i] \in Physical /\ encodings[i] \in Seq(Coding)
    BY <1>1, <1>2, <1>4
  <2> QED BY <2>1, BuiltIs
<1> HIDE DEF zipped, built
<1>6. [i \in 1..zipped |-> built(i)] \in Seq(Outcomes) /\ Len([i \in 1..zipped |-> built(i)]) = zipped
  BY <1>4, <1>5
<1> QED
  BY <1>3, <1>4, <1>6 DEF built

\* What a node gives, by what its children give.
NodeBuilt(t, encodings, children) ==
  CASE t.kind \notin Containers -> Joined(Own(t, encodings))
    [] t.kind = "dict" ->
         IF Len(encodings) < EncodingsLen[t] THEN Fail
         ELSE Joined(Append(children, Built(After("dict")[1], encodings[EncodingsLen[t]])))
    [] OTHER ->
         IF t.kind # "struct" /\ encodings = <<>> THEN Fail
         ELSE Joined(Own(t, encodings) \o children)

(* The field of the indices, and the encoding it takes.                     *)
LEMMA IndicesIs ==
  /\ After("dict") = << Field("indices", "u32") >> /\ Len(After("dict")) = 1
  /\ Field("indices", "u32") \in Physical /\ Field("indices", "u32").type = "u32"
  /\ \A t \in Types : t.kind = "dict" => EncodingsLen[t] \in Nat \ {0}
  /\ \A kind : kind # "dict" => After(kind) = <<>>
<1>1. After("dict") = << Field("indices", "u32") >> /\ Len(After("dict")) = 1
  BY DEF After
<1>2. "indices" \in RoleParts /\ "u32" \in DataTypes
  BY Kinds DEF RoleParts
<1>3. Field("indices", "u32") \in Physical /\ Field("indices", "u32").type = "u32"
  BY <1>2, FieldType
<1>4. ASSUME NEW t \in Types, t.kind = "dict" PROVE EncodingsLen[t] \in Nat \ {0}
  <2>1. EncodingsLen[t] = Taken(t, Len(t.kids)) + Len(After(t.kind))
    BY <1>4, TakenIs
  <2>2. Len(t.kids) \in 0..Len(t.kids)
    BY KidTypes
  <2>3. Taken(t, Len(t.kids)) \in Nat
    BY <2>2, TakenIs
  <2>4. Len(After(t.kind)) = 1
    BY <1>1, <1>4
  <2> QED BY <2>1, <2>3, <2>4
<1> QED
  BY <1>1, <1>3, <1>4 DEF After

(* A node gives pipelines, or fails, or panics.                             *)
LEMMA NodeBuiltType ==
  ASSUME NEW t \in Types, NEW encodings \in Encodings, NEW children \in Seq(Outcomes)
  PROVE  NodeBuilt(t, encodings, children) \in Outcomes
<1>1. Own(t, encodings) \in Seq(Outcomes)
  BY OwnType
<1>2. Own(t, encodings) \o children \in Seq(Outcomes)
  BY <1>1
<1>3. Joined(Own(t, encodings)) \in Outcomes /\ Joined(Own(t, encodings) \o children) \in Outcomes
  BY <1>1, <1>2, JoinedIs
<1>4. Fail \in Outcomes
  BY DEF Outcomes
<1>5. ASSUME t.kind = "dict", ~(Len(encodings) < EncodingsLen[t])
      PROVE  Joined(Append(children, Built(After("dict")[1], encodings[EncodingsLen[t]]))) \in Outcomes
  <2> DEFINE n == EncodingsLen[t]
             field == After("dict")[1]
  <2>1. n \in Nat \ {0} /\ field \in Physical
    BY <1>5, IndicesIs
  <2>2. Len(encodings) \in Nat /\ encodings \in Seq(Seq(Coding))
    BY DEF Encodings
  <2>3. n \in 1..Len(encodings)
    <3> HIDE DEF field
    <3>1. ~(Len(encodings) < n)
      BY <1>5
    <3> HIDE DEF n
    <3> QED BY <2>1, <2>2, <3>1
  <2> HIDE DEF n, field
  <2>4. encodings[n] \in Seq(Coding)
    BY <2>2, <2>3
  <2>5. Built(field, encodings[n]) \in Outcomes
    BY <2>1, <2>4, BuiltIs
  <2>6. Append(children, Built(field, encodings[n])) \in Seq(Outcomes)
    BY <2>5
  <2>7. Joined(Append(children, Built(field, encodings[n]))) \in Outcomes
    BY <2>6, JoinedIs
  <2> QED BY <2>7 DEF n, field
<1>6. t.kind = "dict" => t.kind \in Containers
  BY DEF Containers
<1> QED
  BY <1>3, <1>4, <1>5, <1>6 DEF NodeBuilt

(* The equation of build_pipelines_for_type.                                *)
LEMMA BuildPipelinesIs ==
  /\ \A t \in Types : BuildPipelines[t] \in [Encodings -> Outcomes]
  /\ \A t \in Types : /\ Results(BuildPipelines, t) \in Seq([Encodings -> Outcomes])
                      /\ Len(Results(BuildPipelines, t)) = Len(t.kids)
                      /\ \A k \in DOMAIN t.kids :
                           Results(BuildPipelines, t)[k] = BuildPipelines[t.kids[k]]
  /\ \A t \in Types : \A encodings \in Encodings :
       BuildPipelines[t][encodings]
         = NodeBuilt(t, encodings, Children(t, encodings, Results(BuildPipelines, t)))
<1> DEFINE V == [Encodings -> Outcomes]
           own(t, r) == [encodings \in Encodings |->
                           NodeBuilt(t, encodings, Children(t, encodings, r))]
           body(f) == [t \in Types |->
             [encodings \in Encodings |->
               LET children == Children(t, encodings, [k \in DOMAIN t.kids |-> f[t.kids[k]]])
               IN CASE t.kind \notin Containers -> Joined(Own(t, encodings))
                    [] t.kind = "dict" ->
                         IF Len(encodings) < EncodingsLen[t] THEN Fail
                         ELSE Joined(Append(children, Built(After("dict")[1],
                                                            encodings[EncodingsLen[t]])))
                    [] OTHER ->
                         IF t.kind # "struct" /\ encodings = <<>> THEN Fail
                         ELSE Joined(Own(t, encodings) \o children)]]
           step == [t \in Types |-> [r \in Seq(V) |-> own(t, r)]]
           W == [t \in Types |-> V]
<1>1. ASSUME NEW t \in Types, NEW r \in Seq(V), Len(r) = Len(t.kids) PROVE own(t, r) \in V
  <2>1. ASSUME NEW encodings \in Encodings
        PROVE  NodeBuilt(t, encodings, Children(t, encodings, r)) \in Outcomes
    <3>1. Children(t, encodings, r) \in Seq(Outcomes)
      BY <1>1, ChildrenType
    <3> QED BY <3>1, NodeBuiltType
  <2> QED BY <2>1
<1>2. BuildPipelines = CHOOSE f : f = body(f)
  BY DEF BuildPipelines
<1>0. ASSUME NEW f PROVE body(f) = [t \in Types |-> own(t, Results(f, t))]
  BY Zenon DEF NodeBuilt, Results
<1> HIDE DEF own, V, body
<1>3. W \in [Types -> SUBSET V] /\ \A t \in Types : W[t] = V
  OBVIOUS
<1>4. \A t \in Types : \A r \in Seq(V) : step[t][r] = own(t, r)
  OBVIOUS
<1> HIDE DEF W, step
<1>5. Respects(step, V, W)
  BY <1>1, <1>3, <1>4 DEF Respects
<1>6. PICK f \in [Types -> V] : Follows(f, step, Types)
  BY <1>3, <1>5, TreeFold
<1>7. f = body(f)
  <2>1. ASSUME NEW t \in Types PROVE f[t] = body(f)[t]
    <3>1. Results(f, t) \in Seq(V)
      BY KidTypes, ResultsType
    <3> QED BY <1>0, <1>4, <1>6, <3>1 DEF Follows
  <2> QED BY <1>0, <2>1
<1>8. BuildPipelines = [t \in Types |-> own(t, Results(BuildPipelines, t))]
  BY <1>0, <1>2, <1>7
<1>9. \A t \in Types : BuildPipelines[t] \in V /\ Results(BuildPipelines, t) \in Seq(V)
  <2>1. \A t \in Types : Results(BuildPipelines, t) \in Seq(V)
                          => BuildPipelines[t] = step[t][Results(BuildPipelines, t)]
    BY <1>4, <1>8
  <2>2. \A t \in Types : BuildPipelines[t] \in V /\ BuildPipelines[t] \in W[t]
                          /\ Results(BuildPipelines, t) \in Seq(V)
    BY <1>3, <1>5, <2>1, FoldType
  <2> QED BY <2>2
<1>10. \A t \in Types : \A encodings \in Encodings :
         BuildPipelines[t][encodings]
           = NodeBuilt(t, encodings, Children(t, encodings, Results(BuildPipelines, t)))
  BY <1>8 DEF own
<1>11. ASSUME NEW t \in Types
       PROVE  /\ Len(Results(BuildPipelines, t)) = Len(t.kids)
              /\ \A k \in DOMAIN t.kids :
                   Results(BuildPipelines, t)[k] = BuildPipelines[t.kids[k]]
  <2> DEFINE g == BuildPipelines
  <2>1. \A k \in DOMAIN t.kids : g[t.kids[k]] \in V
    BY <1>9, KidTypes
  <2> HIDE DEF g
  <2>2. /\ Len(Results(g, t)) = Len(t.kids)
        /\ \A k \in DOMAIN t.kids : Results(g, t)[k] = g[t.kids[k]]
    BY <2>1, ResultsType
  <2> QED BY <2>2 DEF g
<1> QED
  BY <1>9, <1>10, <1>11 DEF V

-----------------------------------------------------------------------------
(* A node whose encodings have the right number                              *)

\* What child k gets of the encodings, what the children build, and the indices.
KidEncodings(t, encodings, k) ==
  IF t.kind = "struct" THEN t.encodings[k]
  ELSE SubSeq(encodings, Taken(t, k - 1) + 1, Taken(t, k))
KidsBuilt(t, encodings) ==
  [k \in DOMAIN t.kids |-> BuildPipelines[t.kids[k]][KidEncodings(t, encodings, k)]]
LastBuilt(t, encodings) ==
  IF t.kind = "dict" THEN << Built(After("dict")[1], encodings[EncodingsLen[t]]) >> ELSE <<>>

\* As many encodings as expected, for the fields of a struct too.
RightLens(t, encodings) ==
  /\ Len(encodings) = EncodingsLen[t]
  /\ t.kind = "struct" =>
       \A k \in DOMAIN t.kids : Len(t.encodings[k]) = EncodingsLen[t.kids[k]]

(* A slice of a sequence.                                                   *)
LEMMA SliceIs ==
  ASSUME NEW T, NEW s \in Seq(T), NEW a \in Nat, NEW n \in Nat, a + n <= Len(s)
  PROVE  /\ SubSeq(s, a + 1, a + n) \in Seq(T) /\ Len(SubSeq(s, a + 1, a + n)) = n
         /\ \A i \in 1..n : SubSeq(s, a + 1, a + n)[i] = s[a + i]
OBVIOUS

(* The children get encodings, as many as each expects.                      *)
LEMMA KidEncodingsType ==
  ASSUME NEW t \in Types, NEW encodings \in Encodings, RightLens(t, encodings),
         NEW k \in DOMAIN t.kids
  PROVE  /\ KidEncodings(t, encodings, k) \in Encodings
         /\ Len(KidEncodings(t, encodings, k)) = EncodingsLen[t.kids[k]]
<1>1. Len(t.kids) \in Nat /\ k \in 1..Len(t.kids) /\ EncodingsLen[t.kids[k]] \in Nat
  BY KidTypes, EncodingsLenIs
<1>2. CASE t.kind = "struct"
  <2>1. t.encodings \in Seq(Encodings) /\ Len(t.encodings) = Len(t.kids)
    BY <1>2, TypeParts, Shape
  <2>2. t.encodings[k] \in Encodings
    BY <1>1, <2>1
  <2> QED BY <1>2, <2>2 DEF KidEncodings, RightLens
<1>3. CASE t.kind # "struct"
  <2> DEFINE a == Taken(t, k - 1)
             b == Taken(t, k)
             n == EncodingsLen[t.kids[k]]
  <2>0. Len(encodings) = EncodingsLen[t]
    BY DEF RightLens
  <2>1. a = Start(t, k) /\ a \in Nat /\ b = a + n /\ b <= Len(encodings)
    <3>1. /\ End(t, k, encodings) = Start(t, k) + n /\ End(t, k, encodings) = b
          /\ End(t, k, encodings) <= Len(encodings)
      BY <1>3, <2>0, SlicesFit
    <3>2. Start(t, k) = a /\ Start(t, k) \in Nat
      BY StartIs
    <3> QED BY <3>1, <3>2
  <2>2. KidEncodings(t, encodings, k) = SubSeq(encodings, a + 1, b)
    BY <1>3 DEF KidEncodings
  <2>3. encodings \in Seq(Seq(Coding)) /\ Len(encodings) \in Nat
    BY DEF Encodings
  <2>4. n \in Nat
    BY <1>1
  <2> HIDE DEF a, b, n
  <2>5. SubSeq(encodings, a + 1, a + n) \in Seq(Seq(Coding))
        /\ Len(SubSeq(encodings, a + 1, a + n)) = n
    BY <2>1, <2>3, <2>4, SliceIs
  <2> QED BY <2>1, <2>2, <2>5 DEF n, Encodings
<1> QED
  BY <1>2, <1>3

(* What they build.                                                         *)
LEMMA KidsBuiltType ==
  ASSUME NEW t \in Types, NEW encodings \in Encodings, RightLens(t, encodings)
  PROVE  /\ KidsBuilt(t, encodings) \in Seq(Outcomes)
         /\ Len(KidsBuilt(t, encodings)) = Len(t.kids)
         /\ \A k \in DOMAIN t.kids :
              KidsBuilt(t, encodings)[k] = BuildPipelines[t.kids[k]][KidEncodings(t, encodings, k)]
<1> DEFINE n == Len(t.kids)
           kid(k) == BuildPipelines[t.kids[k]][KidEncodings(t, encodings, k)]
<1>1. n \in Nat /\ DOMAIN t.kids = 1..n
  BY KidTypes
<1>2. ASSUME NEW k \in 1..n PROVE kid(k) \in Outcomes
  <2>1. BuildPipelines[t.kids[k]] \in [Encodings -> Outcomes]
    BY <1>1, KidTypes, BuildPipelinesIs
  <2>2. KidEncodings(t, encodings, k) \in Encodings
    BY <1>1, KidEncodingsType
  <2> QED BY <2>1, <2>2
<1>3. KidsBuilt(t, encodings) = [k \in 1..n |-> kid(k)]
  BY <1>1 DEF KidsBuilt
<1> HIDE DEF n, kid
<1>4. [k \in 1..n |-> kid(k)] \in Seq(Outcomes) /\ Len([k \in 1..n |-> kid(k)]) = n
  BY <1>1, <1>2
<1> QED
  BY <1>1, <1>3, <1>4 DEF n, kid

(* They are the children that build_pipelines_for_type calls itself for.    *)
LEMMA ChildrenAre ==
  ASSUME NEW t \in Types, NEW encodings \in Encodings, RightLens(t, encodings)
  PROVE  Children(t, encodings, Results(BuildPipelines, t)) = KidsBuilt(t, encodings)
<1> DEFINE r == Results(BuildPipelines, t)
           c == Children(t, encodings, r)
           b == KidsBuilt(t, encodings)
<1>1. /\ r \in Seq([Encodings -> Outcomes]) /\ Len(r) = Len(t.kids)
      /\ \A k \in DOMAIN t.kids : r[k] = BuildPipelines[t.kids[k]]
  BY BuildPipelinesIs
<1>2. b \in Seq(Outcomes) /\ Len(b) = Len(t.kids)
      /\ \A k \in DOMAIN t.kids : b[k] = BuildPipelines[t.kids[k]][KidEncodings(t, encodings, k)]
  BY KidsBuiltType
<1> HIDE DEF r
<1>3. c \in Seq(Outcomes) /\ Len(c) = Len(t.kids)
  BY <1>1, ChildrenType
<1>4. ASSUME NEW k \in DOMAIN t.kids PROVE c[k] = r[k][KidEncodings(t, encodings, k)]
  <2>1. CASE t.kind = "struct"
    <3>1. c[k] = r[k][t.encodings[k]]
      BY <1>1, <2>1, ChildrenType
    <3> QED BY <2>1, <3>1 DEF KidEncodings
  <2>2. CASE t.kind # "struct"
    <3>0. Len(encodings) = EncodingsLen[t]
      BY DEF RightLens
    <3>1. /\ Start(t, k) <= End(t, k, encodings) /\ End(t, k, encodings) <= Len(encodings)
          /\ End(t, k, encodings) = Taken(t, k)
      BY <2>2, <3>0, SlicesFit
    <3>2. Start(t, k) = Taken(t, k - 1)
      BY StartIs
    <3>3. c[k] = r[k][SubSeq(encodings, Start(t, k) + 1, End(t, k, encodings))]
      BY <1>1, <2>2, <3>1, ChildrenType
    <3> QED BY <2>2, <3>1, <3>2, <3>3 DEF KidEncodings
  <2> QED BY <2>1, <2>2
<1>5. \A k \in DOMAIN t.kids : c[k] = b[k]
  BY <1>1, <1>2, <1>4
<1> HIDE DEF b, c
<1>6. Len(t.kids) \in Nat /\ DOMAIN t.kids = 1..Len(t.kids)
  BY KidTypes
<1>7. c = b
  BY <1>2, <1>3, <1>5, <1>6, SeqEqual
<1> QED
  BY <1>7 DEF b, c, r

(* The node builds its own fields, the children and the indices.            *)
LEMMA NodeIs ==
  ASSUME NEW t \in Types, NEW encodings \in Encodings, RightLens(t, encodings)
  PROVE  /\ Own(t, encodings) \in Seq(Outcomes)
         /\ Len(Own(t, encodings)) = Len(Before(t.kind))
         /\ Len(Before(t.kind)) <= Len(encodings)
         /\ LastBuilt(t, encodings) \in Seq(Outcomes)
         /\ t.kind = "dict" => encodings[EncodingsLen[t]] \in Seq(Coding)
         /\ BuildPipelines[t][encodings]
              = Joined((Own(t, encodings) \o KidsBuilt(t, encodings)) \o LastBuilt(t, encodings))
<1> DEFINE own == Own(t, encodings)
           kids == KidsBuilt(t, encodings)
           last == LastBuilt(t, encodings)
<1>1. kids \in Seq(Outcomes) /\ Len(kids) = Len(t.kids)
  BY KidsBuiltType
<1>2. BuildPipelines[t][encodings] = NodeBuilt(t, encodings, kids)
  BY BuildPipelinesIs, ChildrenAre
<1>3. Len(encodings) = EncodingsLen[t] /\ Len(encodings) \in Nat
      /\ encodings \in Seq(Seq(Coding))
  BY DEF RightLens, Encodings
<1>4. t.kind \in DataTypes \cup Semantic \cup Containers
  BY TypeParts
<1>5. Len(Before(t.kind)) <= Len(encodings) /\ Len(Before(t.kind)) \in Nat
  <2>1. CASE t.kind = "struct"
    <3>1. Before(t.kind) = <<>>
      BY <1>4, <2>1, BeforeIs
    <3> QED BY <1>3, <3>1
  <2>2. CASE t.kind # "struct"
    <3> DEFINE n == Len(t.kids)
    <3>1. n \in Nat /\ n \in 0..Len(t.kids)
      BY KidTypes
    <3>2. /\ Len(Before(t.kind)) \in Nat /\ Len(After(t.kind)) \in Nat
          /\ Taken(t, n) \in Nat /\ Len(Before(t.kind)) <= Taken(t, n)
      BY <3>1, TakenIs
    <3>3. EncodingsLen[t] = Taken(t, n) + Len(After(t.kind))
      BY <2>2, TakenIs
    <3> HIDE DEF n
    <3> QED BY <1>3, <3>2, <3>3
  <2> QED BY <2>1, <2>2
<1>6. own \in Seq(Outcomes) /\ Len(own) = Len(Before(t.kind))
  BY <1>5, OwnType
<1>7. t.kind # "dict" => last = <<>>
  BY DEF LastBuilt
<1>8. t.kind = "dict" => encodings[EncodingsLen[t]] \in Seq(Coding)
  <2> SUFFICES ASSUME t.kind = "dict" PROVE encodings[EncodingsLen[t]] \in Seq(Coding)
    OBVIOUS
  <2> DEFINE n == EncodingsLen[t]
  <2>1. n \in Nat \ {0}
    BY IndicesIs
  <2> HIDE DEF n
  <2>2. n = Len(encodings)
    BY <1>3 DEF n
  <2>3. n \in 1..Len(encodings)
    BY <2>1, <2>2
  <2>4. encodings[n] \in Seq(Coding)
    BY <1>3, <2>3
  <2> QED BY <2>4 DEF n
<1>9. last \in Seq(Outcomes)
  <2>1. CASE t.kind = "dict"
    <3> DEFINE x == Built(After("dict")[1], encodings[EncodingsLen[t]])
    <3>1. After("dict")[1] \in Physical
      BY IndicesIs
    <3>2. x \in Outcomes
      BY <1>8, <2>1, <3>1, BuiltIs
    <3>3. last = << x >>
      BY <2>1 DEF LastBuilt
    <3> HIDE DEF x, last
    <3> QED BY <3>2, <3>3
  <2>2. CASE t.kind # "dict"
    <3>1. last = <<>>
      BY <1>7, <2>2
    <3> HIDE DEF last
    <3> QED BY <3>1
  <2> QED BY <2>1, <2>2
<1> HIDE DEF own, kids, last
<1>10. NodeBuilt(t, encodings, kids) = Joined((own \o kids) \o last)
  <2>1. CASE t.kind \notin Containers
    <3>1. kids = <<>> /\ last = <<>>
      <4>1. t.kind # "dict" /\ Len(t.kids) = 0
        BY <2>1, Shape DEF Containers
      <4> QED BY <1>1, <1>7, <4>1
    <3>2. (own \o kids) \o last = own
      BY <1>6, <3>1
    <3>3. NodeBuilt(t, encodings, kids) = Joined(own)
      BY <2>1 DEF NodeBuilt, own, Containers
    <3> QED BY <3>2, <3>3
  <2>2. CASE t.kind = "dict"
    <3> DEFINE x == Built(After("dict")[1], encodings[EncodingsLen[t]])
    <3>1. last = << x >>
      BY <2>2 DEF LastBuilt, last
    <3>2. own = <<>>
      <4>1. Before(t.kind) = <<>>
        BY <1>4, <2>2, BeforeIs
      <4> QED BY <1>6, <4>1
    <3>3. ~(Len(encodings) < EncodingsLen[t])
      BY <1>3
    <3>4. NodeBuilt(t, encodings, kids) = Joined(Append(kids, x))
      BY <2>2, <3>3 DEF NodeBuilt, Containers
    <3> HIDE DEF x
    <3>5. (own \o kids) \o last = Append(kids, x)
      BY <1>1, <3>1, <3>2
    <3> QED BY <3>4, <3>5
  <2>3. CASE t.kind \in Containers \ {"dict"}
    <3>1. last = <<>>
      BY <1>7, <2>3
    <3>2. (own \o kids) \o last = own \o kids
      BY <1>1, <1>6, <3>1
    <3>3. ~(t.kind # "struct" /\ encodings = <<>>)
      <4> SUFFICES ASSUME t.kind # "struct" PROVE encodings # <<>>
        OBVIOUS
      <4>1. t.kind \in {"list", "map", "nullable", "union"}
        BY <2>3 DEF Containers
      <4>2. Len(Before(t.kind)) = 1
        BY <1>4, <4>1, BeforeIs
      <4> QED BY <1>3, <1>5, <4>2
    <3>4. NodeBuilt(t, encodings, kids) = Joined(own \o kids)
      BY <2>3, <3>3 DEF NodeBuilt, own
    <3> QED BY <3>2, <3>4
  <2> QED BY <2>1, <2>2, <2>3
<1> QED
  BY <1>2, <1>5, <1>6, <1>8, <1>9, <1>10 DEF own, kids, last

(* The elements of a concatenation.                                         *)
LEMMA ToSetConcat ==
  ASSUME NEW T, NEW a \in Seq(T), NEW b \in Seq(T)
  PROVE  ToSet(a \o b) = ToSet(a) \cup ToSet(b)
<1> DEFINE c == a \o b
           m == Len(a)
           n == Len(b)
<1>1. /\ m \in Nat /\ n \in Nat
      /\ DOMAIN a = 1..m /\ DOMAIN b = 1..n /\ DOMAIN c = 1..(m + n)
      /\ \A i \in 1..m : c[i] = a[i]
      /\ \A i \in 1..n : c[m + i] = b[i]
  OBVIOUS
<1> HIDE DEF c, m, n
<1>2. ASSUME NEW i \in DOMAIN c PROVE c[i] \in ToSet(a) \cup ToSet(b)
  <2>1. CASE i <= m
    <3>1. i \in 1..m
      BY <1>1, <2>1
    <3> QED BY <1>1, <3>1 DEF ToSet
  <2>2. CASE i > m
    <3>1. i - m \in 1..n /\ m + (i - m) = i
      BY <1>1, <2>2
    <3> QED BY <1>1, <3>1 DEF ToSet
  <2> QED BY <1>1, <2>1, <2>2
<1>3. ASSUME NEW i \in 1..m PROVE a[i] \in ToSet(c)
  <2>1. i \in DOMAIN c
    BY <1>1
  <2> QED BY <1>1, <2>1 DEF ToSet
<1>4. ASSUME NEW i \in 1..n PROVE b[i] \in ToSet(c)
  <2>1. m + i \in DOMAIN c
    BY <1>1
  <2> QED BY <1>1, <2>1 DEF ToSet
<1> QED
  BY <1>1, <1>2, <1>3, <1>4 DEF ToSet, c

\* None of the parts failed, or none panicked.
Fine(parts) == \A i \in DOMAIN parts : parts[i] \notin {Fail, Panic}
Calm(parts) == \A i \in DOMAIN parts : parts[i] # Panic

(* Three sequences of parts, joined.                                        *)
LEMMA JoinedThree ==
  ASSUME NEW a \in Seq(Outcomes), NEW b \in Seq(Outcomes), NEW c \in Seq(Outcomes)
  PROVE  /\ Joined((a \o b) \o c) \in Outcomes
         /\ Calm(a) /\ Calm(b) /\ Calm(c) => Joined((a \o b) \o c) # Panic
         /\ Joined((a \o b) \o c) \notin {Fail, Panic} <=> Fine(a) /\ Fine(b) /\ Fine(c)
         /\ Fine(a) /\ Fine(b) /\ Fine(c) =>
              /\ a \in Seq(Seq(Pipeline)) /\ b \in Seq(Seq(Pipeline)) /\ c \in Seq(Seq(Pipeline))
              /\ Joined((a \o b) \o c) = (FlattenSeq(a) \o FlattenSeq(b)) \o FlattenSeq(c)
<1> DEFINE all == (a \o b) \o c
<1>1. all \in Seq(Outcomes)
  OBVIOUS
<1>0. ToSet(all) = ToSet(a) \cup ToSet(b) \cup ToSet(c)
  <2> DEFINE ab == a \o b
  <2>1. ab \in Seq(Outcomes)
    OBVIOUS
  <2>2. ToSet(ab) = ToSet(a) \cup ToSet(b)
    BY ToSetConcat
  <2> HIDE DEF ab
  <2>3. ToSet(ab \o c) = ToSet(ab) \cup ToSet(c)
    BY <2>1, ToSetConcat
  <2> QED BY <2>2, <2>3 DEF ab
<1>2. ASSUME NEW i \in DOMAIN all
      PROVE  \E x \in {a, b, c} : \E j \in DOMAIN x : all[i] = x[j]
  <2> HIDE DEF all
  <2>1. all[i] \in ToSet(a) \cup ToSet(b) \cup ToSet(c)
    <3>1. all[i] \in ToSet(all)
      BY DEF ToSet
    <3> QED BY <1>0, <3>1
  <2> QED BY <2>1 DEF ToSet
<1>3. ASSUME NEW x \in {a, b, c}, NEW j \in DOMAIN x
      PROVE  \E i \in DOMAIN all : all[i] = x[j]
  <2>1. x[j] \in ToSet(a) \cup ToSet(b) \cup ToSet(c)
    BY DEF ToSet
  <2> HIDE DEF all
  <2>2. x[j] \in ToSet(all)
    BY <1>0, <2>1
  <2> QED BY <2>2 DEF ToSet
<1>4. Fine(all) <=> Fine(a) /\ Fine(b) /\ Fine(c)
  <2> HIDE DEF all
  <2>1. ASSUME Fine(all), NEW x \in {a, b, c}, NEW j \in DOMAIN x PROVE x[j] \notin {Fail, Panic}
    BY <2>1, <1>3 DEF Fine
  <2>2. ASSUME Fine(a), Fine(b), Fine(c), NEW i \in DOMAIN all PROVE all[i] \notin {Fail, Panic}
    BY <2>2, <1>2 DEF Fine
  <2> QED BY <2>1, <2>2 DEF Fine
<1>5. Joined(all) \notin {Fail, Panic} <=> Fine(all)
  <2>1. Fine(all) => Joined(all) \in Seq(Pipeline)
    BY <1>1, JoinedIs DEF Fine
  <2>2. Joined(all) \notin {Fail, Panic} => Fine(all)
    BY <1>1, JoinedIs DEF Fine
  <2>3. Fail \notin Seq(Pipeline) /\ Panic \notin Seq(Pipeline)
    BY SchemasAssumption
  <2> HIDE DEF all
  <2> QED BY <2>1, <2>2, <2>3
<1>6. Calm(a) /\ Calm(b) /\ Calm(c) => Joined(all) # Panic
  <2>1. Joined(all) = Panic => \E i \in DOMAIN all : all[i] = Panic
    BY <1>1, JoinedIs
  <2> HIDE DEF all
  <2> QED BY <1>2, <2>1 DEF Calm
<1>7. ASSUME Fine(a), Fine(b), Fine(c)
      PROVE  /\ a \in Seq(Seq(Pipeline)) /\ b \in Seq(Seq(Pipeline)) /\ c \in Seq(Seq(Pipeline))
             /\ Joined(all) = (FlattenSeq(a) \o FlattenSeq(b)) \o FlattenSeq(c)
  <2>1. a \in Seq(Seq(Pipeline)) /\ b \in Seq(Seq(Pipeline)) /\ c \in Seq(Seq(Pipeline))
    BY <1>7, JoinedIs DEF Fine
  <2>2. a \o b \in Seq(Seq(Pipeline))
    BY <2>1
  <2>3. FlattenSeq(a \o b) = FlattenSeq(a) \o FlattenSeq(b)
    BY <2>1, FlatConcat
  <2>4. FlattenSeq(all) = FlattenSeq(a \o b) \o FlattenSeq(c)
    BY <2>1, <2>2, FlatConcat
  <2>5. Joined(all) = FlattenSeq(all)
    BY <1>1, <1>4, <1>7, JoinedIs DEF Fine
  <2> QED BY <2>1, <2>3, <2>4, <2>5
<1>8. Joined(all) \in Outcomes
  BY <1>1, JoinedIs
<1> QED
  BY <1>4, <1>5, <1>6, <1>7, <1>8

(* If none failed.                                                          *)
LEMMA JoinedParts ==
  ASSUME NEW a \in Seq(Outcomes), NEW b \in Seq(Outcomes), NEW c \in Seq(Outcomes),
         Fine(a), Fine(b), Fine(c)
  PROVE  Joined((a \o b) \o c) = (FlattenSeq(a) \o FlattenSeq(b)) \o FlattenSeq(c)
BY JoinedThree

\* Pipelines with the fields whose type they take.
Takes == {x \in Pipeline \X Physical : x[1].input = x[2].type}

(* What is built for fields one by one takes their types.                   *)
LEMMA BuiltTakes ==
  ASSUME NEW fields \in Seq(Physical), NEW built \in Seq(Seq(Pipeline)), NEW codings,
         Len(built) = Len(fields),
         \A i \in 1..Len(fields) : codings[i] \in Seq(Coding)
                                   /\ built[i] = Built(fields[i], codings[i])
  PROVE  Paired(FlattenSeq(built), fields, Takes)
<1> DEFINE singles == [i \in 1..Len(fields) |-> << fields[i] >>]
<1>1. Len(fields) \in Nat
  OBVIOUS
<1>2. singles \in Seq(Seq(Physical)) /\ Len(singles) = Len(fields)
  BY <1>1
<1>3. \A i \in 1..Len(fields) : singles[i] = << fields[i] >>
  OBVIOUS
<1> HIDE DEF singles
<1>4. FlattenSeq(singles) = fields
  BY <1>2, <1>3, FlatSingles
<1>5. ASSUME NEW i \in 1..Len(built) PROVE Paired(built[i], singles[i], Takes)
  <2> DEFINE p == built[i]
             f == fields[i]
  <2>1. i \in 1..Len(fields) /\ f \in Physical /\ p \in Seq(Pipeline)
    OBVIOUS
  <2>2. p = Built(f, codings[i]) /\ codings[i] \in Seq(Coding)
    BY <2>1
  <2>3. p # Fail
    BY <2>1, SchemasAssumption
  <2> HIDE DEF p, f
  <2>4. Len(p) = 1 /\ p[1].input = f.type
    BY <2>1, <2>2, <2>3, BuiltIs
  <2>0. p \in Seq(Pipeline)
    BY <2>1
  <2>5. p[1] \in Pipeline
    <3>1. 1 \in 1..Len(p)
      BY <2>4
    <3> QED BY <2>0, <3>1
  <2>6. << p[1], f >> \in Takes
    BY <2>1, <2>4, <2>5 DEF Takes
  <2>7. Paired(p, << f >>, Takes)
    BY <2>4, <2>6 DEF Paired
  <2> QED BY <1>3, <2>1, <2>7 DEF p, f
<1>6. Paired(FlattenSeq(built), FlattenSeq(singles), Takes)
  BY <1>2, <1>5, PairedFlat
<1> QED
  BY <1>4, <1>6

(* A sequence of pairs stays one when the fields get prefixes.              *)
LEMMA PairedPrefixed ==
  ASSUME NEW t \in Types, NEW k \in DOMAIN t.kids, NEW b \in Seq(Pipeline),
         NEW fields \in Seq(Physical), Paired(b, fields, Takes)
  PROVE  Paired(b, Prefixed(t, k, fields), Takes)
<1> DEFINE p == Prefixed(t, k, fields)
<1>1. p \in Seq(Physical) /\ Len(p) = Len(fields)
      /\ \A i \in DOMAIN fields : p[i].type = fields[i].type
  BY PrefixedType
<1> HIDE DEF p
<1>2. Len(b) = Len(fields)
  BY DEF Paired
<1>3. ASSUME NEW i \in 1..Len(b) PROVE << b[i], p[i] >> \in Takes
  <2>1. i \in DOMAIN fields /\ p[i] \in Physical /\ b[i] \in Pipeline
    BY <1>1, <1>2
  <2>2. << b[i], fields[i] >> \in Takes
    BY DEF Paired
  <2>3. b[i].input = fields[i].type
    BY <2>2 DEF Takes
  <2> QED BY <1>1, <2>1, <2>3 DEF Takes
<1> QED
  BY <1>1, <1>2, <1>3 DEF Paired, p

(* The fields of a struct are specs of its children.                        *)
LEMMA FieldsIs ==
  ASSUME NEW t, NEW k \in DOMAIN t.kids
  PROVE  /\ Fields(t)[k].name = t.names[k] /\ Fields(t)[k].type = t.kids[k]
         /\ Fields(t)[k].encodings = t.encodings[k]
BY DEF Fields, ColumnSpec

(* Validation counts the encodings of the fields of a struct.               *)
LEMMA ValidRight ==
  ASSUME NEW t \in Types, NEW depth \in Nat, ValidType[t][depth],
         NEW encodings, Len(encodings) = EncodingsLen[t]
  PROVE  RightLens(t, encodings)
<1>1. ValidNode(t, depth)
  BY ValidTypeIs
<1>2. ASSUME t.kind = "struct", NEW k \in DOMAIN t.kids
      PROVE  Len(t.encodings[k]) = EncodingsLen[t.kids[k]]
  <2>1. ValidSpec(Fields(t)[k])
    BY <1>1, <1>2 DEF ValidNode
  <2> QED BY <2>1, FieldsIs DEF ValidSpec
<1> QED
  BY <1>2 DEF RightLens

\* What a type builds from encodings that validation lets through.
Fits(t, encodings) ==
  /\ BuildPipelines[t][encodings] # Panic
  /\ BuildPipelines[t][encodings] # Fail =>
       /\ BuildPipelines[t][encodings] \in Seq(Pipeline)
       /\ Paired(BuildPipelines[t][encodings], PhysicalFields[t], Takes)

(* One pipeline for every physical field, in their order, and no panic.      *)
LEMMA BuildFits ==
  ASSUME NEW t \in Types, NEW depth \in Nat, ValidType[t][depth],
         NEW encodings \in Encodings, Len(encodings) = EncodingsLen[t]
  PROVE  Fits(t, encodings)
<1> DEFINE S == {u \in Types : \A d \in Nat : \A e \in Encodings :
                   ValidType[u][d] /\ Len(e) = EncodingsLen[u] => Fits(u, e)}
<1>1. ASSUME NEW u \in Types, \A k \in DOMAIN u.kids : u.kids[k] \in S PROVE u \in S
  <2> SUFFICES ASSUME NEW d \in Nat, NEW e \in Encodings,
                      ValidType[u][d], Len(e) = EncodingsLen[u]
               PROVE  Fits(u, e)
    OBVIOUS
  <2> DEFINE n == Len(u.kids)
             own == Own(u, e)
             kids == KidsBuilt(u, e)
             last == LastBuilt(u, e)
             b == BuildPipelines[u][e]
  <2>0. n \in Nat /\ DOMAIN u.kids = 1..n
    BY KidTypes
  <2>1. RightLens(u, e)
    BY ValidRight
  <2>2. ASSUME NEW k \in 1..n
        PROVE  /\ kids[k] = BuildPipelines[u.kids[k]][KidEncodings(u, e, k)]
               /\ u.kids[k] \in Types
               /\ Fits(u.kids[k], KidEncodings(u, e, k))
    <3>1. kids[k] = BuildPipelines[u.kids[k]][KidEncodings(u, e, k)]
      BY <2>0, <2>1, KidsBuiltType
    <3>2. u.kids[k] \in S /\ u.kids[k] \in Types
      BY <1>1, <2>0
    <3>3. ValidType[u.kids[k]][d + 1] /\ d + 1 \in Nat
      BY <2>0, ValidTypeIs
    <3>4. KidEncodings(u, e, k) \in Encodings
          /\ Len(KidEncodings(u, e, k)) = EncodingsLen[u.kids[k]]
      BY <2>0, <2>1, KidEncodingsType
    <3> HIDE DEF kids
    <3> QED BY <3>1, <3>2, <3>3, <3>4
  <2>3. /\ own \in Seq(Outcomes) /\ Len(own) = Len(Before(u.kind))
        /\ Len(Before(u.kind)) <= Len(e) /\ last \in Seq(Outcomes)
        /\ b = Joined((own \o kids) \o last)
        /\ u.kind = "dict" => e[EncodingsLen[u]] \in Seq(Coding)
    BY <2>1, NodeIs
  <2>4. kids \in Seq(Outcomes) /\ Len(kids) = n
    BY <2>1, KidsBuiltType
  <2>5. e \in Seq(Seq(Coding)) /\ Len(e) \in Nat
    BY DEF Encodings
  <2>6. /\ Before(u.kind) \in Seq(Physical) /\ Len(Before(u.kind)) \in Nat
    BY TypeParts, BeforeType
  <2>7. ASSUME NEW i \in 1..Len(own)
        PROVE  /\ own[i] = Built(Before(u.kind)[i], e[i])
               /\ Before(u.kind)[i] \in Physical /\ e[i] \in Seq(Coding)
    <3>1. own[i] = Built(Before(u.kind)[i], e[i])
      <4>1. i \in DOMAIN own
        BY <2>3
      <4> QED BY <4>1, OwnType
    <3>2. Before(u.kind)[i] \in Physical
      BY <2>3, <2>6
    <3>3. i \in 1..Len(e)
      BY <2>3, <2>5, <2>6
    <3> QED BY <2>5, <3>1, <3>2, <3>3
  <2> HIDE DEF own, kids, b
  <2>8. Calm(own) /\ Calm(kids) /\ Calm(last)
    <3>1. ASSUME NEW i \in DOMAIN own PROVE own[i] # Panic
      <4>1. i \in 1..Len(own)
        BY <2>3
      <4> QED BY <2>7, <4>1, BuiltIs
    <3>2. ASSUME NEW i \in DOMAIN kids PROVE kids[i] # Panic
      <4>1. i \in 1..n
        BY <2>4
      <4> QED BY <2>2, <4>1 DEF Fits
    <3>3. ASSUME NEW i \in DOMAIN last PROVE last[i] # Panic
      <4>1. CASE u.kind = "dict"
        <5> DEFINE x == Built(After("dict")[1], e[EncodingsLen[u]])
        <5>1. After("dict")[1] \in Physical
          BY IndicesIs
        <5>2. x # Panic
          BY <2>3, <4>1, <5>1, BuiltIs
        <5>3. last = << x >>
          BY <4>1 DEF LastBuilt
        <5> HIDE DEF x, last
        <5> QED BY <5>2, <5>3
      <4>2. CASE u.kind # "dict"
        <5>1. last = <<>>
          BY <4>2 DEF LastBuilt
        <5> HIDE DEF last
        <5> QED BY <5>1
      <4> QED BY <4>1, <4>2
    <3> HIDE DEF last
    <3> QED BY <3>1, <3>2, <3>3 DEF Calm
  <2>9. b # Panic
    <3> HIDE DEF last, n
    <3>1. own \in Seq(Outcomes) /\ kids \in Seq(Outcomes) /\ last \in Seq(Outcomes)
      BY <2>3, <2>4
    <3>2. Joined((own \o kids) \o last) # Panic
      BY <2>8, <3>1, JoinedThree
    <3> QED BY <2>3, <3>2
  <2>10. ASSUME b # Fail
         PROVE  b \in Seq(Pipeline) /\ Paired(b, PhysicalFields[u], Takes)
    <3>1. /\ Fine(own) /\ Fine(kids) /\ Fine(last)
          /\ own \in Seq(Seq(Pipeline)) /\ kids \in Seq(Seq(Pipeline)) /\ last \in Seq(Seq(Pipeline))
          /\ b = (FlattenSeq(own) \o FlattenSeq(kids)) \o FlattenSeq(last)
      <4> HIDE DEF last, n
      <4>0. own \in Seq(Outcomes) /\ kids \in Seq(Outcomes) /\ last \in Seq(Outcomes)
        BY <2>3, <2>4
      <4>1. Joined((own \o kids) \o last) \notin {Fail, Panic}
        BY <2>3, <2>9, <2>10
      <4>2. Fine(own) /\ Fine(kids) /\ Fine(last)
        BY <4>0, <4>1, JoinedThree
      <4>3. own \in Seq(Seq(Pipeline)) /\ kids \in Seq(Seq(Pipeline)) /\ last \in Seq(Seq(Pipeline))
        BY <4>0, <4>2, JoinedThree
      <4>4. Joined((own \o kids) \o last)
              = (FlattenSeq(own) \o FlattenSeq(kids)) \o FlattenSeq(last)
        BY <4>0, <4>2, JoinedParts
      <4> QED BY <2>3, <4>2, <4>3, <4>4
    <3>2. Paired(FlattenSeq(own), Before(u.kind), Takes)
      <4>1. \A i \in 1..Len(Before(u.kind)) : e[i] \in Seq(Coding)
                                              /\ own[i] = Built(Before(u.kind)[i], e[i])
        BY <2>3, <2>7
      <4> QED BY <2>3, <2>6, <3>1, <4>1, BuiltTakes
    <3> DEFINE r == Results(PhysicalFields, u)
               fields == KidFields(u, r)
    <3>3. /\ r \in Seq(Seq(Physical)) /\ Len(r) = n
          /\ \A k \in 1..n : r[k] = PhysicalFields[u.kids[k]] /\ r[k] \in Seq(Physical)
      <4> DEFINE f == PhysicalFields
                 V == Seq(Physical)
      <4>1. \A k \in DOMAIN u.kids : f[u.kids[k]] \in V
        BY KidTypes, PhysicalFieldsIs
      <4> HIDE DEF f, n, V
      <4>2. Results(f, u) \in Seq(V)
        BY <4>1, ResultsType
      <4>3. Len(Results(f, u)) = Len(u.kids)
        BY <4>1, ResultsType
      <4>4. \A k \in DOMAIN u.kids : Results(f, u)[k] = f[u.kids[k]]
        BY DEF Results
      <4> QED BY <2>0, <4>1, <4>2, <4>3, <4>4 DEF f, n, V
    <3>4. /\ fields \in Seq(Seq(Physical)) /\ Len(fields) = n
          /\ \A k \in 1..n : fields[k] = Prefixed(u, k, r[k])
      <4> HIDE DEF r
      <4> QED BY <2>0, <3>3, KidFieldsType
    <3>5. PhysicalFields[u] = (Before(u.kind) \o FlattenSeq(fields)) \o After(u.kind)
      BY PhysicalFieldsIs
    <3> HIDE DEF r, fields
    <3>6. ASSUME NEW k \in 1..Len(kids) PROVE Paired(kids[k], fields[k], Takes)
      <4>1. k \in 1..n /\ k \in DOMAIN u.kids /\ k \in DOMAIN kids
        BY <2>0, <2>4
      <4>2. kids[k] # Fail
        BY <3>1, <4>1 DEF Fine
      <4>3. kids[k] \in Seq(Pipeline) /\ Paired(kids[k], r[k], Takes)
        BY <2>2, <3>3, <4>1, <4>2 DEF Fits
      <4>4. Paired(kids[k], Prefixed(u, k, r[k]), Takes)
        BY <3>3, <4>1, <4>3, PairedPrefixed
      <4> QED BY <3>4, <4>1, <4>4
    <3>7. Paired(FlattenSeq(kids), FlattenSeq(fields), Takes)
      BY <2>4, <3>1, <3>4, <3>6, PairedFlat
    <3>8. Paired(FlattenSeq(last), After(u.kind), Takes) /\ After(u.kind) \in Seq(Physical)
      <4>1. CASE u.kind = "dict"
        <5> DEFINE fs == After("dict")
                   cs == << e[EncodingsLen[u]] >>
        <5>1. fs \in Seq(Physical) /\ Len(fs) = 1
          <6>1. "dict" \in DataTypes \cup Semantic \cup Containers
            BY DEF Containers
          <6> QED BY <6>1, BeforeType, IndicesIs
        <5>2. last = << Built(fs[1], cs[1]) >> /\ cs[1] \in Seq(Coding)
          BY <2>3, <4>1 DEF LastBuilt
        <5> HIDE DEF fs, cs, last
        <5>3. Len(last) = Len(fs)
              /\ \A i \in 1..Len(fs) : cs[i] \in Seq(Coding) /\ last[i] = Built(fs[i], cs[i])
          BY <5>1, <5>2
        <5>4. Paired(FlattenSeq(last), fs, Takes)
          BY <3>1, <5>1, <5>3, BuiltTakes
        <5> QED BY <4>1, <5>1, <5>4 DEF fs
      <4>2. CASE u.kind # "dict"
        <5>1. After(u.kind) = <<>> /\ last = <<>>
          BY <4>2, IndicesIs DEF LastBuilt
        <5>2. last \in Seq(Seq(Pipeline)) /\ After(u.kind) \in Seq(Physical)
          BY <5>1
        <5>3. FlattenSeq(last) = <<>>
          <6>1. Flat(last, 0) = <<>>
            BY <5>2, FlatStep
          <6>2. Flat(last, Len(last)) = FlattenSeq(last)
            BY <5>2, FlatWhole
          <6> HIDE DEF last
          <6>3. Len(last) = 0
            BY <5>1
          <6> QED BY <6>1, <6>2, <6>3
        <5>4. Paired(<<>>, <<>>, Takes)
          BY DEF Paired
        <5> HIDE DEF last
        <5> QED BY <5>1, <5>2, <5>3, <5>4
      <4> QED BY <4>1, <4>2
    <3> DEFINE p == FlattenSeq(own)
               q == FlattenSeq(kids)
               w == FlattenSeq(last)
               g == FlattenSeq(fields)
    <3> HIDE DEF last
    <3>9. p \in Seq(Pipeline) /\ q \in Seq(Pipeline) /\ w \in Seq(Pipeline) /\ g \in Seq(Physical)
      BY <3>1, <3>4, FlattenType
    <3> HIDE DEF p, q, w, g
    <3>10. Paired(p \o q, Before(u.kind) \o g, Takes)
      BY <2>6, <3>2, <3>7, <3>9, PairedConcat DEF p, q, g
    <3>11. p \o q \in Seq(Pipeline) /\ Before(u.kind) \o g \in Seq(Physical)
      BY <2>6, <3>9
    <3>12. Paired((p \o q) \o w, (Before(u.kind) \o g) \o After(u.kind), Takes)
      BY <3>8, <3>9, <3>10, <3>11, PairedConcat DEF w
    <3>13. (p \o q) \o w \in Seq(Pipeline)
      BY <3>9, <3>11
    <3> QED BY <3>1, <3>5, <3>12, <3>13 DEF p, q, w, g
  <2> QED BY <2>9, <2>10 DEF Fits, b
<1>2. Types \subseteq S
  <2> HIDE DEF S
  <2> QED BY <1>1, TypeInduction
<1> QED
  BY <1>2

-----------------------------------------------------------------------------
(* Pipelines that the program chooses                                        *)

(* Stages without parameters.                                               *)
LEMMA StagesIs ==
  ASSUME NEW ids \in Seq(Registered)
  PROVE  /\ Stages(ids) \in Seq(Coding) /\ Len(Stages(ids)) = Len(ids)
         /\ \A i \in 1..Len(ids) : Stages(ids)[i] = Stage(ids[i])
         /\ \A i \in 1..Len(ids) : Stages(ids)[i].id = ids[i]
<1>1. \A i \in 1..Len(ids) : Stage(ids[i]) \in Coding
  <2>1. \A i \in 1..Len(ids) : ids[i] \in Registered
    OBVIOUS
  <2> QED BY <2>1 DEF Stage, Coding
<1>2. Stages(ids) = [i \in 1..Len(ids) |-> Stage(ids[i])]
  BY DEF Stages
<1>3. \A i \in 1..Len(ids) : Stage(ids[i]).id = ids[i]
  BY DEF Stage
<1>4. [i \in 1..Len(ids) |-> Stage(ids[i])] \in Seq(Coding)
      /\ Len([i \in 1..Len(ids) |-> Stage(ids[i])]) = Len(ids)
  <2>1. Len(ids) \in Nat
    OBVIOUS
  <2> DEFINE n == Len(ids)
             x(i) == Stage(ids[i])
  <2>2. \A i \in 1..n : x(i) \in Coding
    BY <1>1
  <2> HIDE DEF n, x
  <2>3. [i \in 1..n |-> x(i)] \in Seq(Coding) /\ Len([i \in 1..n |-> x(i)]) = n
    <3>1. n \in Nat
      BY <2>1 DEF n
    <3> QED BY <2>2, <3>1
  <2> QED BY <2>3 DEF n, x
<1> QED
  BY <1>2, <1>3, <1>4

\* A pipeline for values of type t that ends in bytes.
Serves(p, t) == p \in Seq(Coding) /\ Builds(t, p) /\ OutputType(t, p) = "bytes"

(* What the stages that are used anywhere can be built for.                 *)
LEMMA BuildableIs ==
  ASSUME NEW t
  PROVE  /\ t \in Integral => \A id \in TypeKeeping \cup {"leb128", "bitpack_auto"} :
                                 Buildable(Stage(id), t)
         /\ t \in Floats => Buildable(Stage("gorilla"), t)
         /\ t \in Integral \cup Floats => Buildable(Stage("pcodec"), t)
         /\ Buildable(Stage("zstd"), "bytes")
<1>1. \A id : Stage(id).id = id
  BY DEF Stage
<1>2. ASSUME t \in Integral, NEW id \in TypeKeeping \cup {"leb128", "bitpack_auto"}
      PROVE  Buildable(Stage(id), t)
  BY <1>1, <1>2 DEF Buildable, TypeKeeping, ByteCoders
<1>3. t \in Floats => Buildable(Stage("gorilla"), t)
  BY <1>1 DEF Buildable, TypeKeeping, ByteCoders
<1>4. t \in Integral \cup Floats => Buildable(Stage("pcodec"), t)
  BY <1>1 DEF Buildable, TypeKeeping, ByteCoders
<1>5. Buildable(Stage("zstd"), "bytes")
  BY <1>1 DEF Buildable, TypeKeeping, ByteCoders
<1> QED
  BY <1>2, <1>3, <1>4, <1>5

(* A stage that does not keep the type turns it into bytes.                 *)
LEMMA EndsIs ==
  ASSUME NEW ids \in Seq(Registered), NEW k \in 1..Len(ids), ids[k] \notin TypeKeeping, NEW t
  PROVE  OutputType(t, Stages(ids)) = "bytes"
<1> DEFINE p == Stages(ids)
<1>1. Len(p) = Len(ids) /\ p[k].id = ids[k] /\ Len(ids) \in Nat
  BY StagesIs
<1> HIDE DEF p
<1>2. k \in 1..(Len(p) + 1) - 1
  BY <1>1
<1>3. ~(\A j \in 1..(Len(p) + 1) - 1 : p[j].id \in TypeKeeping)
  BY <1>1, <1>2
<1> QED
  BY <1>3 DEF OutputType, TypeAt, p

(* The default pipelines.                                                   *)
LEMMA DefaultsServe ==
  /\ \A t \in Integral : Serves(Stages(<<"delta", "leb128", "zstd">>), t)
  /\ \A t \in Integral : Serves(Stages(<<"leb128", "zstd">>), t)
  /\ Serves(Stages(<<"zstd">>), "bytes")
  /\ \A t \in Integral \cup Floats : Serves(Stages(<<"pcodec">>), t)
<1>1. {"delta", "leb128", "zstd", "pcodec"} \subseteq Registered
  BY DEF Registered, Blocks, TypeKeeping, ByteCoders
<1>2. /\ "delta" \in TypeKeeping /\ "leb128" \notin TypeKeeping /\ "zstd" \notin TypeKeeping
      /\ "pcodec" \notin TypeKeeping
      /\ "delta" \notin Blocks /\ "leb128" \notin Blocks /\ "zstd" \in Blocks
  BY DEF TypeKeeping, Blocks, ByteCoders
<1>3. ASSUME NEW t \in Integral PROVE Serves(Stages(<<"delta", "leb128", "zstd">>), t)
  <2> DEFINE ids == <<"delta", "leb128", "zstd">>
             p == Stages(ids)
  <2>1. ids \in Seq(Registered) /\ Len(ids) = 3
        /\ ids[1] = "delta" /\ ids[2] = "leb128" /\ ids[3] = "zstd"
    BY <1>1
  <2> HIDE DEF ids
  <2>2. p \in Seq(Coding) /\ Len(p) = 3
        /\ \A i \in 1..3 : p[i] = Stage(ids[i]) /\ p[i].id = ids[i]
    BY <2>1, StagesIs
  <2>3. OutputType(t, p) = "bytes"
    <3>1. 2 \in 1..Len(ids)
      BY <2>1
    <3> QED BY <1>2, <2>1, <3>1, EndsIs
  <2> HIDE DEF p
  <2>4. DOMAIN p = {1, 2, 3}
    BY <2>2
  <2>5. TypeAt(t, p, 1) = t /\ TypeAt(t, p, 2) = t /\ TypeAt(t, p, 3) = "bytes"
    BY <1>2, <2>1, <2>2 DEF TypeAt
  <2>6. \A i \in DOMAIN p : Buildable(p[i], TypeAt(t, p, i))
    <3>1. /\ Buildable(Stage("delta"), t) /\ Buildable(Stage("leb128"), t)
          /\ Buildable(Stage("zstd"), "bytes")
      BY BuildableIs DEF TypeKeeping
    <3> QED BY <2>1, <2>2, <2>4, <2>5, <3>1
  <2>7. \A i, j \in DOMAIN p : i < j /\ p[i].id \in Blocks => p[j].id \in Blocks
    BY <1>2, <2>1, <2>2, <2>4
  <2>8. Serves(p, t)
    BY <2>2, <2>3, <2>6, <2>7 DEF Serves, Builds
  <2> QED BY <2>8 DEF p, ids
<1>4. ASSUME NEW t \in Integral PROVE Serves(Stages(<<"leb128", "zstd">>), t)
  <2> DEFINE ids == <<"leb128", "zstd">>
             p == Stages(ids)
  <2>1. ids \in Seq(Registered) /\ Len(ids) = 2 /\ ids[1] = "leb128" /\ ids[2] = "zstd"
    BY <1>1
  <2> HIDE DEF ids
  <2>2. p \in Seq(Coding) /\ Len(p) = 2
        /\ \A i \in 1..2 : p[i] = Stage(ids[i]) /\ p[i].id = ids[i]
    BY <2>1, StagesIs
  <2>3. OutputType(t, p) = "bytes"
    <3>1. 1 \in 1..Len(ids)
      BY <2>1
    <3> QED BY <1>2, <2>1, <3>1, EndsIs
  <2> HIDE DEF p
  <2>4. DOMAIN p = {1, 2}
    BY <2>2
  <2>5. TypeAt(t, p, 1) = t /\ TypeAt(t, p, 2) = "bytes"
    BY <1>2, <2>1, <2>2 DEF TypeAt
  <2>6. \A i \in DOMAIN p : Buildable(p[i], TypeAt(t, p, i))
    <3>1. Buildable(Stage("leb128"), t) /\ Buildable(Stage("zstd"), "bytes")
      BY BuildableIs DEF TypeKeeping
    <3> QED BY <2>1, <2>2, <2>4, <2>5, <3>1
  <2>7. \A i, j \in DOMAIN p : i < j /\ p[i].id \in Blocks => p[j].id \in Blocks
    BY <1>2, <2>1, <2>2, <2>4
  <2>8. Serves(p, t)
    BY <2>2, <2>3, <2>6, <2>7 DEF Serves, Builds
  <2> QED BY <2>8 DEF p, ids
<1>5. ASSUME NEW id \in {"zstd", "pcodec"}, NEW t, Buildable(Stage(id), t)
      PROVE  Serves(Stages(<< id >>), t)
  <2> DEFINE ids == << id >>
             p == Stages(ids)
  <2>1. ids \in Seq(Registered) /\ Len(ids) = 1 /\ ids[1] = id
    BY <1>1
  <2> HIDE DEF ids
  <2>2. p \in Seq(Coding) /\ Len(p) = 1 /\ p[1] = Stage(id)
    BY <2>1, StagesIs
  <2>3. OutputType(t, p) = "bytes"
    <3>1. 1 \in 1..Len(ids)
      BY <2>1
    <3> QED BY <1>2, <2>1, <3>1, EndsIs
  <2> HIDE DEF p
  <2>4. DOMAIN p = {1}
    BY <2>2
  <2>5. TypeAt(t, p, 1) = t
    BY DEF TypeAt
  <2>6. Serves(p, t)
    BY <1>5, <2>2, <2>3, <2>4, <2>5 DEF Serves, Builds
  <2> QED BY <2>6 DEF p, ids
<1>6. Serves(Stages(<<"zstd">>), "bytes")
  <2>1. Buildable(Stage("zstd"), "bytes")
    BY BuildableIs
  <2> QED BY <1>5, <2>1
<1>7. ASSUME NEW t \in Integral \cup Floats PROVE Serves(Stages(<<"pcodec">>), t)
  <2>1. Buildable(Stage("pcodec"), t)
    BY BuildableIs
  <2> QED BY <1>5, <2>1
<1> QED
  BY <1>3, <1>4, <1>6, <1>7

(* What default_encodings gives a field is a pipeline of known stages.      *)
LEMMA SchemaDefaultTyped ==
  ASSUME NEW role, NEW t
  PROVE  SchemaDefault(role, t) \in Seq(Coding)
<1>1. "u32" \in Integral
  BY Kinds
<1>2. /\ Serves(Stages(<<"delta", "leb128", "zstd">>), "u32") /\ Serves(Stages(<<"zstd">>), "bytes")
      /\ Serves(Stages(<<"leb128", "zstd">>), "u32") /\ Serves(Stages(<<"pcodec">>), "u32")
  BY <1>1, DefaultsServe
<1>3. {Stages(<<"delta", "leb128", "zstd">>), Stages(<<"zstd">>), Stages(<<"leb128", "zstd">>),
       Stages(<<"pcodec">>)} \subseteq Seq(Coding)
  BY <1>2 DEF Serves
<1> QED
  BY <1>3 DEF SchemaDefault

(* What default_encodings gives a field of a node; a primitive of bytes gets *)
(* pcodec, which does not take it.                                           *)
LEMMA SchemaDefaultServes ==
  ASSUME NEW kind \in DataTypes \cup Semantic \cup Containers, kind # "bytes"
  PROVE  \A f \in ToSet(Before(kind)) \cup ToSet(After(kind)) :
           Serves(SchemaDefault(f.role[1], f.type), f.type)
<1> DEFINE Good(f) == Serves(SchemaDefault(f.role[1], f.type), f.type)
<1>1. {"u8", "u32", "i32", "i64"} \subseteq Integral /\ "bytes" \notin Integral \cup Floats
  BY Kinds
<1>2. \A role, t : Field(role, t).role[1] = role /\ Field(role, t).type = t
  BY DEF Field
<1>3. \A role \in {"offsets", "indices"} : Good(Field(role, "u32"))
  <2>1. Serves(Stages(<<"delta", "leb128", "zstd">>), "u32")
    BY <1>1, DefaultsServe
  <2> QED BY <1>2, <2>1 DEF SchemaDefault
<1>4. ASSUME NEW role, role \notin {"offsets", "indices"}, NEW t \in DataTypes,
             role = "data" <=> t = "bytes"
      PROVE  Good(Field(role, t))
  <2> SUFFICES Serves(SchemaDefault(role, t), t)
    BY <1>2
  <2>1. CASE role # "data" /\ t = "u8"
    <3>1. Serves(Stages(<<"leb128", "zstd">>), "u8")
      BY <1>1, DefaultsServe
    <3> QED BY <1>4, <2>1, <3>1 DEF SchemaDefault
  <2>2. CASE role = "data"
    <3>1. Serves(Stages(<<"zstd">>), "bytes")
      BY DefaultsServe
    <3> QED BY <1>4, <2>2, <3>1 DEF SchemaDefault
  <2>3. CASE role # "data" /\ t # "u8"
    <3>1. t \in Integral \cup Floats
      BY <1>4, <2>3 DEF DataTypes
    <3>2. Serves(Stages(<<"pcodec">>), t)
      BY <3>1, DefaultsServe
    <3> QED BY <1>4, <2>3, <3>2 DEF SchemaDefault
  <2> QED BY <2>1, <2>2, <2>3
<1> HIDE DEF Good
<1>5. \A f \in ToSet(Before(kind)) : Good(f)
  <2>1. {"u8", "u32", "i32", "i64", "bytes"} \subseteq DataTypes
    BY Kinds
  <2>2. CASE kind \in DataTypes
    <3>1. Before(kind) = << Field("values", kind) >>
      BY <2>2, BeforeIs
    <3> QED BY <1>4, <2>2, <3>1 DEF ToSet
  <2>3. CASE kind \in {"utf8", "binary"}
    <3>1. Before(kind) = << Field("offsets", "u32"), Field("data", "bytes") >>
      BY <2>3, BeforeIs
    <3>2. ToSet(Before(kind)) = {Field("offsets", "u32"), Field("data", "bytes")}
      BY <3>1 DEF ToSet
    <3>3. Good(Field("offsets", "u32")) /\ Good(Field("data", "bytes"))
      BY <1>3, <1>4, <2>1
    <3> QED BY <3>2, <3>3
  <2>4. CASE kind = "decimal128"
    <3>1. Before(kind) = << Field("high", "i64"), Field("low", "i64") >>
      BY <2>4, BeforeIs
    <3>2. ToSet(Before(kind)) = {Field("high", "i64"), Field("low", "i64")}
      BY <3>1 DEF ToSet
    <3>3. Good(Field("high", "i64")) /\ Good(Field("low", "i64"))
      BY <1>4, <2>1
    <3> QED BY <3>2, <3>3
  <2>5. CASE kind = "date32"
    <3>1. Before(kind) = << Field("values", "i32") >>
      BY <2>5, BeforeIs
    <3> QED BY <1>4, <2>1, <3>1 DEF ToSet
  <2>6. CASE kind \in {"date64", "datetime"}
    <3>1. Before(kind) = << Field("values", "i64") >>
      BY <2>6, BeforeIs
    <3> QED BY <1>4, <2>1, <3>1 DEF ToSet
  <2>7. CASE kind \in {"list", "map"}
    <3>1. Before(kind) = << Field("offsets", "u32") >>
      BY <2>7, BeforeIs
    <3> QED BY <1>3, <3>1 DEF ToSet
  <2>8. CASE kind = "nullable"
    <3>1. Before(kind) = << Field("present", "u8") >>
      BY <2>8, BeforeIs
    <3> QED BY <1>4, <2>1, <3>1 DEF ToSet
  <2>9. CASE kind = "union"
    <3>1. Before(kind) = << Field("tag", "u8") >>
      BY <2>9, BeforeIs
    <3> QED BY <1>4, <2>1, <3>1 DEF ToSet
  <2>10. CASE kind \in {"struct", "dict"}
    <3>1. Before(kind) = <<>>
      BY <2>10, BeforeIs
    <3> QED BY <3>1 DEF ToSet
  <2> QED BY <2>2, <2>3, <2>4, <2>5, <2>6, <2>7, <2>8, <2>9, <2>10 DEF Semantic, Containers
<1>6. \A f \in ToSet(After(kind)) : Good(f)
  <2>1. CASE kind = "dict"
    <3>1. After(kind) = << Field("indices", "u32") >>
      BY <2>1 DEF After
    <3> QED BY <1>3, <3>1 DEF ToSet
  <2>2. CASE kind # "dict"
    <3>1. After(kind) = <<>>
      BY <2>2 DEF After
    <3> QED BY <3>1 DEF ToSet
  <2> QED BY <2>1, <2>2
<1> QED
  BY <1>5, <1>6 DEF Good

\* Every pipeline that the optimizer tries.
Tried == {Leb, DeltaLeb, MinPacked, RunsPacked, Packed, Pco, <<"delta_of_delta", "leb128", "zstd">>,
          <<"rle", "leb128", "zstd">>, <<"gorilla", "zstd">>, <<"zstd">>, <<"elias_fano", "zstd">>}

(* The optimizer tries no other pipeline, whatever the sample.              *)
LEMMA CandidatesTried ==
  ASSUME NEW role, NEW t \in DataTypes, NEW xs
  PROVE  Candidates(role, t, xs) \subseteq Tried
<1> DEFINE kinds == {"i8", "i16", "i32", "i64", "u8", "u16", "u32", "u64", "f32", "f64", "bytes"}
<1>1. t \in kinds /\ Floats \subseteq {"f32", "f64"}
  BY SchemasAssumption DEF DataTypes, Integral
<1>2. DataCandidates(t, xs) \subseteq Tried
  <2>1. CASE t = "i32"
    <3>1. t \notin Floats
      BY <1>1, <2>1
    <3> QED BY <2>1, <3>1 DEF DataCandidates, Tried
  <2>2. CASE t = "i64"
    BY <1>1, <2>2 DEF DataCandidates, Tried
  <2>3. CASE t \in {"i8", "i16"}
    BY <1>1, <2>3 DEF DataCandidates, Tried
  <2>4. CASE t = "u8"
    BY <1>1, <2>4 DEF DataCandidates, Tried
  <2>5. CASE t = "u16"
    BY <1>1, <2>5 DEF DataCandidates, Tried
  <2>6. CASE t = "u32"
    BY <1>1, <2>6 DEF DataCandidates, Tried
  <2>7. CASE t = "u64"
    BY <1>1, <2>7 DEF DataCandidates, Tried
  <2>8. CASE t \in {"f32", "f64"}
    <3>1. t \in Floats
      BY <2>8, SchemasAssumption DEF DataTypes, Integral
    <3> QED BY <2>8, <3>1 DEF DataCandidates, Tried
  <2>9. CASE t = "bytes"
    BY <1>1, <2>9 DEF DataCandidates, Tried
  <2> QED BY <1>1, <2>1, <2>2, <2>3, <2>4, <2>5, <2>6, <2>7, <2>8, <2>9
<1> QED
  BY <1>2 DEF Candidates, Tried

(* They all end in bytes.                                                   *)
LEMMA TriedEnd ==
  ASSUME NEW c \in Tried
  PROVE  c \in Seq(Registered) /\ \E k \in 1..Len(c) : c[k] \notin TypeKeeping
<1> DEFINE Ends(s) == s \in Seq(Registered) /\ \E k \in 1..Len(s) : s[k] \notin TypeKeeping
<1>1. {"delta", "delta_of_delta", "rle", "deltamin", "leb128", "zstd", "pcodec", "bitpack_auto",
       "gorilla", "elias_fano"} \subseteq Registered
  BY DEF Registered, Blocks, TypeKeeping, ByteCoders
<1>2. {"leb128", "zstd", "pcodec", "bitpack_auto", "gorilla", "elias_fano"} \cap TypeKeeping = {}
  BY DEF TypeKeeping
<1>3. ASSUME NEW a \in Registered \ TypeKeeping PROVE Ends(<< a >>)
  <2>1. << a >> \in Seq(Registered) /\ 1 \in 1..Len(<< a >>) /\ << a >>[1] = a
    OBVIOUS
  <2> QED BY <1>3, <2>1
<1>4. ASSUME NEW a \in Registered \ TypeKeeping, NEW b \in Registered PROVE Ends(<< a, b >>)
  <2>1. << a, b >> \in Seq(Registered) /\ 1 \in 1..Len(<< a, b >>) /\ << a, b >>[1] = a
    OBVIOUS
  <2> QED BY <1>4, <2>1
<1>5. ASSUME NEW a \in Registered, NEW b \in Registered \ TypeKeeping, NEW d \in Registered
      PROVE  Ends(<< a, b, d >>)
  <2>1. << a, b, d >> \in Seq(Registered) /\ 2 \in 1..Len(<< a, b, d >>) /\ << a, b, d >>[2] = b
    OBVIOUS
  <2> QED BY <1>5, <2>1
<1> HIDE DEF Ends
<1>6. /\ Ends(<<"zstd">>) /\ Ends(<<"pcodec">>) /\ Ends(<<"gorilla", "zstd">>)
      /\ Ends(<<"elias_fano", "zstd">>) /\ Ends(<<"leb128", "zstd">>)
      /\ Ends(<<"bitpack_auto", "zstd">>)
  BY <1>1, <1>2, <1>3, <1>4
<1>7. /\ Ends(<<"delta", "leb128", "zstd">>) /\ Ends(<<"delta_of_delta", "leb128", "zstd">>)
      /\ Ends(<<"rle", "leb128", "zstd">>)
  BY <1>1, <1>2, <1>5
<1>8. Ends(<<"deltamin", "bitpack_auto", "zstd">>) /\ Ends(<<"rle", "bitpack_auto", "zstd">>)
  BY <1>1, <1>2, <1>5
<1>9. Ends(c)
  BY <1>6, <1>7, <1>8 DEF Tried, Leb, DeltaLeb, MinPacked, RunsPacked, Packed, Pco
<1> QED
  BY <1>9 DEF Ends

(* What the optimizer may pick for a leaf.                                  *)
LEMMA FittingServes ==
  ASSUME NEW role, NEW t \in DataTypes, NEW xs, NEW p \in Fitting(role, t, xs)
  PROVE  Serves(p, t)
<1>1. PICK c \in Candidates(role, t, xs) : p = Stages(c) /\ Builds(t, Stages(c))
  BY DEF Fitting
<1>2. c \in Seq(Registered) /\ \E k \in 1..Len(c) : c[k] \notin TypeKeeping
  BY CandidatesTried, TriedEnd
<1>3. Stages(c) \in Seq(Coding)
  BY <1>2, StagesIs
<1>4. OutputType(t, Stages(c)) = "bytes"
  BY <1>2, EndsIs
<1> QED
  BY <1>1, <1>3, <1>4 DEF Serves

-----------------------------------------------------------------------------
(* Default encodings                                                        *)

\* Pipelines for the fields of a node, one each.
Serving(e, fields) ==
  e \in Encodings /\ Len(e) = Len(fields) /\ \A i \in 1..Len(fields) : Serves(e[i], fields[i].type)

(* There is one default pipeline for each of a node's own fields; it serves  *)
(* the field unless that is a primitive of bytes.                            *)
LEMMA DefaultsIs ==
  ASSUME NEW kind \in DataTypes \cup Semantic \cup Containers
  PROVE  /\ Defaults(Before(kind)) \in Encodings /\ Defaults(After(kind)) \in Encodings
         /\ kind # "bytes" => /\ Serving(Defaults(Before(kind)), Before(kind))
                              /\ Serving(Defaults(After(kind)), After(kind))
<1>1. ASSUME NEW fields \in Seq(Physical), ToSet(fields) \subseteq ToSet(Before(kind)) \cup ToSet(After(kind))
      PROVE  /\ Defaults(fields) \in Encodings
             /\ kind # "bytes" => Serving(Defaults(fields), fields)
  <2> DEFINE x(i) == SchemaDefault(fields[i].role[1], fields[i].type)
             n == Len(fields)
  <2>1. n \in Nat /\ DOMAIN fields = 1..n
    OBVIOUS
  <2>2. ASSUME kind # "bytes", NEW i \in 1..n PROVE Serves(x(i), fields[i].type)
    <3>1. fields[i] \in ToSet(fields)
      BY <2>1, <2>2 DEF ToSet
    <3> QED BY <1>1, <2>2, <3>1, SchemaDefaultServes
  <2>3. \A i \in 1..n : x(i) \in Seq(Coding)
    BY SchemaDefaultTyped
  <2>4. Defaults(fields) = [i \in 1..n |-> x(i)]
    BY <2>1 DEF Defaults
  <2> HIDE DEF x, n
  <2>5. [i \in 1..n |-> x(i)] \in Seq(Seq(Coding)) /\ Len([i \in 1..n |-> x(i)]) = n
    BY <2>1, <2>3
  <2> QED BY <2>1, <2>2, <2>4, <2>5 DEF Serving, Encodings, n
<1>2. Before(kind) \in Seq(Physical) /\ After(kind) \in Seq(Physical)
  BY BeforeType
<1> QED
  BY <1>1, <1>2

(* The equation of default_encodings.                                       *)
LEMMA DefaultEncodingsIs ==
  /\ \A t \in Types : DefaultEncodings[t] \in Encodings
  /\ \A t \in Types :
       /\ Results(DefaultEncodings, t) \in Seq(Encodings)
       /\ DefaultEncodings[t] = IF t.kind = "struct" THEN <<>>
                                ELSE Defaults(Before(t.kind)) \o FlattenSeq(Results(DefaultEncodings, t))
                                       \o Defaults(After(t.kind))
<1> DEFINE V == Encodings
           own(t, r) == IF t.kind = "struct" THEN <<>>
                        ELSE Defaults(Before(t.kind)) \o FlattenSeq(r) \o Defaults(After(t.kind))
           body(f) == [t \in Types |->
             IF t.kind = "struct" THEN <<>>
             ELSE Defaults(Before(t.kind))
                    \o FlattenSeq([k \in DOMAIN t.kids |-> f[t.kids[k]]])
                    \o Defaults(After(t.kind))]
           step == [t \in Types |-> [r \in Seq(V) |-> own(t, r)]]
           W == [t \in Types |-> V]
<1>1. ASSUME NEW t \in Types, NEW r \in Seq(V) PROVE own(t, r) \in V
  <2> DEFINE a == Defaults(Before(t.kind))
             b == FlattenSeq(r)
             c == Defaults(After(t.kind))
  <2>1. a \in Seq(Seq(Coding)) /\ c \in Seq(Seq(Coding))
    <3>1. t.kind \in DataTypes \cup Semantic \cup Containers
      BY TypeParts
    <3>2. a \in Encodings /\ c \in Encodings
      BY <3>1, DefaultsIs
    <3> QED BY <3>2 DEF Encodings
  <2>2. b \in Seq(Seq(Coding))
    BY FlattenType DEF Encodings
  <2> HIDE DEF a, b, c
  <2>3. a \o b \o c \in Seq(Seq(Coding)) /\ <<>> \in Seq(Seq(Coding))
    BY <2>1, <2>2
  <2>4. own(t, r) = IF t.kind = "struct" THEN <<>> ELSE a \o b \o c
    BY DEF a, b, c
  <2> HIDE DEF own
  <2> QED BY <2>3, <2>4 DEF Encodings
<1>2. DefaultEncodings = CHOOSE f : f = body(f)
  BY DEF DefaultEncodings
<1>0. ASSUME NEW f PROVE body(f) = [t \in Types |-> own(t, Results(f, t))]
  BY DEF Results
<1> HIDE DEF own, V, body
<1>3. W \in [Types -> SUBSET V] /\ \A t \in Types : W[t] = V
  OBVIOUS
<1>4. \A t \in Types : \A r \in Seq(V) : step[t][r] = own(t, r)
  OBVIOUS
<1> HIDE DEF W, step
<1>5. Respects(step, V, W)
  BY <1>1, <1>3, <1>4 DEF Respects
<1>6. PICK f \in [Types -> V] : Follows(f, step, Types)
  BY <1>3, <1>5, TreeFold
<1>7. f = body(f)
  <2>1. ASSUME NEW t \in Types PROVE f[t] = body(f)[t]
    <3>1. Results(f, t) \in Seq(V)
      BY KidTypes, ResultsType
    <3> QED BY <1>0, <1>4, <1>6, <3>1 DEF Follows
  <2> QED BY <1>0, <2>1
<1>8. DefaultEncodings = [t \in Types |-> own(t, Results(DefaultEncodings, t))]
  BY <1>0, <1>2, <1>7
<1>9. \A t \in Types : DefaultEncodings[t] \in V /\ Results(DefaultEncodings, t) \in Seq(V)
  <2>1. \A t \in Types : Results(DefaultEncodings, t) \in Seq(V)
                          => DefaultEncodings[t] = step[t][Results(DefaultEncodings, t)]
    BY <1>4, <1>8
  <2>2. \A t \in Types : DefaultEncodings[t] \in V /\ DefaultEncodings[t] \in W[t]
                          /\ Results(DefaultEncodings, t) \in Seq(V)
    BY <1>3, <1>5, <2>1, FoldType
  <2> QED BY <2>2
<1> QED
  BY <1>8, <1>9 DEF own, V

-----------------------------------------------------------------------------
(* Generated types                                                          *)

(* A type with other children of the same number.                           *)
LEMMA RemadeType ==
  ASSUME NEW h \in Nat, NEW t \in TypesUpTo[h], NEW m \in Nat \ {0}, NEW r \in Seq(TypesUpTo[m - 1]),
         Len(r) = Len(t.kids), NEW e \in Seq(Encodings),
         Len(e) = IF t.kind = "struct" THEN Len(r) ELSE 0
  PROVE  LogicalType(t.kind, t.names, r, e) \in TypesUpTo[m]
<1> DEFINE g == [kind |-> t.kind, names |-> t.names, kids |-> r, encodings |-> e]
<1>1. /\ t.kind \in DataTypes \cup Semantic \cup Containers /\ t.names \in Seq(STRING)
      /\ WellFormed(t)
  BY LevelOf
<1>2. g \in [kind : DataTypes \cup Semantic \cup Containers, names : Seq(STRING),
             kids : Seq(TypesUpTo[m - 1]), encodings : Seq(Encodings)]
  BY <1>1
<1>3. g.kind = t.kind /\ g.names = t.names /\ g.kids = r /\ g.encodings = e
  OBVIOUS
<1> HIDE DEF g
<1>4. WellFormed(g)
  <2>1. Len(g.kids) = CASE g.kind \in DataTypes \cup Semantic -> 0
                        [] g.kind \in {"list", "nullable", "dict"} -> 1
                        [] g.kind = "map" -> 2
                        [] OTHER -> Len(g.names)
    BY <1>1, <1>3, Zenon DEF WellFormed
  <2>2. Len(g.encodings) = IF g.kind = "struct" THEN Len(g.kids) ELSE 0
    BY <1>3
  <2> QED BY <2>1, <2>2 DEF WellFormed
<1>5. g \in Above(TypesUpTo[m - 1])
  BY <1>2, <1>4 DEF Above
<1>6. LogicalType(t.kind, t.names, r, e) = g
  BY DEF LogicalType, g
<1> QED
  BY <1>5, <1>6, TypesUpToIs

\* The fields' encodings of a generated type.
FieldDefaults(t, r) ==
  IF t.kind = "struct" THEN [k \in DOMAIN r |-> DefaultEncodings[r[k]]] ELSE <<>>

(* The defaults of the fields of a struct, one each.                        *)
LEMMA FieldDefaultsType ==
  ASSUME NEW t, NEW r \in Seq(Types)
  PROVE  /\ FieldDefaults(t, r) \in Seq(Encodings)
         /\ Len(FieldDefaults(t, r)) = IF t.kind = "struct" THEN Len(r) ELSE 0
<1> DEFINE n == Len(r)
           x(k) == DefaultEncodings[r[k]]
<1>1. n \in Nat /\ DOMAIN r = 1..n /\ \A k \in 1..n : r[k] \in Types
  OBVIOUS
<1>2. \A k \in 1..n : x(k) \in Encodings
  BY <1>1, DefaultEncodingsIs
<1>3. t.kind = "struct" => FieldDefaults(t, r) = [k \in 1..n |-> x(k)]
  BY <1>1 DEF FieldDefaults
<1> HIDE DEF n, x
<1>4. [k \in 1..n |-> x(k)] \in Seq(Encodings) /\ Len([k \in 1..n |-> x(k)]) = n
  BY <1>1, <1>2
<1>5. CASE t.kind = "struct"
  BY <1>3, <1>4, <1>5 DEF n
<1>6. CASE t.kind # "struct"
  <2>1. FieldDefaults(t, r) = <<>>
    BY <1>6 DEF FieldDefaults
  <2> QED BY <1>6, <2>1
<1> QED
  BY <1>5, <1>6

(* The equation of generation: a type of the same height.                   *)
LEMMA GeneratedIs ==
  /\ \A t \in Types : /\ Generated[t] \in Types
                      /\ \A h \in Nat : t \in TypesUpTo[h] => Generated[t] \in TypesUpTo[h]
  /\ \A t \in Types :
       /\ Results(Generated, t) \in Seq(Types)
       /\ Generated[t] = LogicalType(t.kind, t.names, Results(Generated, t),
                                     FieldDefaults(t, Results(Generated, t)))
<1> DEFINE V == Types
           own(t, r) == LogicalType(t.kind, t.names, r, FieldDefaults(t, r))
           body(f) == [t \in Types |->
             LET kids == [k \in DOMAIN t.kids |-> f[t.kids[k]]]
             IN LogicalType(t.kind, t.names, kids,
                            IF t.kind = "struct"
                            THEN [k \in DOMAIN kids |-> DefaultEncodings[kids[k]]] ELSE <<>>)]
           step == [t \in Types |-> [r \in Seq(V) |-> own(t, r)]]
           W == [t \in Types |-> {g \in Types : \A h \in Nat : t \in TypesUpTo[h] => g \in TypesUpTo[h]}]
<1>3. /\ W \in [Types -> SUBSET V]
      /\ \A t \in Types : \A g : g \in W[t] <=> g \in Types /\ \A h \in Nat : t \in TypesUpTo[h]
                                                                    => g \in TypesUpTo[h]
  OBVIOUS
<1> HIDE DEF W
<1>1. ASSUME NEW t \in Types, NEW r \in Seq(V), Len(r) = Len(t.kids),
             \A k \in DOMAIN t.kids : r[k] \in W[t.kids[k]]
      PROVE  own(t, r) \in W[t]
  <2>1. FieldDefaults(t, r) \in Seq(Encodings)
        /\ Len(FieldDefaults(t, r)) = IF t.kind = "struct" THEN Len(r) ELSE 0
    BY FieldDefaultsType
  <2>2. ASSUME NEW h \in Nat, t \in TypesUpTo[h] PROVE own(t, r) \in TypesUpTo[h]
    <3>1. h # 0 /\ t.kids \in Seq(TypesUpTo[h - 1])
      BY <2>2, LevelOf
    <3>2. h - 1 \in Nat /\ h \in Nat \ {0}
      BY <3>1
    <3>3. \A k \in DOMAIN t.kids : t.kids[k] \in TypesUpTo[h - 1] /\ t.kids[k] \in Types
      <4>1. \A k \in DOMAIN t.kids : t.kids[k] \in TypesUpTo[h - 1]
        BY <3>1
      <4> QED BY <4>1, KidTypes
    <3>4. \A k \in DOMAIN t.kids : r[k] \in TypesUpTo[h - 1]
      BY <1>1, <1>3, <3>2, <3>3
    <3>5. r \in Seq(TypesUpTo[h - 1])
      <4>1. DOMAIN t.kids = 1..Len(r)
        BY <1>1, KidTypes
      <4> DEFINE U == TypesUpTo[h - 1]
      <4>2. \A k \in 1..Len(r) : r[k] \in U
        BY <3>4, <4>1
      <4> HIDE DEF U
      <4>3. r \in Seq(U)
        BY <4>2
      <4> QED BY <4>3 DEF U
    <3> QED BY <1>1, <2>1, <2>2, <3>2, <3>5, RemadeType
  <2>3. own(t, r) \in Types
    <3>1. MaxHeight + 1 \in Nat
      <4>1. MaxHeight \in Nat
        BY SchemasAssumption
      <4> QED BY <4>1
    <3> QED BY <2>2, <3>1 DEF Types
  <2> HIDE DEF own
  <2> QED BY <1>3, <2>2, <2>3
<1>2. Generated = CHOOSE f : f = body(f)
  BY DEF Generated
<1>0. ASSUME NEW f PROVE body(f) = [t \in Types |-> own(t, Results(f, t))]
  BY DEF Results, FieldDefaults
<1> HIDE DEF own, V, body
<1>4. \A t \in Types : \A r \in Seq(V) : step[t][r] = own(t, r)
  OBVIOUS
<1> HIDE DEF step
<1>5. Respects(step, V, W)
  BY <1>1, <1>4 DEF Respects
<1>6. PICK f \in [Types -> V] : Follows(f, step, Types)
  BY <1>3, <1>5, TreeFold
<1>7. f = body(f)
  <2>1. ASSUME NEW t \in Types PROVE f[t] = body(f)[t]
    <3>1. Results(f, t) \in Seq(V)
      BY KidTypes, ResultsType
    <3> QED BY <1>0, <1>4, <1>6, <3>1 DEF Follows
  <2> QED BY <1>0, <2>1
<1>8. Generated = [t \in Types |-> own(t, Results(Generated, t))]
  BY <1>0, <1>2, <1>7
<1>9. \A t \in Types : Generated[t] \in W[t] /\ Results(Generated, t) \in Seq(V)
  <2>1. \A t \in Types : Results(Generated, t) \in Seq(V)
                          => Generated[t] = step[t][Results(Generated, t)]
    BY <1>4, <1>8
  <2>2. \A t \in Types : Generated[t] \in V /\ Generated[t] \in W[t]
                          /\ Results(Generated, t) \in Seq(V)
    BY <1>3, <1>5, <2>1, FoldType
  <2> QED BY <2>2
<1> QED
  BY <1>3, <1>8, <1>9 DEF own, V

-----------------------------------------------------------------------------
(* Optimized types                                                          *)

(* What pick_best_leaf gives the fields of a node.                          *)
LEMMA PicksServe ==
  ASSUME NEW fields \in Seq(Physical), NEW p \in Picks(fields)
  PROVE  Serving(p, fields)
<1> DEFINE n == Len(fields)
           fit(i) == Fitting(fields[i].role[1], fields[i].type, <<0>>)
<1>1. n \in Nat /\ DOMAIN fields = 1..n
  OBVIOUS
<1>2. DOMAIN p = 1..n /\ p = [i \in 1..n |-> p[i]] /\ \A i \in 1..n : p[i] \in fit(i)
  BY <1>1 DEF Picks
<1>3. ASSUME NEW i \in 1..n PROVE Serves(p[i], fields[i].type)
  <2>1. fields[i] \in Physical
    BY <1>1
  <2>2. fields[i].type \in DataTypes
    BY <2>1 DEF Physical
  <2>3. p[i] \in Fitting(fields[i].role[1], fields[i].type, <<0>>)
    BY <1>2
  <2> QED BY <2>2, <2>3, FittingServes
<1> HIDE DEF n, fit
<1>4. \A i \in 1..n : p[i] \in Seq(Coding)
  BY <1>3 DEF Serves
<1>5. p \in Seq(Seq(Coding)) /\ Len(p) = n
  <2>1. [i \in 1..n |-> p[i]] \in Seq(Seq(Coding)) /\ Len([i \in 1..n |-> p[i]]) = n
    BY <1>1, <1>4
  <2> QED BY <1>2, <2>1
<1> QED
  BY <1>3, <1>5 DEF Serving, Encodings, n

\* What is returned for child k, by what is returned for the children, and
\* every choice of one result for each.
KidOptima(t, r, k) == r[k][~(t.kind = "map" /\ k = 1) /\ t.kind # "dict"]
KidChoices(t, r) ==
  {o \in [DOMAIN t.kids -> UNION {KidOptima(t, r, k) : k \in DOMAIN t.kids}] :
     \A k \in DOMAIN t.kids : o[k] \in KidOptima(t, r, k)}
TypesOf(o) == [k \in DOMAIN o |-> o[k].type]
EncodingsOf(o) == [k \in DOMAIN o |-> o[k].encodings]
PlainOptima(t) == {Optimum(t, p) : p \in Picks(Before(t.kind))}

OptimizedWith(t, choices, dictAllowed) ==
  CASE t.kind \in Integral \cup {"utf8"} ->
         PlainOptima(t) \cup (IF dictAllowed THEN Promoted(PlainOptima(t)) ELSE {})
    [] t.kind = "struct" ->
         {Optimum(LogicalType("struct", t.names, TypesOf(o), EncodingsOf(o)), <<>>) :
            o \in choices}
    [] t.kind \in Containers \ {"struct"} ->
         {Optimum(LogicalType(t.kind, t.names, TypesOf(o), <<>>),
                  before \o FlattenSeq(EncodingsOf(o)) \o after) :
            before \in Picks(Before(t.kind)), after \in Picks(After(t.kind)), o \in choices}
    [] OTHER -> PlainOptima(t)
OptimizedFrom(t, r, dictAllowed) == OptimizedWith(t, KidChoices(t, r), dictAllowed)

\* The four forms of a result.
IsPlain(x, t) == \E p \in Picks(Before(t.kind)) : x = Optimum(t, p)
IsPromoted(x, t) ==
  \E p \in Picks(Before(t.kind)), i \in Picks(After("dict")) : x = Optimum(DictOf(t), p \o i)
IsStruct(x, t, r) ==
  \E o \in KidChoices(t, r) :
    x = Optimum(LogicalType("struct", t.names, TypesOf(o), EncodingsOf(o)), <<>>)
IsContainer(x, t, r) ==
  \E before \in Picks(Before(t.kind)), after \in Picks(After(t.kind)), o \in KidChoices(t, r) :
    x = Optimum(LogicalType(t.kind, t.names, TypesOf(o), <<>>),
                before \o FlattenSeq(EncodingsOf(o)) \o after)

(* Every result has one of the four forms.                                  *)
LEMMA OptimizedForms ==
  ASSUME NEW t \in Types, NEW r, NEW b, NEW x \in OptimizedFrom(t, r, b)
  PROVE  \/ t.kind \notin Containers /\ IsPlain(x, t)
         \/ t.kind \in Integral \cup {"utf8"} /\ IsPromoted(x, t)
         \/ t.kind = "struct" /\ IsStruct(x, t, r)
         \/ t.kind \in Containers \ {"struct"} /\ IsContainer(x, t, r)
<1>1. /\ (Integral \cup {"utf8"}) \cap Containers = {} /\ "struct" \in Containers
  <2>1. Integral \subseteq DataTypes /\ "utf8" \in Semantic
    BY DEF DataTypes, Semantic
  <2> QED BY <2>1, Kinds DEF Containers
<1>2. \A y : y \in PlainOptima(t) => IsPlain(y, t)
  BY DEF PlainOptima, IsPlain
<1>3. ASSUME NEW y \in Promoted(PlainOptima(t)) PROVE IsPromoted(y, t)
  <2>1. PICK o \in PlainOptima(t), i \in Picks(After("dict")) :
          y = Optimum(DictOf(o.type), o.encodings \o i)
    BY DEF Promoted
  <2>2. PICK p \in Picks(Before(t.kind)) : o = Optimum(t, p)
    BY DEF PlainOptima
  <2>3. o.type = t /\ o.encodings = p
    BY <2>2 DEF Optimum
  <2> QED BY <2>1, <2>3 DEF IsPromoted
<1>4. CASE t.kind \in Integral \cup {"utf8"}
  <2>1. OptimizedFrom(t, r, b)
          = PlainOptima(t) \cup (IF b THEN Promoted(PlainOptima(t)) ELSE {})
    BY <1>1, <1>4 DEF OptimizedFrom, OptimizedWith
  <2>2. x \in PlainOptima(t) \/ x \in Promoted(PlainOptima(t))
    BY <2>1
  <2> QED BY <1>1, <1>2, <1>3, <1>4, <2>2
<1>5. CASE t.kind = "struct"
  <2>1. OptimizedFrom(t, r, b)
          = {Optimum(LogicalType("struct", t.names, TypesOf(o), EncodingsOf(o)), <<>>) :
               o \in KidChoices(t, r)}
    BY <1>1, <1>5 DEF OptimizedFrom, OptimizedWith
  <2> QED BY <1>5, <2>1 DEF IsStruct
<1>6. CASE t.kind \in Containers \ {"struct"}
  <2>1. OptimizedFrom(t, r, b)
          = {Optimum(LogicalType(t.kind, t.names, TypesOf(o), <<>>),
                     before \o FlattenSeq(EncodingsOf(o)) \o after) :
               before \in Picks(Before(t.kind)), after \in Picks(After(t.kind)),
               o \in KidChoices(t, r)}
    BY <1>1, <1>6 DEF OptimizedFrom, OptimizedWith
  <2> QED BY <1>6, <2>1 DEF IsContainer
<1>7. CASE t.kind \notin Containers /\ t.kind \notin Integral \cup {"utf8"}
  <2>1. OptimizedFrom(t, r, b) = PlainOptima(t)
    BY <1>1, <1>7 DEF OptimizedFrom, OptimizedWith
  <2> QED BY <1>2, <1>7, <2>1
<1> QED
  BY <1>4, <1>5, <1>6, <1>7

\* Results of the optimizer whose types have at most this height.
OptimaUpTo(h) == [type : TypesUpTo[h], encodings : Encodings]

(* A choice for the children.                                               *)
LEMMA ChoiceType ==
  ASSUME NEW t \in Types, NEW r, NEW h \in Nat, NEW o \in KidChoices(t, r),
         \A k \in DOMAIN t.kids : KidOptima(t, r, k) \subseteq OptimaUpTo(h)
  PROVE  /\ TypesOf(o) \in Seq(TypesUpTo[h]) /\ Len(TypesOf(o)) = Len(t.kids)
         /\ EncodingsOf(o) \in Seq(Encodings) /\ Len(EncodingsOf(o)) = Len(t.kids)
         /\ \A k \in DOMAIN t.kids : /\ o[k] \in KidOptima(t, r, k)
                                     /\ TypesOf(o)[k] = o[k].type
                                     /\ EncodingsOf(o)[k] = o[k].encodings
<1> DEFINE n == Len(t.kids)
           T == TypesUpTo[h]
           a(k) == o[k].type
           b(k) == o[k].encodings
<1>1. n \in Nat /\ DOMAIN t.kids = 1..n
  BY KidTypes
<1>2. DOMAIN o = 1..n /\ \A k \in 1..n : o[k] \in KidOptima(t, r, k)
  BY <1>1 DEF KidChoices
<1>3. \A k \in 1..n : a(k) \in T /\ b(k) \in Encodings
  BY <1>1, <1>2 DEF OptimaUpTo
<1>4. TypesOf(o) = [k \in 1..n |-> a(k)] /\ EncodingsOf(o) = [k \in 1..n |-> b(k)]
  BY <1>2 DEF TypesOf, EncodingsOf
<1>5. \A k \in 1..n : [j \in 1..n |-> a(j)][k] = o[k].type /\ [j \in 1..n |-> b(j)][k] = o[k].encodings
  OBVIOUS
<1> HIDE DEF n, T, a, b
<1>6. /\ [k \in 1..n |-> a(k)] \in Seq(T) /\ Len([k \in 1..n |-> a(k)]) = n
  BY <1>1, <1>3
<1>7. /\ [k \in 1..n |-> b(k)] \in Seq(Encodings) /\ Len([k \in 1..n |-> b(k)]) = n
  BY <1>1, <1>3
<1> QED
  BY <1>1, <1>2, <1>4, <1>5, <1>6, <1>7 DEF n, T

(* A dictionary is one higher than what is in it.                           *)
LEMMA DictType ==
  ASSUME NEW h \in Nat, NEW t \in TypesUpTo[h]
  PROVE  DictOf(t) \in TypesUpTo[h + 1]
<1> DEFINE d == DictOf(t)
<1>1. d = [kind |-> "dict", names |-> <<>>, kids |-> << t >>, encodings |-> <<>>]
  BY DEF DictOf, Of, LogicalType
<1>2. "dict" \in Containers /\ "dict" \notin DataTypes \cup Semantic
  BY Kinds DEF Containers
<1>3. d.kind = "dict" /\ d.kids = << t >> /\ d.encodings = <<>>
  BY <1>1
<1>4. d \in [kind : DataTypes \cup Semantic \cup Containers, names : Seq(STRING),
             kids : Seq(TypesUpTo[h]), encodings : Seq(Encodings)]
  <2> DEFINE T == TypesUpTo[h]
  <2>1. t \in T /\ <<>> \in Seq(STRING) /\ <<>> \in Seq(Encodings)
    OBVIOUS
  <2> HIDE DEF T, d
  <2>2. << t >> \in Seq(T)
    BY <2>1
  <2> QED BY <1>1, <1>2, <2>1, <2>2 DEF T
<1>5. Len(d.kids) = 1 /\ Len(d.encodings) = 0
  BY <1>3
<1> HIDE DEF d
<1>6. WellFormed(d)
  <2>1. Len(d.kids) = CASE d.kind \in DataTypes \cup Semantic -> 0
                        [] d.kind \in {"list", "nullable", "dict"} -> 1
                        [] d.kind = "map" -> 2
                        [] OTHER -> Len(d.names)
    BY <1>2, <1>3, <1>5
  <2>2. Len(d.encodings) = IF d.kind = "struct" THEN Len(d.kids) ELSE 0
    BY <1>3, <1>5
  <2> QED BY <2>1, <2>2 DEF WellFormed
<1>7. d \in Above(TypesUpTo[h])
  BY <1>4, <1>6 DEF Above
<1>8. h + 1 \in Nat \ {0} /\ (h + 1) - 1 = h
  OBVIOUS
<1> QED
  BY <1>7, <1>8, TypesUpToIs DEF d

(* The results for a node are one higher than it.                           *)
LEMMA OptimizedFromType ==
  ASSUME NEW h \in Nat, NEW t \in Types, t \in TypesUpTo[h], NEW r, NEW b,
         \A k \in DOMAIN t.kids : KidOptima(t, r, k) \subseteq OptimaUpTo(h)
  PROVE  OptimizedFrom(t, r, b) \subseteq OptimaUpTo(h + 1)
<1> SUFFICES ASSUME NEW x \in OptimizedFrom(t, r, b) PROVE x \in OptimaUpTo(h + 1)
  OBVIOUS
<1>1. t.kind \in DataTypes \cup Semantic \cup Containers /\ t.names \in Seq(STRING)
  BY TypeParts
<1>2. Before(t.kind) \in Seq(Physical) /\ After(t.kind) \in Seq(Physical)
      /\ After("dict") \in Seq(Physical)
  <2>1. "dict" \in DataTypes \cup Semantic \cup Containers
    BY DEF Containers
  <2> QED BY <1>1, <2>1, BeforeType
<1>3. t \in TypesUpTo[h + 1]
  BY TypesGrow
<1>4. \A u, e : u \in TypesUpTo[h + 1] /\ e \in Encodings => Optimum(u, e) \in OptimaUpTo(h + 1)
  BY DEF Optimum, OptimaUpTo
<1>5. CASE t.kind \notin Containers /\ IsPlain(x, t)
  <2>1. PICK p \in Picks(Before(t.kind)) : x = Optimum(t, p)
    BY <1>5 DEF IsPlain
  <2>2. p \in Encodings
    BY <1>2, PicksServe DEF Serving
  <2> QED BY <1>3, <1>4, <2>1, <2>2
<1>6. CASE t.kind \in Integral \cup {"utf8"} /\ IsPromoted(x, t)
  <2>1. PICK p \in Picks(Before(t.kind)), i \in Picks(After("dict")) :
          x = Optimum(DictOf(t), p \o i)
    BY <1>6 DEF IsPromoted
  <2>2. p \in Encodings /\ i \in Encodings
    BY <1>2, PicksServe DEF Serving
  <2>3. p \o i \in Encodings
    BY <2>2 DEF Encodings
  <2>4. DictOf(t) \in TypesUpTo[h + 1]
    BY DictType
  <2> QED BY <1>4, <2>1, <2>3, <2>4
<1>7. ASSUME NEW o \in KidChoices(t, r), NEW e \in Seq(Encodings),
             Len(e) = IF t.kind = "struct" THEN Len(t.kids) ELSE 0
      PROVE  LogicalType(t.kind, t.names, TypesOf(o), e) \in TypesUpTo[h + 1]
  <2>1. TypesOf(o) \in Seq(TypesUpTo[h]) /\ Len(TypesOf(o)) = Len(t.kids)
    BY ChoiceType
  <2>2. h + 1 \in Nat \ {0} /\ (h + 1) - 1 = h
    OBVIOUS
  <2>3. TypesOf(o) \in Seq(TypesUpTo[(h + 1) - 1])
    BY <2>1, <2>2
  <2> HIDE DEF TypesOf
  <2> QED BY <1>7, <2>1, <2>2, <2>3, RemadeType
<1>8. CASE t.kind = "struct" /\ IsStruct(x, t, r)
  <2>1. PICK o \in KidChoices(t, r) :
          x = Optimum(LogicalType("struct", t.names, TypesOf(o), EncodingsOf(o)), <<>>)
    BY <1>8 DEF IsStruct
  <2>2. EncodingsOf(o) \in Seq(Encodings) /\ Len(EncodingsOf(o)) = Len(t.kids)
    BY ChoiceType
  <2>3. LogicalType(t.kind, t.names, TypesOf(o), EncodingsOf(o)) \in TypesUpTo[h + 1]
    BY <1>7, <1>8, <2>2
  <2>4. <<>> \in Encodings
    BY DEF Encodings
  <2> QED BY <1>4, <1>8, <2>1, <2>3, <2>4
<1>9. CASE t.kind \in Containers \ {"struct"} /\ IsContainer(x, t, r)
  <2>1. PICK p \in Picks(Before(t.kind)), i \in Picks(After(t.kind)), o \in KidChoices(t, r) :
          x = Optimum(LogicalType(t.kind, t.names, TypesOf(o), <<>>),
                      p \o FlattenSeq(EncodingsOf(o)) \o i)
    BY <1>9 DEF IsContainer
  <2>2. p \in Encodings /\ i \in Encodings
    BY <1>2, PicksServe DEF Serving
  <2> DEFINE m == FlattenSeq(EncodingsOf(o))
  <2>3. m \in Encodings
    <3>1. EncodingsOf(o) \in Seq(Encodings)
      BY ChoiceType
    <3> QED BY <3>1, FlattenType DEF Encodings
  <2>4. LogicalType(t.kind, t.names, TypesOf(o), <<>>) \in TypesUpTo[h + 1]
    <3> DEFINE e == <<>>
    <3>1. e \in Seq(Encodings) /\ Len(e) = 0 /\ t.kind # "struct"
      BY <1>9
    <3> HIDE DEF e
    <3>2. LogicalType(t.kind, t.names, TypesOf(o), e) \in TypesUpTo[h + 1]
      BY <1>7, <3>1
    <3> QED BY <3>2 DEF e
  <2> HIDE DEF m
  <2>5. p \o m \o i \in Encodings
    BY <2>2, <2>3 DEF Encodings
  <2>6. x = Optimum(LogicalType(t.kind, t.names, TypesOf(o), <<>>), p \o m \o i)
    BY <2>1 DEF m
  <2> QED BY <1>4, <2>4, <2>5, <2>6
<1> QED
  BY <1>5, <1>6, <1>8, <1>9, OptimizedForms

(* The equation of optimize_type_inner.                                     *)
LEMMA OptimizedIs ==
  /\ \A h \in Nat : \A t \in Types : t \in TypesUpTo[h] =>
       \A b \in BOOLEAN : Optimized[t][b] \subseteq OptimaUpTo(h + 1)
  /\ \A t \in Types : \A b \in BOOLEAN :
       Optimized[t][b] = OptimizedFrom(t, Results(Optimized, t), b)
  /\ \A t \in Types : \A k \in DOMAIN t.kids : \A b \in BOOLEAN :
       Results(Optimized, t)[k] = Optimized[t.kids[k]]
<1> DEFINE Widest == OptimaUpTo(MaxHeight + 2)
           V == [BOOLEAN -> SUBSET Widest]
           Low(t, o) == \A h \in Nat : t \in TypesUpTo[h] => \A b \in BOOLEAN : o[b] \subseteq OptimaUpTo(h + 1)
           own(t, r) == [dictAllowed \in BOOLEAN |-> OptimizedFrom(t, r, dictAllowed)]
           body(f) == [t \in Types |->
             [dictAllowed \in BOOLEAN |->
               LET plain == {Optimum(t, p) : p \in Picks(Before(t.kind))}
                   Kid(k) == f[t.kids[k]][~(t.kind = "map" /\ k = 1) /\ t.kind # "dict"]
                   Kids == {o \in [DOMAIN t.kids -> UNION {Kid(k) : k \in DOMAIN t.kids}] :
                              \A k \in DOMAIN t.kids : o[k] \in Kid(k)}
                   TypesIn(o) == [k \in DOMAIN o |-> o[k].type]
                   EncodingsIn(o) == [k \in DOMAIN o |-> o[k].encodings]
               IN CASE t.kind \in Integral \cup {"utf8"} ->
                         plain \cup (IF dictAllowed THEN Promoted(plain) ELSE {})
                    [] t.kind = "struct" ->
                         {Optimum(LogicalType("struct", t.names, TypesIn(o), EncodingsIn(o)), <<>>) :
                            o \in Kids}
                    [] t.kind \in Containers \ {"struct"} ->
                         {Optimum(LogicalType(t.kind, t.names, TypesIn(o), <<>>),
                                  before \o FlattenSeq(EncodingsIn(o)) \o after) :
                            before \in Picks(Before(t.kind)), after \in Picks(After(t.kind)),
                            o \in Kids}
                    [] OTHER -> plain]]
           step == [t \in Types |-> [r \in Seq(V) |-> own(t, r)]]
           W == [t \in Types |-> {o \in V : Low(t, o)}]
<1>3. W \in [Types -> SUBSET V] /\ \A t \in Types : \A o : o \in W[t] <=> o \in V /\ Low(t, o)
  OBVIOUS
<1> HIDE DEF W
<1>1. ASSUME NEW t \in Types, NEW r \in Seq(V), Len(r) = Len(t.kids),
             \A k \in DOMAIN t.kids : r[k] \in W[t.kids[k]]
      PROVE  own(t, r) \in W[t]
  <2>1. ASSUME NEW h \in Nat, t \in TypesUpTo[h], NEW b \in BOOLEAN
        PROVE  OptimizedFrom(t, r, b) \subseteq OptimaUpTo(h + 1)
    <3>1. h # 0 /\ t.kids \in Seq(TypesUpTo[h - 1])
      BY <2>1, LevelOf
    <3>2. h - 1 \in Nat /\ (h - 1) + 1 = h
      BY <3>1
    <3>3. ASSUME NEW k \in DOMAIN t.kids PROVE KidOptima(t, r, k) \subseteq OptimaUpTo(h)
      <4>1. t.kids[k] \in TypesUpTo[h - 1] /\ t.kids[k] \in Types
        <5>1. \A i \in DOMAIN t.kids : t.kids[i] \in TypesUpTo[h - 1]
          BY <3>1
        <5> QED BY <5>1, KidTypes
      <4>2. Low(t.kids[k], r[k])
        BY <1>1, <1>3, <4>1
      <4> DEFINE c == ~(t.kind = "map" /\ k = 1) /\ t.kind # "dict"
      <4>3. c \in BOOLEAN
        OBVIOUS
      <4> HIDE DEF c
      <4>4. r[k][c] \subseteq OptimaUpTo((h - 1) + 1)
        BY <3>2, <4>1, <4>2, <4>3
      <4> QED BY <3>2, <4>4 DEF KidOptima, c
    <3> QED BY <2>1, <3>3, OptimizedFromType
  <2>2. \A b \in BOOLEAN : OptimizedFrom(t, r, b) \subseteq Widest
    <3>1. MaxHeight \in Nat
      BY SchemasAssumption
    <3>2. MaxHeight + 1 \in Nat /\ (MaxHeight + 1) + 1 = MaxHeight + 2
      BY <3>1
    <3> QED BY <2>1, <3>2 DEF Types
  <2>3. own(t, r) \in V /\ Low(t, own(t, r))
    <3> HIDE DEF Widest
    <3> QED BY <2>1, <2>2
  <2> HIDE DEF own, V
  <2> QED BY <1>3, <2>3
<1>2. Optimized = CHOOSE f : f = body(f)
  BY DEF Optimized
<1>0. ASSUME NEW f PROVE body(f) = [t \in Types |-> own(t, Results(f, t))]
  <2> DEFINE kid(t, k) == f[t.kids[k]][~(t.kind = "map" /\ k = 1) /\ t.kind # "dict"]
             choices(t) == {o \in [DOMAIN t.kids -> UNION {kid(t, k) : k \in DOMAIN t.kids}] :
                              \A k \in DOMAIN t.kids : o[k] \in kid(t, k)}
  <2>1. body(f) = [t \in Types |-> [d \in BOOLEAN |-> OptimizedWith(t, choices(t), d)]]
    BY DEF OptimizedWith, PlainOptima, TypesOf, EncodingsOf
  <2>2. ASSUME NEW t PROVE KidChoices(t, Results(f, t)) = choices(t)
    <3>1. \A k \in DOMAIN t.kids : KidOptima(t, Results(f, t), k) = kid(t, k)
      <4>1. \A k \in DOMAIN t.kids : Results(f, t)[k] = f[t.kids[k]]
        BY DEF Results
      <4> QED BY <4>1 DEF KidOptima
    <3> HIDE DEF kid
    <3> QED BY <3>1 DEF KidChoices
  <2> HIDE DEF choices, body
  <2>3. \A t : own(t, Results(f, t)) = [d \in BOOLEAN |-> OptimizedWith(t, choices(t), d)]
    BY <2>2 DEF OptimizedFrom
  <2> HIDE DEF own
  <2> QED BY <2>1, <2>3
<1> HIDE DEF own, V, body
<1>4. \A t \in Types : \A r \in Seq(V) : step[t][r] = own(t, r)
  OBVIOUS
<1> HIDE DEF step
<1>5. Respects(step, V, W)
  BY <1>1, <1>4 DEF Respects
<1>6. PICK f \in [Types -> V] : Follows(f, step, Types)
  BY <1>3, <1>5, TreeFold
<1>7. f = body(f)
  <2>1. ASSUME NEW t \in Types PROVE f[t] = body(f)[t]
    <3>1. Results(f, t) \in Seq(V)
      BY KidTypes, ResultsType
    <3> QED BY <1>0, <1>4, <1>6, <3>1 DEF Follows
  <2> QED BY <1>0, <2>1
<1>8. Optimized = [t \in Types |-> own(t, Results(Optimized, t))]
  BY <1>0, <1>2, <1>7
<1>9. \A t \in Types : Optimized[t] \in W[t] /\ Results(Optimized, t) \in Seq(V)
  <2>1. \A t \in Types : Results(Optimized, t) \in Seq(V)
                          => Optimized[t] = step[t][Results(Optimized, t)]
    BY <1>4, <1>8
  <2>2. \A t \in Types : Optimized[t] \in V /\ Optimized[t] \in W[t]
                          /\ Results(Optimized, t) \in Seq(V)
    BY <1>3, <1>5, <2>1, FoldType
  <2> QED BY <2>2
<1>10. \A t \in Types : \A b \in BOOLEAN :
         Optimized[t][b] = OptimizedFrom(t, Results(Optimized, t), b)
  BY <1>8 DEF own
<1>11. \A t \in Types : \A k \in DOMAIN t.kids : \A b \in BOOLEAN :
         Results(Optimized, t)[k] = Optimized[t.kids[k]]
  BY DEF Results
<1>12. \A t \in Types : Low(t, Optimized[t])
  <2> HIDE DEF Low
  <2> QED BY <1>3, <1>9
<1> QED
  BY <1>10, <1>11, <1>12

-----------------------------------------------------------------------------
(* The state                                                                *)

Resolved == Seq(Seq(Pipeline))
BuiltColumn(s) == BuildPipelines[s.type][s.encodings]

(* A schema is resolved if every column is.                                 *)
LEMMA ResolveAllIs ==
  ASSUME NEW columns \in Seq(Columns)
  PROVE  /\ ResolveAll(columns) \in Resolved \cup {Fail, Panic}
         /\ Fail \notin Resolved /\ Panic \notin Resolved /\ Fail # Panic
         /\ ResolveAll(columns) \notin {Fail, Panic}
              <=> \A c \in 1..Len(columns) : BuiltColumn(columns[c]) \notin {Fail, Panic}
         /\ ResolveAll(columns) \notin {Fail, Panic} =>
              /\ Len(ResolveAll(columns)) = Len(columns)
              /\ \A c \in 1..Len(columns) : ResolveAll(columns)[c] = BuiltColumn(columns[c])
         /\ ResolveAll(columns) = Panic =>
              \E c \in 1..Len(columns) : BuiltColumn(columns[c]) = Panic
<1> DEFINE n == Len(columns)
           built == [c \in DOMAIN columns |->
                       BuildPipelines[columns[c].type][columns[c].encodings]]
           bad == {c \in DOMAIN built : built[c] \in {Fail, Panic}}
           first == CHOOSE c \in bad : \A d \in bad : c <= d
<1>1. Panic # Fail /\ Fail \notin Resolved /\ Panic \notin Resolved
  BY SchemasAssumption DEF Resolved
<1>2. ResolveAll(columns) = IF bad = {} THEN built ELSE built[first]
  BY DEF ResolveAll
<1>3. n \in Nat /\ DOMAIN columns = 1..n
  OBVIOUS
<1>4. DOMAIN built = 1..n /\ \A c \in 1..n : built[c] = BuiltColumn(columns[c])
  BY <1>3 DEF BuiltColumn
<1>5. \A c \in 1..n : built[c] \in Outcomes
  <2> SUFFICES ASSUME NEW c \in 1..n PROVE BuiltColumn(columns[c]) \in Outcomes
    BY <1>4
  <2>1. columns[c] \in Columns
    BY <1>3
  <2>2. columns[c].type \in Types /\ columns[c].encodings \in Encodings
    BY <2>1 DEF Columns
  <2> QED BY <2>2, BuildPipelinesIs DEF BuiltColumn
<1> HIDE DEF built
<1>6. CASE bad = {}
  <2>1. \A c \in 1..n : built[c] \notin {Fail, Panic}
    BY <1>4, <1>6
  <2>2. \A c \in 1..n : built[c] \in Seq(Pipeline)
    BY <1>5, <2>1 DEF Outcomes
  <2>3. built = [c \in 1..n |-> built[c]]
    BY <1>2, <1>4 DEF built
  <2>4. built \in Resolved /\ Len(built) = n
    BY <1>3, <2>2, <2>3 DEF Resolved
  <2> HIDE DEF bad, first
  <2> QED BY <1>1, <1>2, <1>4, <1>6, <2>1, <2>4
<1>7. CASE bad # {}
  <2>1. bad \subseteq Nat
    BY <1>3, <1>4
  <2>2. bad \subseteq 1..n /\ \A c \in bad : built[c] \in {Fail, Panic}
    BY <1>4
  <2> HIDE DEF bad
  <2>3. \E c \in bad : \A d \in bad : c <= d
    BY <1>7, <2>1, LeastNatural
  <2>4. first \in bad
    BY <2>3
  <2> HIDE DEF first
  <2>5. first \in 1..n /\ built[first] \in {Fail, Panic}
    BY <2>2, <2>4
  <2> QED BY <1>1, <1>2, <1>4, <1>7, <2>5
<1> QED
  BY <1>6, <1>7

(* No slice of a valid schema is out of range.                              *)
LEMMA ValidResolves ==
  ASSUME NEW s, s.columns \in Seq(Columns), Validate(s)
  PROVE  /\ ResolveAll(s.columns) # Panic
         /\ \A c \in 1..Len(s.columns) :
              /\ s.columns[c].type \in Types /\ s.columns[c].encodings \in Encodings
              /\ Fits(s.columns[c].type, s.columns[c].encodings)
<1>1. ASSUME NEW c \in 1..Len(s.columns)
      PROVE  /\ s.columns[c].type \in Types /\ s.columns[c].encodings \in Encodings
             /\ Fits(s.columns[c].type, s.columns[c].encodings)
             /\ BuiltColumn(s.columns[c]) # Panic
  <2> DEFINE x == s.columns[c]
  <2>1. x \in Columns /\ c \in DOMAIN s.columns
    OBVIOUS
  <2>2. ValidSpec(x) /\ ValidType[x.type][0]
    BY <2>1 DEF Validate
  <2> HIDE DEF x
  <2>3. x.type \in Types /\ x.encodings \in Encodings
    BY <2>1 DEF Columns
  <2>4. Len(x.encodings) = EncodingsLen[x.type]
    BY <2>2 DEF ValidSpec
  <2>5. Fits(x.type, x.encodings)
    BY <2>2, <2>3, <2>4, BuildFits
  <2>6. BuiltColumn(x) # Panic
    BY <2>5 DEF Fits, BuiltColumn
  <2> QED BY <2>3, <2>5, <2>6 DEF x
<1>2. ResolveAll(s.columns) # Panic
  BY <1>1, ResolveAllIs
<1> QED
  BY <1>1, <1>2

\* What a writer takes.
Accepted(s) ==
  /\ Validate(s)
  /\ ResolveAll(s.columns) \notin {Fail, Panic}
  /\ EndInBytes(ResolveAll(s.columns))

Phases == {"draft", "written", "refused", "panicked", "unreadable", "open"}

(* The types of the variables.                                              *)
TypeOK ==
  /\ phase \in Phases
  /\ origin \in {"caller", "adapter", "optimizer"}
  /\ schema \in [version : Nat, columns : Seq(Columns)]
  /\ pipelines \in Resolved /\ opened \in Resolved
  /\ source \in [columns : Seq(Columns), pipelines : Resolved]

(* What the phases say of the schema, and where a projection came from.     *)
Histories ==
  /\ phase # "panicked"
  /\ phase = "draft" => source = Nothing
  /\ phase = "refused" => source = Nothing /\ ~Accepted(schema)
  /\ phase = "unreadable" => source = Nothing /\ ~FromJson(schema)
  /\ phase \in {"written", "open", "unreadable"} => Accepted(schema)
  /\ phase = "written" /\ source = Nothing => pipelines = ResolveAll(schema.columns)
  /\ phase = "open" => /\ opened = ResolveAll(schema.columns)
                       /\ source = Nothing => pipelines = opened
                       /\ FromJson(schema)
  /\ source # Nothing =>
       /\ FromJson(schema)
       /\ ResolveAll(source.columns) \notin {Fail, Panic}
       /\ source.pipelines = ResolveAll(source.columns)
       /\ \A c \in DOMAIN schema.columns : \E d \in DOMAIN source.columns :
            source.columns[d] = schema.columns[c]

(* A writer takes or refuses; it never panics.                              *)
LEMMA EndedIs ==
  ASSUME NEW s, s.columns \in Seq(Columns)
  PROVE  /\ Ended(IF Validate(s) THEN ResolveAll(s.columns) ELSE Fail)
              = IF Accepted(s) THEN "written" ELSE "refused"
         /\ Accepted(s) => Ended(ResolveAll(s.columns)) = "written"
<1>1. Fail # Panic
  BY SchemasAssumption
<1>2. Validate(s) => ResolveAll(s.columns) # Panic
  BY ValidResolves
<1>3. CASE Validate(s)
  BY <1>1, <1>2, <1>3 DEF Ended, Accepted
<1>4. CASE ~Validate(s)
  BY <1>1, <1>4 DEF Ended, Accepted
<1> QED
  BY <1>3, <1>4

(* Part of a schema that opens is a schema that opens.                      *)
LEMMA PartOpens ==
  ASSUME NEW s, s.columns \in Seq(Columns), FromJson(s), Accepted(s),
         NEW part, part.columns \in Seq(Columns), part.version = Current,
         Distinct(NamesOf(part.columns)),
         \A c \in DOMAIN part.columns : \E d \in DOMAIN s.columns :
           s.columns[d] = part.columns[c]
  PROVE  FromJson(part) /\ Accepted(part)
<1>1. Validate(part)
  BY DEF Validate, Accepted
<1>2. Parses(part)
  BY DEF Parses, FromJson
<1> DEFINE whole == ResolveAll(s.columns)
           built == ResolveAll(part.columns)
<1>3. DOMAIN s.columns = 1..Len(s.columns) /\ DOMAIN part.columns = 1..Len(part.columns)
  OBVIOUS
<1>4. /\ \A d \in 1..Len(s.columns) : BuiltColumn(s.columns[d]) \notin {Fail, Panic}
      /\ Len(whole) = Len(s.columns) /\ whole \in Resolved
      /\ \A d \in 1..Len(s.columns) : whole[d] = BuiltColumn(s.columns[d])
  BY ResolveAllIs DEF Accepted
<1>5. \A c \in 1..Len(part.columns) : BuiltColumn(part.columns[c]) \notin {Fail, Panic}
  <2> HIDE DEF whole
  <2> QED BY <1>3, <1>4
<1>6. built \notin {Fail, Panic}
  BY <1>5, ResolveAllIs
<1>7. /\ Len(built) = Len(part.columns) /\ built \in Resolved
      /\ \A c \in 1..Len(part.columns) : built[c] = BuiltColumn(part.columns[c])
  BY <1>6, ResolveAllIs
<1>8. EndInBytes(whole)
  BY DEF Accepted
<1> HIDE DEF whole, built
<1>9. ToSet(built) \subseteq ToSet(whole)
  <2>1. ASSUME NEW x \in ToSet(built) PROVE x \in ToSet(whole)
    <3>1. PICK c \in 1..Len(built) : x = built[c]
      BY <1>7 DEF ToSet, Resolved
    <3>2. PICK d \in 1..Len(s.columns) : s.columns[d] = part.columns[c]
      BY <1>3, <1>7, <3>1
    <3>3. x = whole[d] /\ d \in DOMAIN whole
      BY <1>4, <1>7, <3>1, <3>2 DEF Resolved
    <3> QED BY <3>3 DEF ToSet
  <2> QED BY <2>1
<1>10. EndInBytes(built)
  BY <1>8, <1>9 DEF EndInBytes
<1> QED
  BY <1>1, <1>2, <1>6, <1>10 DEF FromJson, Accepted, built

(* A name that is not used yet is one of the names.                         *)
LEMMA NewNameIs ==
  ASSUME Unused # {}
  PROVE  NewName \in Unused /\ NewName \in STRING \ {""}
         /\ \A c \in DOMAIN schema.columns : schema.columns[c].name # NewName
<1>1. \E n \in Names : n \in Unused
  BY DEF Unused
<1>2. NewName \in Unused
  BY <1>1 DEF NewName
<1>3. Names \subseteq STRING \ {""}
  BY SchemasAssumption
<1> QED
  BY <1>2, <1>3 DEF Unused

(* The columns that a step adds.                                            *)
LEMMA SpecsTyped == \A spec \in Specs : spec \in Columns
BY SchemasAssumption

(* What adapters find and samples are typed, with room for a dictionary.    *)
LEMMA ShapesTyped ==
  \A t \in Shapes \cup Samples : t \in Types /\ t \in TypesUpTo[MaxHeight]
<1>1. MaxHeight \in Nat /\ Shapes \cup Samples \subseteq TypesUpTo[MaxHeight]
  BY SchemasAssumption
<1>2. \A t \in TypesUpTo[MaxHeight] : t \in TypesUpTo[MaxHeight + 1]
  BY <1>1, TypesGrow
<1> QED
  BY <1>1, <1>2 DEF Types

(* A generated column is a column.                                          *)
LEMMA GeneratedTyped ==
  ASSUME NEW t \in Shapes, NEW name \in STRING
  PROVE  ColumnSpec(name, Generated[t], DefaultEncodings[Generated[t]]) \in Columns
<1>1. Generated[t] \in Types
  BY ShapesTyped, GeneratedIs
<1>2. DefaultEncodings[Generated[t]] \in Encodings
  BY <1>1, DefaultEncodingsIs
<1> QED
  BY <1>1, <1>2 DEF ColumnSpec, Columns

(* So is an optimized one.                                                  *)
LEMMA OptimaTyped ==
  ASSUME NEW o \in Optima
  PROVE  o \in OptimaUpTo(MaxHeight + 1) /\ \A name \in STRING :
           ColumnSpec(name, o.type, o.encodings) \in Columns
<1>1. PICK t \in Samples : o \in Optimized[t][TRUE]
  BY DEF Optima
<1>2. MaxHeight \in Nat
  BY SchemasAssumption
<1>3. t \in Types /\ t \in TypesUpTo[MaxHeight] /\ TRUE \in BOOLEAN
  BY ShapesTyped
<1>4. o \in OptimaUpTo(MaxHeight + 1)
  BY <1>1, <1>2, <1>3, OptimizedIs
<1>5. o.type \in Types /\ o.encodings \in Encodings
  BY <1>4 DEF OptimaUpTo, Types
<1> QED
  BY <1>4, <1>5 DEF ColumnSpec, Columns

(* The phases by name.                                                      *)
LEMMA StageNames ==
  /\ "draft" \in Phases /\ "written" \in Phases /\ "refused" \in Phases
  /\ "unreadable" \in Phases /\ "open" \in Phases
BY DEF Phases

(* No projection yet.                                                       *)
LEMMA NothingIs ==
  /\ Nothing.columns = <<>> /\ Nothing.pipelines = <<>>
  /\ Nothing \in [columns : Seq(Columns), pipelines : Resolved]
  /\ <<>> \in Resolved /\ <<>> \in Seq(Columns)
<1>1. <<>> \in Resolved /\ <<>> \in Seq(Columns)
  BY DEF Resolved
<1> QED
  BY <1>1 DEF Nothing

(* The first state, and then the steps one by one.                          *)
LEMMA InitTyped ==
  ASSUME Init
  PROVE  TypeOK /\ Histories
<1>1. Current \in Nat
  BY SchemasAssumption
<1>2. schema \in [version : Nat, columns : Seq(Columns)]
  BY <1>1 DEF Init
<1>3. pipelines \in Resolved /\ opened \in Resolved /\ source = Nothing
      /\ source \in [columns : Seq(Columns), pipelines : Resolved]
  BY NothingIs DEF Init
<1>4. phase = "draft" /\ origin \in {"caller", "adapter", "optimizer"}
  BY DEF Init
<1>5. TypeOK
  BY <1>2, <1>3, <1>4, StageNames DEF TypeOK
<1>6. Histories
  BY <1>3, <1>4 DEF Histories
<1> QED
  BY <1>5, <1>6

(* A column is added to a draft.                                            *)
LEMMA AddColumnTyped ==
  ASSUME TypeOK, Histories, NEW from, NEW spec \in Columns, AddColumn(from, spec)
  PROVE  TypeOK' /\ Histories'
<1>1. /\ phase = "draft" /\ phase' = "draft" /\ origin' = origin
      /\ schema' = [schema EXCEPT !.columns = Append(schema.columns, spec)]
      /\ pipelines' = pipelines /\ opened' = opened /\ source' = source
  BY DEF AddColumn
<1>2. schema \in [version : Nat, columns : Seq(Columns)]
  BY DEF TypeOK
<1>3. Append(schema.columns, spec) \in Seq(Columns)
  BY <1>2
<1>4. schema' \in [version : Nat, columns : Seq(Columns)]
  BY <1>1, <1>2, <1>3
<1>5. TypeOK'
  BY <1>1, <1>4 DEF TypeOK
<1>6. source = Nothing
  BY <1>1 DEF Histories
<1>7. Histories'
  BY <1>1, <1>6 DEF Histories, Nothing
<1> QED
  BY <1>5, <1>7

(* A writer accepts or refuses; it cannot leave the range of a slice.       *)
LEMMA NewWriterTyped ==
  ASSUME TypeOK, Histories, NewWriter
  PROVE  TypeOK' /\ Histories'
<1> DEFINE built == IF Validate(schema) THEN ResolveAll(schema.columns) ELSE Fail
<1>1. schema.columns \in Seq(Columns)
  BY DEF TypeOK
<1>2. /\ phase = "draft" /\ phase' = Ended(built)
      /\ pipelines' = IF phase' = "written" THEN built ELSE <<>>
      /\ origin' = origin /\ schema' = schema /\ opened' = opened /\ source' = source
  BY DEF NewWriter
<1>3. phase' = IF Accepted(schema) THEN "written" ELSE "refused"
  BY <1>1, <1>2, EndedIs
<1>4. source = Nothing
  BY <1>2 DEF Histories
<1>5. CASE Accepted(schema)
  <2>1. phase' = "written" /\ Validate(schema)
    BY <1>3, <1>5 DEF Accepted
  <2>2. pipelines' = ResolveAll(schema.columns)
    BY <1>2, <2>1
  <2>3. pipelines' \in Resolved
    BY <1>1, <1>5, <2>2, ResolveAllIs DEF Accepted
  <2> HIDE DEF built
  <2>4. TypeOK'
    BY <1>2, <2>1, <2>3, StageNames DEF TypeOK
  <2>5. Accepted(schema') /\ pipelines' = ResolveAll(schema'.columns) /\ source' = Nothing
    BY <1>2, <1>4, <1>5, <2>2
  <2>6. Histories'
    BY <2>1, <2>5 DEF Histories, Nothing, Accepted
  <2> QED BY <2>4, <2>6
<1>6. CASE ~Accepted(schema)
  <2>1. phase' = "refused"
    BY <1>3, <1>6
  <2>2. pipelines' \in Resolved
    BY <1>2, <2>1, NothingIs
  <2> HIDE DEF built
  <2>4. TypeOK'
    BY <1>2, <2>1, <2>2, StageNames DEF TypeOK
  <2>5. ~Accepted(schema') /\ source' = Nothing
    BY <1>2, <1>4, <1>6
  <2>6. Histories'
    BY <2>1, <2>5 DEF Histories, Nothing, Accepted
  <2> QED BY <2>4, <2>6
<1> QED
  BY <1>5, <1>6

(* A reader resolves what the writer did, if it parses it.                  *)
LEMMA OpenReaderTyped ==
  ASSUME TypeOK, Histories, OpenReader
  PROVE  TypeOK' /\ Histories'
<1> DEFINE built == IF FromJson(schema) THEN ResolveAll(schema.columns) ELSE Fail
<1>1. schema.columns \in Seq(Columns)
  BY DEF TypeOK
<1>2. /\ phase = "written"
      /\ phase' = CASE built = Fail -> "unreadable"
                    [] built = Panic -> "panicked"
                    [] OTHER -> "open"
      /\ opened' = IF phase' = "open" THEN built ELSE <<>>
      /\ origin' = origin /\ schema' = schema /\ pipelines' = pipelines /\ source' = source
  BY DEF OpenReader
<1>3. Accepted(schema) /\ Fail # Panic
  BY <1>2, SchemasAssumption DEF Histories
<1>4. ResolveAll(schema.columns) \in Resolved /\ ResolveAll(schema.columns) \notin {Fail, Panic}
  BY <1>1, <1>3, ResolveAllIs DEF Accepted
<1>5. CASE FromJson(schema)
  <2>1. phase' = "open" /\ opened' = ResolveAll(schema.columns)
    BY <1>2, <1>4, <1>5
  <2>2. opened' \in Resolved
    BY <1>4, <2>1
  <2> HIDE DEF built
  <2>3. TypeOK'
    BY <1>2, <2>1, <2>2, StageNames DEF TypeOK
  <2>4. /\ Accepted(schema') /\ FromJson(schema') /\ opened' = ResolveAll(schema'.columns)
        /\ source' = Nothing => pipelines' = opened'
    <3>1. source = Nothing => pipelines = ResolveAll(schema.columns)
      BY <1>2 DEF Histories
    <3> QED BY <1>2, <1>3, <1>5, <2>1, <3>1
  <2>5. source' # Nothing =>
          /\ ResolveAll(source'.columns) \notin {Fail, Panic}
          /\ source'.pipelines = ResolveAll(source'.columns)
          /\ \A c \in DOMAIN schema'.columns : \E d \in DOMAIN source'.columns :
               source'.columns[d] = schema'.columns[c]
    BY <1>2 DEF Histories
  <2>6. Histories'
    BY <2>1, <2>4, <2>5 DEF Histories, Nothing, Accepted
  <2> QED BY <2>3, <2>6
<1>6. CASE ~FromJson(schema)
  <2>1. phase' = "unreadable"
    BY <1>2, <1>3, <1>6
  <2>2. opened' \in Resolved
    BY <1>2, <2>1, NothingIs
  <2> HIDE DEF built
  <2>3. TypeOK'
    BY <1>2, <2>1, <2>2, StageNames DEF TypeOK
  <2>4. source = Nothing
    BY <1>6 DEF Histories
  <2>5. Accepted(schema') /\ ~FromJson(schema') /\ source' = Nothing
    BY <1>2, <1>3, <1>6, <2>4
  <2>6. Histories'
    BY <2>1, <2>5 DEF Histories, Nothing, Accepted
  <2> QED BY <2>3, <2>6
<1> QED
  BY <1>5, <1>6

(* A part of a schema that a reader accepted is accepted by a writer.       *)
LEMMA ProjectTyped ==
  ASSUME TypeOK, Histories, Project
  PROVE  TypeOK' /\ Histories'
<1> DEFINE At(names, i) == CHOOSE c \in DOMAIN schema.columns : schema.columns[c].name = names[i]
           part(names) == [i \in DOMAIN names |-> schema.columns[At(names, i)]]
<1>1. schema \in [version : Nat, columns : Seq(Columns)] /\ schema.columns \in Seq(Columns)
  BY DEF TypeOK
<1>2. PICK names \in UNION {[1..n -> ToSet(NamesOf(schema.columns))] :
                              n \in 1..Len(schema.columns)} :
        /\ Distinct(names)
        /\ schema' = [version |-> Current, columns |-> part(names)]
        /\ phase' = Ended(ResolveAll(part(names)))
  BY DEF Project
<1>3. PICK n \in 1..Len(schema.columns) : names \in [1..n -> ToSet(NamesOf(schema.columns))]
  BY <1>2
<1>4. /\ phase = "open" /\ origin' = origin /\ pipelines' = pipelines /\ opened' = opened
      /\ source' = [columns |-> schema.columns, pipelines |-> opened]
  BY DEF Project
<1>5. /\ FromJson(schema) /\ Accepted(schema) /\ opened = ResolveAll(schema.columns)
  BY <1>4 DEF Histories
<1> DEFINE columns == part(names)
<1>6. ASSUME NEW i \in 1..n
      PROVE  /\ At(names, i) \in DOMAIN schema.columns
             /\ schema.columns[At(names, i)].name = names[i]
  <2>1. names[i] \in ToSet(NamesOf(schema.columns))
    BY <1>3
  <2>2. \E c \in DOMAIN schema.columns : schema.columns[c].name = names[i]
    BY <2>1 DEF ToSet, NamesOf
  <2> QED BY <2>2
<1>7. n \in Nat /\ DOMAIN names = 1..n
  BY <1>1, <1>3
<1> HIDE DEF At
<1>8. /\ columns \in Seq(Columns) /\ Len(columns) = n /\ DOMAIN columns = 1..n
      /\ \A i \in 1..n : columns[i] = schema.columns[At(names, i)]
  <2>1. \A i \in 1..n : schema.columns[At(names, i)] \in Columns
    BY <1>1, <1>6
  <2>2. columns = [i \in 1..n |-> schema.columns[At(names, i)]]
    BY <1>7
  <2> HIDE DEF columns
  <2> QED BY <1>7, <2>1, <2>2
<1> HIDE DEF part, columns
<1>9. NamesOf(columns) = names
  <2>1. NamesOf(columns) = [c \in 1..n |-> columns[c].name]
    BY <1>8 DEF NamesOf
  <2>2. names = [c \in 1..n |-> names[c]]
    BY <1>3
  <2>3. \A c \in 1..n : columns[c].name = names[c]
    BY <1>6, <1>8
  <2> QED BY <2>1, <2>2, <2>3
<1>10. \A c \in DOMAIN columns : \E d \in DOMAIN schema.columns : schema.columns[d] = columns[c]
  BY <1>6, <1>8
<1> DEFINE new == [version |-> Current, columns |-> columns]
<1>11. new.version = Current /\ new.columns = columns /\ Current \in Nat
  BY SchemasAssumption
<1>12. schema' = new /\ phase' = Ended(ResolveAll(columns))
  BY <1>2 DEF columns
<1> HIDE DEF new
<1>13. FromJson(new) /\ Accepted(new)
  BY <1>1, <1>2, <1>5, <1>8, <1>9, <1>10, <1>11, PartOpens
<1>14. phase' = "written"
  BY <1>8, <1>11, <1>12, <1>13, EndedIs
<1>15. source' # Nothing
  <2>1. Len(schema.columns) # 0
    BY <1>1, <1>3
  <2>2. schema.columns # <<>>
    BY <1>1, <2>1
  <2>3. source'.columns = schema.columns
    BY <1>4
  <2> QED BY <2>2, <2>3, NothingIs
<1>16. schema' \in [version : Nat, columns : Seq(Columns)]
  BY <1>8, <1>11, <1>12 DEF new
<1>17. source' \in [columns : Seq(Columns), pipelines : Resolved]
  <2>1. opened \in Resolved
    BY DEF TypeOK
  <2> QED BY <1>1, <1>4, <2>1
<1>18. TypeOK'
  BY <1>4, <1>14, <1>16, <1>17, StageNames DEF TypeOK
<1>19. /\ ResolveAll(source'.columns) \notin {Fail, Panic}
       /\ source'.pipelines = ResolveAll(source'.columns)
       /\ \A c \in DOMAIN schema'.columns : \E d \in DOMAIN source'.columns :
            source'.columns[d] = schema'.columns[c]
  <2>1. source'.columns = schema.columns /\ source'.pipelines = opened
    BY <1>4
  <2>2. schema'.columns = columns
    BY <1>11, <1>12
  <2> QED BY <1>5, <1>10, <2>1, <2>2 DEF Accepted
<1>20. FromJson(schema') /\ Accepted(schema')
  BY <1>12, <1>13
<1>21. Histories'
  BY <1>14, <1>15, <1>19, <1>20 DEF Histories, Nothing, Accepted
<1> QED
  BY <1>18, <1>21

(* In every reachable state the variables are typed, and the phases say what *)
(* Histories states of the schema and of the file it was projected from.     *)
THEOREM SchemaStates == Spec => [](TypeOK /\ Histories)
<1>1. Init => TypeOK /\ Histories
  BY InitTyped
<1>2. TypeOK /\ Histories /\ [Next]_vars => TypeOK' /\ Histories'
  <2> SUFFICES ASSUME TypeOK, Histories, [Next]_vars PROVE TypeOK' /\ Histories'
    OBVIOUS
  <2>1. CASE StateColumn
    <3>1. PICK spec \in Specs : AddColumn("caller", spec)
      BY <2>1 DEF StateColumn
    <3> QED BY <3>1, SpecsTyped, AddColumnTyped
  <2>2. CASE GenerateColumn
    <3>1. PICK t \in Shapes :
            /\ Unused # {}
            /\ AddColumn("adapter",
                         ColumnSpec(NewName, Generated[t], DefaultEncodings[Generated[t]]))
      BY <2>2 DEF GenerateColumn
    <3>2. NewName \in STRING
      BY <3>1, NewNameIs
    <3>3. ColumnSpec(NewName, Generated[t], DefaultEncodings[Generated[t]]) \in Columns
      BY <3>2, GeneratedTyped
    <3> QED BY <3>1, <3>3, AddColumnTyped
  <2>3. CASE OptimizeColumn
    <3>1. PICK o \in Optima : /\ Unused # {}
                              /\ AddColumn("optimizer", ColumnSpec(NewName, o.type, o.encodings))
      BY <2>3 DEF OptimizeColumn
    <3>2. NewName \in STRING
      BY <3>1, NewNameIs
    <3>3. ColumnSpec(NewName, o.type, o.encodings) \in Columns
      BY <3>2, OptimaTyped
    <3> QED BY <3>1, <3>3, AddColumnTyped
  <2>4. CASE NewWriter
    BY <2>4, NewWriterTyped
  <2>5. CASE OpenReader
    BY <2>5, OpenReaderTyped
  <2>6. CASE Project
    BY <2>6, ProjectTyped
  <2>7. CASE UNCHANGED vars
    <3>1. /\ phase' = phase /\ origin' = origin /\ schema' = schema /\ pipelines' = pipelines
          /\ opened' = opened /\ source' = source
      BY <2>7 DEF vars
    <3>2. TypeOK'
      BY <3>1 DEF TypeOK
    <3>3. Histories'
      BY <3>1 DEF Histories, Nothing, Accepted
    <3> QED BY <3>2, <3>3
  <2> QED BY <2>1, <2>2, <2>3, <2>4, <2>5, <2>6, <2>7 DEF Next
<1> QED
  BY <1>1, <1>2, PTL DEF Spec

-----------------------------------------------------------------------------
(* What follows for readers and writers                                     *)

(* A file whose schema a writer accepted can be opened, with the pipelines  *)
(* it was written with, and so can every projection of it; except with      *)
(* another version and with a schema that the JSON parser has no room for.  *)
LEMMA StatesOpen ==
  ASSUME TypeOK, Histories
  PROVE  WrittenOpens
<1>1. ASSUME phase = "unreadable"
      PROVE  source = Nothing /\ (schema.version # Current \/ ~Parses(schema))
  <2>1. source = Nothing /\ ~FromJson(schema) /\ Accepted(schema)
    BY <1>1 DEF Histories
  <2> QED BY <2>1 DEF FromJson, Accepted
<1>2. ASSUME phase = "open", source = Nothing PROVE opened = pipelines
  BY <1>2 DEF Histories
<1>3. ASSUME phase = "open", source # Nothing, NEW c \in DOMAIN schema.columns
      PROVE  \E d \in DOMAIN source.columns :
               /\ source.columns[d] = schema.columns[c]
               /\ source.pipelines[d] = opened[c]
  <2>1. /\ Accepted(schema) /\ opened = ResolveAll(schema.columns)
        /\ source.pipelines = ResolveAll(source.columns)
        /\ ResolveAll(source.columns) \notin {Fail, Panic}
        /\ \E d \in DOMAIN source.columns : source.columns[d] = schema.columns[c]
    BY <1>3 DEF Histories
  <2>2. PICK d \in DOMAIN source.columns : source.columns[d] = schema.columns[c]
    BY <2>1
  <2>3. schema.columns \in Seq(Columns) /\ source.columns \in Seq(Columns)
    BY DEF TypeOK
  <2>4. c \in 1..Len(schema.columns) /\ d \in 1..Len(source.columns)
    BY <2>3
  <2>5. opened[c] = BuiltColumn(schema.columns[c])
    BY <2>1, <2>3, <2>4, ResolveAllIs DEF Accepted
  <2>6. source.pipelines[d] = BuiltColumn(source.columns[d])
    BY <2>1, <2>3, <2>4, ResolveAllIs
  <2> QED BY <2>2, <2>5, <2>6
<1> QED
  BY <1>1, <1>2, <1>3 DEF WrittenOpens

(* A file that a writer accepted opens with the pipelines it was written    *)
(* with, and so does every projection of it; what stays unreadable has      *)
(* another version or is nested deeper than the JSON parser goes.           *)
THEOREM WrittenOpensHolds == Spec => []WrittenOpens
<1>1. TypeOK /\ Histories => WrittenOpens
  BY StatesOpen
<1> QED
  BY <1>1, SchemaStates, PTL

(* Slices of nested encodings never leave their range, and a writer or a    *)
(* reader has for every physical field of every column one pipeline that    *)
(* takes the field's type and ends in bytes.                                *)
LEMMA AcceptedFits ==
  ASSUME NEW s, s.columns \in Seq(Columns), Accepted(s), NEW c \in DOMAIN s.columns
  PROVE  /\ Len(ResolveAll(s.columns)[c]) = Len(PhysicalFields[s.columns[c].type])
         /\ \A i \in DOMAIN PhysicalFields[s.columns[c].type] :
              /\ ResolveAll(s.columns)[c][i].input = PhysicalFields[s.columns[c].type][i].type
              /\ OutputType(PhysicalFields[s.columns[c].type][i].type,
                            ResolveAll(s.columns)[c][i].stages) = "bytes"
<1> DEFINE t == s.columns[c].type
           e == s.columns[c].encodings
           fields == PhysicalFields[t]
           b == ResolveAll(s.columns)[c]
<1>1. c \in 1..Len(s.columns)
  OBVIOUS
<1>2. /\ t \in Types /\ e \in Encodings /\ Fits(t, e)
  BY <1>1, ValidResolves DEF Accepted
<1>3. /\ b = BuildPipelines[t][e] /\ BuildPipelines[t][e] \notin {Fail, Panic}
      /\ ResolveAll(s.columns) \in Resolved /\ Len(ResolveAll(s.columns)) = Len(s.columns)
  <2>1. ResolveAll(s.columns) \notin {Fail, Panic}
    BY DEF Accepted
  <2>2. b = BuiltColumn(s.columns[c]) /\ BuiltColumn(s.columns[c]) \notin {Fail, Panic}
    BY <1>1, <2>1, ResolveAllIs
  <2>3. ResolveAll(s.columns) \in Resolved /\ Len(ResolveAll(s.columns)) = Len(s.columns)
    BY <2>1, ResolveAllIs
  <2> QED BY <2>2, <2>3 DEF BuiltColumn
<1>4. b \in ToSet(ResolveAll(s.columns))
  BY <1>1, <1>3 DEF ToSet, Resolved
<1>5. \A i \in DOMAIN b : OutputType(b[i].input, b[i].stages) = "bytes"
  BY <1>4 DEF Accepted, EndInBytes
<1> HIDE DEF t, e, b
<1>6. b \in Seq(Pipeline) /\ Paired(b, fields, Takes)
  BY <1>2, <1>3 DEF Fits
<1>7. fields \in Seq(Physical)
  BY <1>2, PhysicalFieldsIs
<1> HIDE DEF fields
<1>8. Len(b) = Len(fields) /\ \A i \in 1..Len(b) : b[i].input = fields[i].type
  BY <1>6 DEF Paired, Takes
<1>9. DOMAIN fields = 1..Len(fields) /\ DOMAIN b = 1..Len(b)
  BY <1>6, <1>7
<1>10. \A i \in DOMAIN fields : /\ b[i].input = fields[i].type
                                /\ OutputType(fields[i].type, b[i].stages) = "bytes"
  BY <1>5, <1>8, <1>9
<1> QED
  BY <1>8, <1>10 DEF t, b, fields

(* What the states say of the pipelines.                                    *)
LEMMA StatesFit ==
  ASSUME TypeOK, Histories
  PROVE  PipelinesFitFields
<1>1. schema.columns \in Seq(Columns) /\ phase # "panicked"
  BY DEF TypeOK, Histories
<1>2. phase = "written" /\ source = Nothing =>
        Accepted(schema) /\ pipelines = ResolveAll(schema.columns)
  BY DEF Histories
<1>3. phase = "open" => Accepted(schema) /\ opened = ResolveAll(schema.columns)
  BY DEF Histories
<1> DEFINE Fit(built) ==
             \A c \in DOMAIN schema.columns :
               LET fields == PhysicalFields[schema.columns[c].type]
               IN /\ Len(built[c]) = Len(fields)
                  /\ \A i \in DOMAIN fields :
                       /\ built[c][i].input = fields[i].type
                       /\ OutputType(fields[i].type, built[c][i].stages) = "bytes"
<1>4. Accepted(schema) => Fit(ResolveAll(schema.columns))
  BY <1>1, AcceptedFits
<1>5. phase = "written" /\ source = Nothing => Fit(pipelines)
  <2> HIDE DEF Fit
  <2> QED BY <1>2, <1>4
<1>6. phase = "open" => Fit(opened)
  <2> HIDE DEF Fit
  <2> QED BY <1>3, <1>4
<1> QED
  BY <1>1, <1>5, <1>6 DEF PipelinesFitFields

(* Slices of encodings never leave their range, and a writer and a reader   *)
(* have one pipeline for every physical field, in order, that takes its     *)
(* type and ends in bytes, for types of any height.                         *)
THEOREM PipelinesFitFieldsHolds == Spec => []PipelinesFitFields
<1>1. TypeOK /\ Histories => PipelinesFitFields
  BY StatesFit
<1> QED
  BY <1>1, SchemaStates, PTL

-----------------------------------------------------------------------------
(* What a schema has: own fields and nodes                                  *)

(* The own fields of a node: those before its children, theirs, the rest.   *)
LEMMA OwnFieldsIs ==
  /\ \A t \in Types : OwnFields[t] \in Seq(Physical)
  /\ \A t \in Types :
       /\ Results(OwnFields, t) \in Seq(Seq(Physical))
       /\ Len(Results(OwnFields, t)) = Len(t.kids)
       /\ \A k \in DOMAIN t.kids : Results(OwnFields, t)[k] = OwnFields[t.kids[k]]
       /\ OwnFields[t] = IF t.kind = "struct" THEN <<>>
                         ELSE Before(t.kind) \o FlattenSeq(Results(OwnFields, t)) \o After(t.kind)
<1> DEFINE V == Seq(Physical)
           own(t, r) == IF t.kind = "struct" THEN <<>>
                        ELSE Before(t.kind) \o FlattenSeq(r) \o After(t.kind)
           body(f) == [t \in Types |->
             IF t.kind = "struct" THEN <<>>
             ELSE Before(t.kind) \o FlattenSeq([k \in DOMAIN t.kids |-> f[t.kids[k]]])
                    \o After(t.kind)]
           step == [t \in Types |-> [r \in Seq(V) |-> own(t, r)]]
           W == [t \in Types |-> V]
<1>1. ASSUME NEW t \in Types, NEW r \in Seq(V) PROVE own(t, r) \in V
  <2> DEFINE a == Before(t.kind)
             b == FlattenSeq(r)
             c == After(t.kind)
  <2>1. a \in Seq(Physical) /\ c \in Seq(Physical)
    BY TypeParts, BeforeType
  <2>2. b \in Seq(Physical)
    BY FlattenType
  <2> HIDE DEF a, b, c
  <2>3. a \o b \o c \in Seq(Physical) /\ <<>> \in Seq(Physical)
    BY <2>1, <2>2
  <2>4. own(t, r) = IF t.kind = "struct" THEN <<>> ELSE a \o b \o c
    BY DEF a, b, c
  <2> HIDE DEF own
  <2> QED BY <2>3, <2>4
<1>2. OwnFields = CHOOSE f : f = body(f)
  BY DEF OwnFields
<1>0. ASSUME NEW f PROVE body(f) = [t \in Types |-> own(t, Results(f, t))]
  BY DEF Results
<1> HIDE DEF own, V, body
<1>3. W \in [Types -> SUBSET V] /\ \A t \in Types : W[t] = V
  OBVIOUS
<1>4. \A t \in Types : \A r \in Seq(V) : step[t][r] = own(t, r)
  OBVIOUS
<1> HIDE DEF W, step
<1>5. Respects(step, V, W)
  BY <1>1, <1>3, <1>4 DEF Respects
<1>6. PICK f \in [Types -> V] : Follows(f, step, Types)
  BY <1>3, <1>5, TreeFold
<1>7. f = body(f)
  <2>1. ASSUME NEW t \in Types PROVE f[t] = body(f)[t]
    <3>1. Results(f, t) \in Seq(V)
      BY KidTypes, ResultsType
    <3> QED BY <1>0, <1>4, <1>6, <3>1 DEF Follows
  <2> QED BY <1>0, <2>1
<1>8. OwnFields = [t \in Types |-> own(t, Results(OwnFields, t))]
  BY <1>0, <1>2, <1>7
<1>9. \A t \in Types : OwnFields[t] \in V /\ Results(OwnFields, t) \in Seq(V)
  <2>1. \A t \in Types : Results(OwnFields, t) \in Seq(V)
                          => OwnFields[t] = step[t][Results(OwnFields, t)]
    BY <1>4, <1>8
  <2>2. \A t \in Types : OwnFields[t] \in V /\ OwnFields[t] \in W[t]
                          /\ Results(OwnFields, t) \in Seq(V)
    BY <1>3, <1>5, <2>1, FoldType
  <2> QED BY <2>2
<1>10. ASSUME NEW t \in Types
       PROVE  /\ Len(Results(OwnFields, t)) = Len(t.kids)
              /\ \A k \in DOMAIN t.kids : Results(OwnFields, t)[k] = OwnFields[t.kids[k]]
  <2>1. \A k \in DOMAIN t.kids : OwnFields[t.kids[k]] \in V
    BY <1>9, KidTypes
  <2>2. Len(Results(OwnFields, t)) = Len(t.kids)
    BY <2>1, ResultsType
  <2>3. \A k \in DOMAIN t.kids : Results(OwnFields, t)[k] = OwnFields[t.kids[k]]
    BY DEF Results
  <2> QED BY <2>2, <2>3
<1> QED
  BY <1>8, <1>9, <1>10 DEF own, V

(* There is an encoding for each of them.                                   *)
LEMMA OwnFieldsLen ==
  ASSUME NEW t \in Types
  PROVE  /\ Len(OwnFields[t]) = EncodingsLen[t]
         /\ \A k \in 1..Len(t.kids) :
              Taken(t, k - 1) = Len(Before(t.kind)) + Len(Flat(Results(OwnFields, t), k - 1))
<1> DEFINE KidLens(u) == \A j \in 1..Len(u.kids) :
                           Len(OwnFields[u.kids[j]]) = EncodingsLen[u.kids[j]]
<1>1. ASSUME NEW u \in Types, KidLens(u)
      PROVE  /\ \A k \in 0..Len(u.kids) :
                  Len(Flat(Results(OwnFields, u), k)) = Summed(SubSeq(Lens(u), 1, k))
             /\ Len(OwnFields[u]) = EncodingsLen[u]
  <2> DEFINE r == Results(OwnFields, u)
             n == Len(u.kids)
  <2>1. n \in Nat /\ DOMAIN u.kids = 1..n
    BY KidTypes
  <2>2. /\ r \in Seq(Seq(Physical)) /\ Len(r) = n
        /\ \A k \in 1..n : r[k] = OwnFields[u.kids[k]]
    BY <2>1, OwnFieldsIs
  <2>3. /\ Lens(u) \in Seq(Nat) /\ Len(Lens(u)) = n
        /\ \A k \in 1..n : Lens(u)[k] = EncodingsLen[u.kids[k]]
    BY <2>1, LensType
  <2>4. \A k \in 1..n : Lens(u)[k] = Len(r[k])
    BY <1>1, <2>2, <2>3
  <2> HIDE DEF r, n
  <2>5. \A k \in 0..n : Len(Flat(r, k)) = Summed(SubSeq(Lens(u), 1, k))
    BY <2>2, <2>3, <2>4, FlatLengths
  <2>6. CASE u.kind = "struct"
    <3>1. OwnFields[u] = <<>> /\ EncodingsLen[u] = 0
      BY <2>6, OwnFieldsIs, EncodingsLenIs
    <3> QED BY <2>5, <3>1 DEF r, n
  <2>7. CASE u.kind # "struct"
    <3> DEFINE a == Before(u.kind)
               b == FlattenSeq(r)
               c == After(u.kind)
    <3>1. OwnFields[u] = a \o b \o c
      BY <2>7, OwnFieldsIs DEF r
    <3>2. a \in Seq(Physical) /\ c \in Seq(Physical)
      BY TypeParts, BeforeType
    <3>3. b \in Seq(Physical)
      BY <2>2, FlattenType
    <3>4. Len(b) = Summed(SubSeq(Lens(u), 1, n))
      <4>1. Flat(r, Len(r)) = b
        BY <2>2, FlatWhole
      <4>2. n \in 0..n
        BY <2>1
      <4> QED BY <2>2, <2>5, <4>1, <4>2
    <3>5. EncodingsLen[u] = (Len(a) + Len(b)) + Len(c)
      <4>1. EncodingsLen[u] = Taken(u, Len(u.kids)) + Len(After(u.kind))
        BY <2>7, TakenIs
      <4> QED BY <3>4, <4>1 DEF Taken, n
    <3> HIDE DEF a, b, c
    <3>6. Len(a \o b \o c) = (Len(a) + Len(b)) + Len(c)
      BY <3>2, <3>3
    <3> QED BY <2>5, <3>1, <3>5, <3>6 DEF r, n
  <2> QED BY <2>6, <2>7
<1> DEFINE S == {u \in Types : Len(OwnFields[u]) = EncodingsLen[u]}
<1>2. \A u \in Types : (\A k \in DOMAIN u.kids : u.kids[k] \in S) => u \in S
  <2> SUFFICES ASSUME NEW u \in Types, \A k \in DOMAIN u.kids : u.kids[k] \in S
               PROVE  u \in S
    OBVIOUS
  <2>1. KidLens(u)
    BY KidTypes
  <2> HIDE DEF KidLens
  <2> QED BY <1>1, <2>1
<1>3. Types \subseteq S
  <2> HIDE DEF S
  <2> QED BY <1>2, TypeInduction
<1>4. KidLens(t)
  BY <1>3, KidTypes
<1>5. Len(OwnFields[t]) = EncodingsLen[t]
  BY <1>3
<1>6. \A k \in 0..Len(t.kids) :
        Len(Flat(Results(OwnFields, t), k)) = Summed(SubSeq(Lens(t), 1, k))
  <2> HIDE DEF KidLens
  <2> QED BY <1>1, <1>4
<1>7. ASSUME NEW k \in 1..Len(t.kids)
      PROVE  Taken(t, k - 1) = Len(Before(t.kind)) + Len(Flat(Results(OwnFields, t), k - 1))
  <2>1. k - 1 \in 0..Len(t.kids)
    BY KidTypes
  <2> QED BY <1>6, <2>1 DEF Taken
<1> QED
  BY <1>5, <1>7

(* A node, and those of its children one deeper.                            *)
LEMMA NodesIs ==
  /\ \A t \in Types : \A d \in Nat : Nodes[t][d] \subseteq [node : Types, depth : Nat]
  /\ \A t \in Types : \A d \in Nat :
       Nodes[t][d] = {[node |-> t, depth |-> d]}
                       \cup UNION {Nodes[t.kids[k]][d + 1] : k \in DOMAIN t.kids}
<1> DEFINE V == [Nat -> SUBSET [node : Types, depth : Nat]]
           own(t, r) == [depth \in Nat |->
                           {[node |-> t, depth |-> depth]}
                             \cup UNION {r[k][depth + 1] : k \in DOMAIN t.kids}]
           body(f) == [t \in Types |->
             [depth \in Nat |->
                {[node |-> t, depth |-> depth]}
                  \cup UNION {f[t.kids[k]][depth + 1] : k \in DOMAIN t.kids}]]
           step == [t \in Types |-> [r \in Seq(V) |-> own(t, r)]]
           W == [t \in Types |-> V]
<1>1. ASSUME NEW t \in Types, NEW r \in Seq(V), Len(r) = Len(t.kids) PROVE own(t, r) \in V
  <2> SUFFICES ASSUME NEW d \in Nat
               PROVE  {[node |-> t, depth |-> d]} \cup UNION {r[k][d + 1] : k \in DOMAIN t.kids}
                        \subseteq [node : Types, depth : Nat]
    OBVIOUS
  <2>1. DOMAIN t.kids = 1..Len(r)
    BY <1>1, KidTypes
  <2>2. \A k \in 1..Len(r) : r[k] \in V
    OBVIOUS
  <2>3. \A k \in 1..Len(r) : r[k][d + 1] \subseteq [node : Types, depth : Nat]
    BY <2>2
  <2> QED BY <2>1, <2>3
<1>2. Nodes = CHOOSE f : f = body(f)
  BY DEF Nodes
<1>0. ASSUME NEW f PROVE body(f) = [t \in Types |-> own(t, Results(f, t))]
  <2>1. ASSUME NEW t
        PROVE  own(t, Results(f, t))
                 = [depth \in Nat |->
                      {[node |-> t, depth |-> depth]}
                        \cup UNION {f[t.kids[k]][depth + 1] : k \in DOMAIN t.kids}]
    <3>1. \A k \in DOMAIN t.kids : Results(f, t)[k] = f[t.kids[k]]
      BY DEF Results
    <3> QED BY <3>1
  <2> QED BY <2>1
<1> HIDE DEF own, V, body
<1>3. W \in [Types -> SUBSET V] /\ \A t \in Types : W[t] = V
  OBVIOUS
<1>4. \A t \in Types : \A r \in Seq(V) : step[t][r] = own(t, r)
  OBVIOUS
<1> HIDE DEF W, step
<1>5. Respects(step, V, W)
  BY <1>1, <1>3, <1>4 DEF Respects
<1>6. PICK f \in [Types -> V] : Follows(f, step, Types)
  BY <1>3, <1>5, TreeFold
<1>7. f = body(f)
  <2>1. ASSUME NEW t \in Types PROVE f[t] = body(f)[t]
    <3>1. Results(f, t) \in Seq(V)
      BY KidTypes, ResultsType
    <3> QED BY <1>0, <1>4, <1>6, <3>1 DEF Follows
  <2> QED BY <1>0, <2>1
<1>8. Nodes = [t \in Types |-> own(t, Results(Nodes, t))]
  BY <1>0, <1>2, <1>7
<1>9. \A t \in Types : Nodes[t] \in V
  <2>1. \A t \in Types : Results(Nodes, t) \in Seq(V)
                          => Nodes[t] = step[t][Results(Nodes, t)]
    BY <1>4, <1>8
  <2> QED BY <1>3, <1>5, <2>1, FoldType
<1>10. ASSUME NEW t \in Types, NEW d \in Nat
       PROVE  Nodes[t][d] = {[node |-> t, depth |-> d]}
                              \cup UNION {Nodes[t.kids[k]][d + 1] : k \in DOMAIN t.kids}
  <2>1. Nodes[t] = own(t, Results(Nodes, t))
    BY <1>8
  <2>2. \A k \in DOMAIN t.kids : Results(Nodes, t)[k] = Nodes[t.kids[k]]
    BY DEF Results
  <2> QED BY <2>1, <2>2 DEF own
<1>11. \A t \in Types : \A d \in Nat : Nodes[t][d] \subseteq [node : Types, depth : Nat]
  BY <1>9 DEF V
<1> QED
  BY <1>10, <1>11

-----------------------------------------------------------------------------
(* Valid nodes                                                              *)

(* Names are distinct if there are as many of them as places.               *)
LEMMA DistinctIs ==
  ASSUME NEW T, NEW names \in Seq(T)
  PROVE  /\ Cardinality(ToSet(names)) \in Nat /\ Len(names) \in Nat
         /\ Distinct(names) <=> ~(Cardinality(ToSet(names)) < Len(names))
<1> DEFINE n == Len(names)
           image == ToSet(names)
<1>1. n \in Nat /\ DOMAIN names = 1..n /\ names \in [1..n -> T]
  OBVIOUS
<1>2. \A x : x \in image <=> \E i \in 1..n : names[i] = x
  BY <1>1 DEF ToSet
<1> HIDE DEF image
<1>3. names \in [1..n -> image]
  BY <1>1, <1>2
<1>4. names \in Surjection(1..n, image)
  BY <1>2, <1>3 DEF Surjection
<1>5. IsFiniteSet(1..n) /\ Cardinality(1..n) = n
  <2>1. 1 \in Int /\ n \in Int /\ (1 > n => n = 0)
    BY <1>1
  <2> HIDE DEF n
  <2>2. IsFiniteSet(1..n) /\ Cardinality(1..n) = IF 1 > n THEN 0 ELSE n - 1 + 1
    BY <2>1, FS_Interval
  <2> QED BY <2>1, <2>2
<1> HIDE DEF n
<1>6. /\ IsFiniteSet(image) /\ Cardinality(image) <= n
      /\ Cardinality(image) = n <=> names \in Injection(1..n, image)
  BY <1>4, <1>5, FS_Surjection
<1>7. Cardinality(image) \in Nat
  BY <1>6, FS_CardinalityType
<1>8. names \in Injection(1..n, image) <=> Distinct(names)
  BY <1>1, <1>3 DEF Injection, IsInjective, Distinct
<1> QED
  BY <1>1, <1>6, <1>7, <1>8 DEF n, image

(* validate_logical_type refuses what UnfitNode names, what is too deep, and *)
(* fields that validate_field_spec refuses.                                  *)
LEMMA ValidNodeIs ==
  ASSUME NEW t \in Types, NEW depth \in Nat
  PROVE  ValidNode(t, depth)
           <=> /\ ~(t.kind \in Containers /\ depth >= MaxDepth)
               /\ ~UnfitNode(t)
               /\ t.kind = "struct" => \A k \in DOMAIN t.kids : ValidSpec(Fields(t)[k])
<1>1. /\ MaxDepth \in Nat /\ MaxVariants \in Nat
  BY SchemasAssumption
<1>2. /\ Len(t.kids) \in Nat /\ DOMAIN t.kids = 1..Len(t.kids)
      /\ \A k \in DOMAIN t.kids : t.kids[k] \in Types
  BY KidTypes
<1>3. t.names \in Seq(STRING) /\ t.kids \in Seq(Types)
  BY TypeParts
<1>4. Distinct(t.names) <=> ~(Cardinality(ToSet(t.names)) < Len(t.names))
  BY <1>3, DistinctIs
<1>5. (t.kind \in Containers => depth < MaxDepth)
        <=> ~(t.kind \in Containers /\ depth >= MaxDepth)
  BY <1>1
<1>6. CASE t.kind = "map"
  <2>1. Len(t.kids) = 2
    BY <1>6, Shape
  <2>2. t.kids[1] \in Types
    BY <1>2, <2>1
  <2>3. t.kids[1].kind \in DataTypes \cup Semantic \cup Containers
    BY <2>2, TypeParts
  <2>4. DataTypes \cap (Semantic \cup Containers) = {} /\ Semantic \cap Containers = {}
    BY Kinds
  <2>5. t.kids[1].kind \in DataTypes \cup {"utf8", "binary"}
          <=> ~(t.kids[1].kind \in Containers \cup {"decimal128", "date32", "date64", "datetime"})
    <3>1. \A x \in DataTypes \cup Semantic \cup Containers :
            x \in DataTypes \cup {"utf8", "binary"}
              <=> ~(x \in Containers \cup {"decimal128", "date32", "date64", "datetime"})
      <4>1. \A x \in Semantic : x \in {"utf8", "binary"}
                                 <=> x \notin {"decimal128", "date32", "date64", "datetime"}
        BY DEF Semantic
      <4>2. {"utf8", "binary"} \subseteq Semantic
            /\ {"decimal128", "date32", "date64", "datetime"} \subseteq Semantic
        BY DEF Semantic
      <4> QED BY <2>4, <4>1, <4>2
    <3> QED BY <2>3, <3>1
  <2>6. UnfitNode(t) <=> t.kids[1].kind \in Containers \cup {"decimal128", "date32",
                                                              "date64", "datetime"}
    BY <1>6 DEF UnfitNode
  <2>7. ValidNode(t, depth) <=> /\ t.kind \in Containers => depth < MaxDepth
                                /\ t.kids[1].kind \in DataTypes \cup {"utf8", "binary"}
    BY <1>6 DEF ValidNode
  <2> QED BY <1>5, <1>6, <2>5, <2>6, <2>7
<1>7. CASE t.kind = "union"
  <2>1. UnfitNode(t) <=> \/ t.kids = <<>> \/ Len(t.kids) > MaxVariants \/ "" \in ToSet(t.names)
                         \/ Cardinality(ToSet(t.names)) < Len(t.names)
    BY <1>7 DEF UnfitNode
  <2>2. ValidNode(t, depth) <=> /\ t.kind \in Containers => depth < MaxDepth
                                /\ Len(t.kids) \in 1..MaxVariants
                                /\ \A k \in DOMAIN t.names : t.names[k] # ""
                                /\ Distinct(t.names)
    BY <1>7 DEF ValidNode
  <2>3. Len(t.kids) \in 1..MaxVariants <=> ~(t.kids = <<>> \/ Len(t.kids) > MaxVariants)
    <3>1. t.kids = <<>> <=> Len(t.kids) = 0
      BY <1>3
    <3> QED BY <1>1, <1>2, <3>1
  <2>4. (\A k \in DOMAIN t.names : t.names[k] # "") <=> ~("" \in ToSet(t.names))
    BY DEF ToSet
  <2> QED BY <1>4, <1>5, <1>7, <2>1, <2>2, <2>3, <2>4
<1>8. CASE t.kind = "struct"
  <2>1. UnfitNode(t) <=> Cardinality(ToSet(t.names)) < Len(t.names)
    BY <1>8 DEF UnfitNode
  <2>2. ValidNode(t, depth) <=> /\ t.kind \in Containers => depth < MaxDepth
                                /\ Distinct(t.names)
                                /\ \A k \in DOMAIN t.kids : ValidSpec(Fields(t)[k])
    BY <1>8 DEF ValidNode
  <2> QED BY <1>4, <1>5, <1>8, <2>1, <2>2
<1>9. CASE t.kind \notin {"map", "union", "struct"}
  <2>1. ~UnfitNode(t)
    BY <1>9 DEF UnfitNode
  <2>2. ValidNode(t, depth) <=> (t.kind \in Containers => depth < MaxDepth)
    BY <1>9 DEF ValidNode
  <2> QED BY <1>5, <1>9, <2>1, <2>2
<1> QED
  BY <1>6, <1>7, <1>8, <1>9

(* A type is valid if all its nodes are.                                    *)
LEMMA ValidNodes ==
  ASSUME NEW t \in Types, NEW d \in Nat
  PROVE  ValidType[t][d] <=> \A n \in Nodes[t][d] : ValidNode(n.node, n.depth)
<1> DEFINE All(u, e) == \A n \in Nodes[u][e] : ValidNode(n.node, n.depth)
           S == {u \in Types : \A e \in Nat : ValidType[u][e] <=> All(u, e)}
<1>1. ASSUME NEW u \in Types, \A k \in DOMAIN u.kids : u.kids[k] \in S, NEW e \in Nat
      PROVE  ValidType[u][e] <=> All(u, e)
  <2>1. Nodes[u][e] = {[node |-> u, depth |-> e]}
                        \cup UNION {Nodes[u.kids[k]][e + 1] : k \in DOMAIN u.kids}
    BY NodesIs
  <2>2. All(u, e) <=> ValidNode(u, e) /\ \A k \in DOMAIN u.kids : All(u.kids[k], e + 1)
    <3>1. /\ [node |-> u, depth |-> e].node = u /\ [node |-> u, depth |-> e].depth = e
          /\ [node |-> u, depth |-> e] \in Nodes[u][e]
      BY <2>1
    <3>2. ASSUME All(u, e)
          PROVE  ValidNode(u, e) /\ \A k \in DOMAIN u.kids : All(u.kids[k], e + 1)
      <4>1. ValidNode(u, e)
        BY <3>1, <3>2
      <4>2. \A k \in DOMAIN u.kids : All(u.kids[k], e + 1)
        BY <2>1, <3>2
      <4> QED BY <4>1, <4>2
    <3>3. ASSUME ValidNode(u, e), \A k \in DOMAIN u.kids : All(u.kids[k], e + 1),
                 NEW n \in Nodes[u][e]
          PROVE  ValidNode(n.node, n.depth)
      <4>1. CASE n = [node |-> u, depth |-> e]
        BY <3>3, <4>1
      <4>2. CASE \E k \in DOMAIN u.kids : n \in Nodes[u.kids[k]][e + 1]
        BY <3>3, <4>2
      <4> QED BY <2>1, <4>1, <4>2
    <3> QED BY <3>2, <3>3
  <2>3. \A k \in DOMAIN u.kids : ValidType[u.kids[k]][e + 1] <=> All(u.kids[k], e + 1)
    BY <1>1
  <2> HIDE DEF All
  <2>4. ValidType[u][e] <=> ValidNode(u, e) /\ \A k \in DOMAIN u.kids : ValidType[u.kids[k]][e + 1]
    BY ValidTypeIs
  <2> QED BY <2>2, <2>3, <2>4
<1>2. \A u \in Types : (\A k \in DOMAIN u.kids : u.kids[k] \in S) => u \in S
  <2> HIDE DEF All
  <2> QED BY <1>1
<1>3. Types \subseteq S
  <2> HIDE DEF S
  <2> QED BY <1>2, TypeInduction
<1> QED
  BY <1>3

-----------------------------------------------------------------------------
(* Encodings that serve fields                                              *)

\* The encodings after the first so many serve the fields.
ServesAt(e, start, fields) == \A j \in 1..Len(fields) : Serves(e[start + j], fields[j].type)

(* They serve fields in two parts if they serve each.                       *)
LEMMA ServesConcat ==
  ASSUME NEW e, NEW start \in Nat, NEW a \in Seq(Physical), NEW b \in Seq(Physical)
  PROVE  ServesAt(e, start, a \o b)
           <=> ServesAt(e, start, a) /\ ServesAt(e, start + Len(a), b)
<1>1. /\ Len(a) \in Nat /\ Len(b) \in Nat /\ Len(a \o b) = Len(a) + Len(b)
      /\ \A j \in 1..Len(a) : (a \o b)[j] = a[j]
      /\ \A j \in 1..Len(b) : (a \o b)[Len(a) + j] = b[j]
  BY ConcatElements
<1>2. ASSUME ServesAt(e, start, a \o b) PROVE ServesAt(e, start, a)
  <2>1. \A j \in 1..Len(a) : j \in 1..Len(a \o b)
    BY <1>1
  <2> QED BY <1>1, <1>2, <2>1 DEF ServesAt
<1>3. ASSUME ServesAt(e, start, a \o b), NEW j \in 1..Len(b)
      PROVE  Serves(e[(start + Len(a)) + j], b[j].type)
  <2>1. Len(a) + j \in 1..Len(a \o b) /\ start + (Len(a) + j) = (start + Len(a)) + j
    BY <1>1
  <2>2. Serves(e[start + (Len(a) + j)], (a \o b)[Len(a) + j].type)
    BY <1>3, <2>1 DEF ServesAt
  <2> QED BY <1>1, <2>1, <2>2
<1>4. ASSUME ServesAt(e, start, a), ServesAt(e, start + Len(a), b), NEW j \in 1..Len(a \o b)
      PROVE  Serves(e[start + j], (a \o b)[j].type)
  <2>1. CASE j <= Len(a)
    <3>1. j \in 1..Len(a)
      BY <1>1, <2>1
    <3> QED BY <1>1, <1>4, <3>1 DEF ServesAt
  <2>2. CASE j > Len(a)
    <3> DEFINE i == j - Len(a)
    <3>1. i \in 1..Len(b) /\ Len(a) + i = j /\ (start + Len(a)) + i = start + j
      BY <1>1, <2>2
    <3>2. Serves(e[(start + Len(a)) + i], b[i].type)
      BY <1>4, <3>1 DEF ServesAt
    <3>3. (a \o b)[Len(a) + i] = b[i]
      BY <1>1, <3>1
    <3> QED BY <3>1, <3>2, <3>3
  <2> QED BY <1>1, <2>1, <2>2
<1> QED
  BY <1>2, <1>3, <1>4 DEF ServesAt

(* They serve fields in many parts if they serve each.                      *)
LEMMA ServesFlat ==
  ASSUME NEW e, NEW start \in Nat, NEW ss \in Seq(Seq(Physical))
  PROVE  ServesAt(e, start, FlattenSeq(ss))
           <=> \A k \in 1..Len(ss) : ServesAt(e, start + Len(Flat(ss, k - 1)), ss[k])
<1> DEFINE flat == FlattenSeq(ss)
           before(k) == Len(Flat(ss, k - 1))
<1>1. ASSUME NEW k \in 1..Len(ss), NEW j \in 1..Len(ss[k])
      PROVE  /\ before(k) \in Nat /\ before(k) + j \in 1..Len(flat)
             /\ flat[before(k) + j] = ss[k][j]
             /\ (start + before(k)) + j = start + (before(k) + j)
  <2>1. /\ before(k) \in Nat /\ before(k) + j \in 1..Len(flat)
        /\ flat[before(k) + j] = ss[k][j]
    BY FlatAt
  <2>2. ss[k] \in Seq(Physical)
    OBVIOUS
  <2>3. j \in Nat
    BY <2>2
  <2> HIDE DEF before, flat
  <2> QED BY <2>1, <2>3
<1>2. ASSUME NEW i \in 1..Len(flat)
      PROVE  \E k \in 1..Len(ss) : \E j \in 1..Len(ss[k]) : i = before(k) + j
  BY FlatIndex
<1> HIDE DEF flat, before
<1>3. ASSUME ServesAt(e, start, flat), NEW k \in 1..Len(ss), NEW j \in 1..Len(ss[k])
      PROVE  Serves(e[(start + before(k)) + j], ss[k][j].type)
  BY <1>1, <1>3 DEF ServesAt
<1>4. ASSUME \A k \in 1..Len(ss) : ServesAt(e, start + before(k), ss[k]), NEW i \in 1..Len(flat)
      PROVE  Serves(e[start + i], flat[i].type)
  <2>1. PICK k \in 1..Len(ss) : \E j \in 1..Len(ss[k]) : i = before(k) + j
    BY <1>2
  <2>2. PICK j \in 1..Len(ss[k]) : i = before(k) + j
    BY <2>1
  <2>3. Serves(e[(start + before(k)) + j], ss[k][j].type)
    BY <1>4 DEF ServesAt
  <2> QED BY <1>1, <2>2, <2>3
<1>5. ServesAt(e, start, flat) <=> \A k \in 1..Len(ss) : ServesAt(e, start + before(k), ss[k])
  BY <1>3, <1>4 DEF ServesAt
<1> QED
  BY <1>5 DEF flat, before

(* A slice serves what the encodings serve from there.                      *)
LEMMA ServesSlice ==
  ASSUME NEW e \in Encodings, NEW start \in Nat, NEW fields \in Seq(Physical),
         start + Len(fields) <= Len(e)
  PROVE  Serving(SubSeq(e, start + 1, start + Len(fields)), fields)
           <=> ServesAt(e, start, fields)
<1> DEFINE n == Len(fields)
           slice == SubSeq(e, start + 1, start + n)
<1>1. n \in Nat /\ start + n <= Len(e) /\ e \in Seq(Seq(Coding))
  BY DEF Encodings
<1> HIDE DEF n
<1>2. slice \in Seq(Seq(Coding)) /\ Len(slice) = n
      /\ \A i \in 1..n : slice[i] = e[start + i]
  BY <1>1, SliceIs
<1> HIDE DEF slice
<1>3. Serving(slice, fields) <=> \A i \in 1..n : Serves(slice[i], fields[i].type)
  BY <1>2 DEF Serving, Encodings, n
<1>4. ServesAt(e, start, fields) <=> \A i \in 1..n : Serves(slice[i], fields[i].type)
  BY <1>2 DEF ServesAt, n
<1> QED
  BY <1>3, <1>4 DEF slice, n

(* A node's encodings serve its own fields if the parts do.                 *)
LEMMA ServingParts ==
  ASSUME NEW t \in Types, t.kind # "struct", NEW e \in Encodings, RightLens(t, e)
  PROVE  Serving(e, OwnFields[t])
           <=> /\ ServesAt(e, 0, Before(t.kind))
               /\ \A k \in DOMAIN t.kids : Serving(KidEncodings(t, e, k), OwnFields[t.kids[k]])
               /\ ServesAt(e, Taken(t, Len(t.kids)), After(t.kind))
<1> DEFINE r == Results(OwnFields, t)
           n == Len(t.kids)
           a == Before(t.kind)
           b == FlattenSeq(r)
           c == After(t.kind)
<1>1. n \in Nat /\ DOMAIN t.kids = 1..n
  BY KidTypes
<1>2. /\ r \in Seq(Seq(Physical)) /\ Len(r) = n
      /\ \A k \in 1..n : r[k] = OwnFields[t.kids[k]]
      /\ OwnFields[t] = (a \o b) \o c
  BY <1>1, OwnFieldsIs
<1>3. a \in Seq(Physical) /\ c \in Seq(Physical)
  BY TypeParts, BeforeType
<1>4. b \in Seq(Physical) /\ b = Flat(r, n)
  BY <1>2, FlattenType, FlatWhole
<1>5. Len(a) \in Nat /\ Len(b) \in Nat /\ Len(c) \in Nat
  BY <1>3, <1>4
<1>6. EncodingsLen[t] = Taken(t, n) + Len(c) /\ Len(e) = EncodingsLen[t]
  BY TakenIs DEF RightLens
<1>7. Len(OwnFields[t]) = EncodingsLen[t]
  BY OwnFieldsLen
<1>8. Taken(t, n) = Len(a) + Len(b)
  <2>1. Len((a \o b) \o c) = (Len(a) + Len(b)) + Len(c)
    <3> HIDE DEF a, b, c
    <3> QED BY <1>3, <1>4
  <2>2. Taken(t, n) \in Nat
    BY <1>1, TakenIs
  <2>3. OwnFields[t] = (a \o b) \o c
    BY <1>2
  <2>4. Len((a \o b) \o c) = Taken(t, n) + Len(c)
    BY <1>6, <1>7, <2>3
  <2> DEFINE x == Taken(t, n)
             y == Len((a \o b) \o c)
  <2>5. x \in Nat /\ y = (Len(a) + Len(b)) + Len(c) /\ y = x + Len(c)
    BY <2>1, <2>2, <2>4
  <2> HIDE DEF a, b, c, n, x, y
  <2>6. x = Len(a) + Len(b)
    BY <1>5, <2>5
  <2> QED BY <2>6 DEF x
<1>9. ASSUME NEW k \in 1..n
      PROVE  Serving(KidEncodings(t, e, k), OwnFields[t.kids[k]])
               <=> ServesAt(e, Len(a) + Len(Flat(r, k - 1)), r[k])
  <2> DEFINE x == Taken(t, k - 1)
             fields == OwnFields[t.kids[k]]
  <2>1. x = Len(a) + Len(Flat(r, k - 1))
    <3>1. \A i \in 1..Len(t.kids) :
            Taken(t, i - 1) = Len(Before(t.kind)) + Len(Flat(Results(OwnFields, t), i - 1))
      BY OwnFieldsLen
    <3> QED BY <3>1
  <2>2. x \in Nat /\ Taken(t, k) = x + EncodingsLen[t.kids[k]] /\ Taken(t, k) <= Taken(t, n)
    <3>1. k - 1 \in 0..n /\ k \in 0..n /\ k \in DOMAIN t.kids
      BY <1>1
    <3> QED BY <3>1, TakenIs
  <2>3. t.kids[k] \in Types
    BY <1>1, KidTypes
  <2>4. fields \in Seq(Physical) /\ Len(fields) = EncodingsLen[t.kids[k]]
    BY <2>3, OwnFieldsIs, OwnFieldsLen
  <2>5. KidEncodings(t, e, k) = SubSeq(e, x + 1, Taken(t, k))
    BY DEF KidEncodings
  <2>6. Len(c) \in Nat /\ Len(e) = Taken(t, n) + Len(c)
    BY <1>5, <1>6
  <2>7. Taken(t, n) \in Nat
    BY <1>1, TakenIs
  <2> HIDE DEF a, c, n, x, r, fields
  <2>8. Len(fields) \in Nat
    BY <2>4
  <2>9. Taken(t, k) = x + Len(fields) /\ x + Len(fields) <= Len(e)
    BY <2>2, <2>4, <2>6, <2>7, <2>8
  <2>10. Serving(SubSeq(e, x + 1, x + Len(fields)), fields) <=> ServesAt(e, x, fields)
    BY <2>2, <2>4, <2>9, ServesSlice
  <2>11. r[k] = fields
    BY <1>2 DEF fields
  <2> QED BY <2>1, <2>5, <2>9, <2>10, <2>11 DEF fields
<1>10. Serving(e, OwnFields[t]) <=> ServesAt(e, 0, OwnFields[t])
  <2> DEFINE fields == OwnFields[t]
  <2>1. Len(e) = Len(fields) /\ \A i \in Nat : 0 + i = i
    BY <1>6, <1>7
  <2>2. fields \in Seq(Physical)
    BY OwnFieldsIs
  <2> HIDE DEF fields
  <2>3. \A i \in 1..Len(fields) : 0 + i = i
    BY <2>1, <2>2
  <2>4. Serving(e, fields) <=> ServesAt(e, 0, fields)
    BY <2>1, <2>3 DEF Serving, ServesAt
  <2> QED BY <2>4 DEF fields
<1> HIDE DEF r, n, a, b, c
<1>11. a \o b \in Seq(Physical) /\ Len(a \o b) = Len(a) + Len(b)
       /\ 0 + Len(a) = Len(a) /\ 0 + Len(a \o b) = Len(a) + Len(b)
  BY <1>3, <1>4, <1>5
<1>12. ServesAt(e, 0, (a \o b) \o c)
         <=> ServesAt(e, 0, a \o b) /\ ServesAt(e, Len(a) + Len(b), c)
  <2>1. ServesAt(e, 0, (a \o b) \o c)
          <=> ServesAt(e, 0, a \o b) /\ ServesAt(e, 0 + Len(a \o b), c)
    BY <1>3, <1>11, ServesConcat
  <2> QED BY <1>11, <2>1
<1>13. ServesAt(e, 0, a \o b) <=> ServesAt(e, 0, a) /\ ServesAt(e, Len(a), b)
  <2>1. ServesAt(e, 0, a \o b) <=> ServesAt(e, 0, a) /\ ServesAt(e, 0 + Len(a), b)
    BY <1>3, <1>4, ServesConcat
  <2> QED BY <1>11, <2>1
<1>14. ServesAt(e, Len(a), b)
         <=> \A k \in 1..n : ServesAt(e, Len(a) + Len(Flat(r, k - 1)), r[k])
  BY <1>2, <1>5, ServesFlat DEF b
<1>15. Serving(e, OwnFields[t])
         <=> /\ ServesAt(e, 0, a)
             /\ \A k \in 1..n : Serving(KidEncodings(t, e, k), OwnFields[t.kids[k]])
             /\ ServesAt(e, Taken(t, n), c)
  BY <1>2, <1>8, <1>9, <1>10, <1>12, <1>13, <1>14
<1> QED
  BY <1>1, <1>15 DEF a, c, n

-----------------------------------------------------------------------------
(* Pipelines that are built and end in bytes                                *)

Ends(p) == OutputType(p.input, p.stages) = "bytes"
Good(b) == b \notin {Fail, Panic} /\ \A p \in ToSet(b) : Ends(p)
AllGood(parts) == \A i \in DOMAIN parts : Good(parts[i])

(* The parts end in bytes if what they make together does.                  *)
LEMMA FlattenEnds ==
  ASSUME NEW ss \in Seq(Seq(Pipeline))
  PROVE  (\A p \in ToSet(FlattenSeq(ss)) : Ends(p))
           <=> \A k \in 1..Len(ss) : \A p \in ToSet(ss[k]) : Ends(p)
<1> DEFINE flat == FlattenSeq(ss)
<1>1. flat \in Seq(Pipeline)
  BY FlattenType
<1>2. ASSUME NEW k \in 1..Len(ss), NEW p \in ToSet(ss[k]) PROVE p \in ToSet(flat)
  <2>1. ss[k] \in Seq(Pipeline)
    OBVIOUS
  <2>2. PICK j \in 1..Len(ss[k]) : p = ss[k][j]
    BY <2>1 DEF ToSet
  <2>3. \E n \in 1..Len(flat) : flat[n] = ss[k][j]
    BY FlatHas
  <2> HIDE DEF flat
  <2> QED BY <1>1, <2>2, <2>3 DEF ToSet
<1>3. ASSUME NEW p \in ToSet(flat) PROVE \E k \in 1..Len(ss) : p \in ToSet(ss[k])
  BY <1>3, FlatElements
<1> HIDE DEF flat
<1>4. (\A p \in ToSet(flat) : Ends(p)) <=> \A k \in 1..Len(ss) : \A p \in ToSet(ss[k]) : Ends(p)
  BY <1>2, <1>3
<1> QED
  BY <1>4 DEF flat

(* The parts of a node are good if it is.                                   *)
LEMMA GoodJoined ==
  ASSUME NEW a \in Seq(Outcomes), NEW b \in Seq(Outcomes), NEW c \in Seq(Outcomes)
  PROVE  Good(Joined((a \o b) \o c)) <=> AllGood(a) /\ AllGood(b) /\ AllGood(c)
<1>1. ASSUME NEW s, AllGood(s) PROVE Fine(s)
  BY <1>1 DEF AllGood, Good, Fine
<1>2. Joined((a \o b) \o c) \notin {Fail, Panic} <=> Fine(a) /\ Fine(b) /\ Fine(c)
  BY JoinedThree
<1>3. CASE Fine(a) /\ Fine(b) /\ Fine(c)
  <2>1. a \in Seq(Seq(Pipeline)) /\ b \in Seq(Seq(Pipeline)) /\ c \in Seq(Seq(Pipeline))
    BY <1>3, JoinedThree
  <2>2. Joined((a \o b) \o c) = (FlattenSeq(a) \o FlattenSeq(b)) \o FlattenSeq(c)
    BY <1>3, JoinedParts
  <2> DEFINE fa == FlattenSeq(a)
             fb == FlattenSeq(b)
             fc == FlattenSeq(c)
  <2>3. fa \in Seq(Pipeline) /\ fb \in Seq(Pipeline) /\ fc \in Seq(Pipeline)
    BY <2>1, FlattenType
  <2>4. ASSUME NEW s \in Seq(Seq(Pipeline)), Fine(s)
        PROVE  AllGood(s) <=> \A p \in ToSet(FlattenSeq(s)) : Ends(p)
    <3>1. (\A p \in ToSet(FlattenSeq(s)) : Ends(p))
            <=> \A k \in 1..Len(s) : \A p \in ToSet(s[k]) : Ends(p)
      BY FlattenEnds
    <3>2. DOMAIN s = 1..Len(s)
      OBVIOUS
    <3>3. \A k \in 1..Len(s) : Good(s[k]) <=> \A p \in ToSet(s[k]) : Ends(p)
      BY <2>4, <3>2 DEF Good, Fine
    <3> QED BY <3>1, <3>2, <3>3 DEF AllGood
  <2>5. /\ AllGood(a) <=> \A p \in ToSet(fa) : Ends(p)
        /\ AllGood(b) <=> \A p \in ToSet(fb) : Ends(p)
        /\ AllGood(c) <=> \A p \in ToSet(fc) : Ends(p)
    BY <1>3, <2>1, <2>4
  <2> HIDE DEF fa, fb, fc
  <2>6. ToSet((fa \o fb) \o fc) = (ToSet(fa) \cup ToSet(fb)) \cup ToSet(fc)
    <3>1. fa \o fb \in Seq(Pipeline)
      BY <2>3
    <3>2. ToSet(fa \o fb) = ToSet(fa) \cup ToSet(fb)
      BY <2>3, ToSetConcat
    <3>3. ToSet((fa \o fb) \o fc) = ToSet(fa \o fb) \cup ToSet(fc)
      BY <2>3, <3>1, ToSetConcat
    <3> QED BY <3>2, <3>3
  <2> DEFINE all == (fa \o fb) \o fc
  <2>7. Joined((a \o b) \o c) = all
    BY <2>2 DEF fa, fb, fc
  <2>8. all \notin {Fail, Panic}
    BY <1>2, <1>3, <2>7
  <2> HIDE DEF all
  <2>9. Good(all) <=> \A p \in ToSet(all) : Ends(p)
    BY <2>8 DEF Good
  <2>10. ToSet(all) = (ToSet(fa) \cup ToSet(fb)) \cup ToSet(fc)
    BY <2>6 DEF all
  <2>11. Good(all) <=> AllGood(a) /\ AllGood(b) /\ AllGood(c)
    BY <2>5, <2>9, <2>10
  <2> QED BY <2>7, <2>11
<1>4. CASE ~(Fine(a) /\ Fine(b) /\ Fine(c))
  BY <1>1, <1>2, <1>4 DEF Good
<1> QED
  BY <1>3, <1>4

(* A pipeline is built and ends in bytes if it serves the field.            *)
LEMMA BuiltGood ==
  ASSUME NEW field \in Physical, NEW coders \in Seq(Coding)
  PROVE  Good(Built(field, coders)) <=> Serves(coders, field.type)
<1> DEFINE b == Built(field, coders)
<1>1. Fail \notin Seq(Pipeline) /\ Panic \notin Seq(Pipeline)
  BY SchemasAssumption
<1>2. b \in Outcomes /\ b # Panic /\ (b # Fail => Builds(field.type, coders))
  BY BuiltIs
<1>3. Builds(field.type, coders) =>
        b \in Seq(Pipeline) /\ Len(b) = 1 /\ b[1].input = field.type /\ b[1].stages = coders
  BY BuiltIs
<1> HIDE DEF b
<1>4. CASE Builds(field.type, coders)
  <2>1. b \notin {Fail, Panic}
    BY <1>1, <1>3, <1>4
  <2>2. ToSet(b) = {b[1]}
    <3>1. DOMAIN b = {1}
      BY <1>3, <1>4
    <3> QED BY <3>1 DEF ToSet
  <2>3. Good(b) <=> OutputType(field.type, coders) = "bytes"
    BY <1>3, <1>4, <2>1, <2>2 DEF Good, Ends
  <2>4. Serves(coders, field.type) <=> OutputType(field.type, coders) = "bytes"
    BY <1>4 DEF Serves
  <2> QED BY <2>3, <2>4 DEF b
<1>5. CASE ~Builds(field.type, coders)
  <2>1. ~Good(b)
    BY <1>2, <1>5 DEF Good
  <2>2. ~Serves(coders, field.type)
    BY <1>5 DEF Serves
  <2> QED BY <2>1, <2>2 DEF b
<1> QED
  BY <1>4, <1>5

-----------------------------------------------------------------------------
(* All nodes of a type                                                      *)

NodesIn(t, d, S) == \A n \in Nodes[t][d] : n.node \in S

(* The nodes of a type are itself and those of its children.                *)
LEMMA NodesInIs ==
  ASSUME NEW t \in Types, NEW d \in Nat, NEW S
  PROVE  NodesIn(t, d, S) <=> t \in S /\ \A k \in DOMAIN t.kids : NodesIn(t.kids[k], d + 1, S)
<1>1. Nodes[t][d] = {[node |-> t, depth |-> d]}
                      \cup UNION {Nodes[t.kids[k]][d + 1] : k \in DOMAIN t.kids}
  BY NodesIs
<1>2. [node |-> t, depth |-> d].node = t /\ [node |-> t, depth |-> d] \in Nodes[t][d]
  BY <1>1
<1>3. ASSUME NodesIn(t, d, S)
      PROVE  t \in S /\ \A k \in DOMAIN t.kids : NodesIn(t.kids[k], d + 1, S)
  <2>1. t \in S
    BY <1>2, <1>3 DEF NodesIn
  <2>2. \A k \in DOMAIN t.kids : NodesIn(t.kids[k], d + 1, S)
    BY <1>1, <1>3 DEF NodesIn
  <2> QED BY <2>1, <2>2
<1>4. ASSUME t \in S, \A k \in DOMAIN t.kids : NodesIn(t.kids[k], d + 1, S),
             NEW n \in Nodes[t][d]
      PROVE  n.node \in S
  <2>1. CASE n = [node |-> t, depth |-> d]
    BY <1>4, <2>1
  <2>2. CASE \E k \in DOMAIN t.kids : n \in Nodes[t.kids[k]][d + 1]
    BY <1>4, <2>2 DEF NodesIn
  <2> QED BY <1>1, <2>1, <2>2
<1> QED
  BY <1>3, <1>4 DEF NodesIn

\* The nodes whose own encodings, those of the fields of a struct, serve.
SoundNodes ==
  {u \in Types : u.kind = "struct" =>
     \A k \in DOMAIN u.kids : Serving(u.encodings[k], OwnFields[u.kids[k]])}

(* build_pipelines_for_type succeeds on a valid type, with pipelines that    *)
(* end in bytes, exactly if its encodings and those of all structs in it     *)
(* serve their fields one by one.                                            *)
LEMMA BuildsServed ==
  ASSUME NEW t \in Types, NEW d \in Nat, ValidType[t][d],
         NEW e \in Encodings, Len(e) = EncodingsLen[t]
  PROVE  Good(BuildPipelines[t][e]) <=> Serving(e, OwnFields[t]) /\ NodesIn(t, d, SoundNodes)
<1> DEFINE Agrees(u) == \A x \in Nat : \A enc \in Encodings :
             ValidType[u][x] /\ Len(enc) = EncodingsLen[u] =>
               (Good(BuildPipelines[u][enc])
                  <=> Serving(enc, OwnFields[u]) /\ NodesIn(u, x, SoundNodes))
           S == {u \in Types : Agrees(u)}
<1>1. ASSUME NEW u \in Types, \A k \in DOMAIN u.kids : u.kids[k] \in S,
             NEW x \in Nat, NEW enc \in Encodings, ValidType[u][x], Len(enc) = EncodingsLen[u]
      PROVE  Good(BuildPipelines[u][enc])
               <=> Serving(enc, OwnFields[u]) /\ NodesIn(u, x, SoundNodes)
  <2> DEFINE own == Own(u, enc)
             kids == KidsBuilt(u, enc)
             last == LastBuilt(u, enc)
             n == Len(u.kids)
             KidServed(k) == Serving(KidEncodings(u, enc, k), OwnFields[u.kids[k]])
             KidSound(k) == NodesIn(u.kids[k], x + 1, SoundNodes)
  <2>0. n \in Nat /\ DOMAIN u.kids = 1..n
    BY KidTypes
  <2>1. RightLens(u, enc)
    BY <1>1, ValidRight
  <2>2. /\ own \in Seq(Outcomes) /\ Len(own) = Len(Before(u.kind))
        /\ Len(Before(u.kind)) <= Len(enc) /\ last \in Seq(Outcomes)
        /\ BuildPipelines[u][enc] = Joined((own \o kids) \o last)
        /\ u.kind = "dict" => enc[EncodingsLen[u]] \in Seq(Coding)
    BY <2>1, NodeIs
  <2>3. /\ kids \in Seq(Outcomes) /\ Len(kids) = n
        /\ \A k \in 1..n : kids[k] = BuildPipelines[u.kids[k]][KidEncodings(u, enc, k)]
    BY <2>0, <2>1, KidsBuiltType
  <2>4. /\ Before(u.kind) \in Seq(Physical) /\ Len(Before(u.kind)) \in Nat
    BY TypeParts, BeforeType
  <2>5. enc \in Seq(Seq(Coding)) /\ Len(enc) \in Nat
    BY DEF Encodings
  <2>6. ASSUME NEW k \in 1..n
        PROVE  Good(kids[k]) <=> KidServed(k) /\ KidSound(k)
    <3>1. u.kids[k] \in S /\ u.kids[k] \in Types /\ k \in DOMAIN u.kids
      BY <1>1, <2>0
    <3>2. ValidType[u.kids[k]][x + 1] /\ x + 1 \in Nat
      BY <1>1, <3>1, ValidTypeIs
    <3>3. KidEncodings(u, enc, k) \in Encodings
          /\ Len(KidEncodings(u, enc, k)) = EncodingsLen[u.kids[k]]
      BY <2>1, <3>1, KidEncodingsType
    <3>4. Good(BuildPipelines[u.kids[k]][KidEncodings(u, enc, k)])
            <=> KidServed(k) /\ KidSound(k)
      BY <3>1, <3>2, <3>3
    <3> QED BY <2>3, <3>4
  <2> HIDE DEF KidServed, KidSound
  <2>7. AllGood(kids) <=> \A k \in 1..n : KidServed(k) /\ KidSound(k)
    <3>1. DOMAIN kids = 1..n
      BY <2>3
    <3> HIDE DEF kids, n
    <3> QED BY <2>6, <3>1 DEF AllGood
  <2>8. AllGood(own) <=> ServesAt(enc, 0, Before(u.kind))
    <3>1. ASSUME NEW i \in 1..Len(Before(u.kind))
          PROVE  Good(own[i]) <=> Serves(enc[0 + i], Before(u.kind)[i].type)
      <4>1. i \in DOMAIN own
        BY <2>2
      <4>2. own[i] = Built(Before(u.kind)[i], enc[i])
        BY <4>1, OwnType
      <4>3. Before(u.kind)[i] \in Physical
        BY <2>4
      <4>4. i \in 1..Len(enc) /\ 0 + i = i
        BY <2>2, <2>4, <2>5
      <4>5. enc[i] \in Seq(Coding)
        BY <2>5, <4>4
      <4>6. Good(Built(Before(u.kind)[i], enc[i])) <=> Serves(enc[i], Before(u.kind)[i].type)
        BY <4>3, <4>5, BuiltGood
      <4> QED BY <4>2, <4>4, <4>6
    <3>2. DOMAIN own = 1..Len(Before(u.kind))
      BY <2>2
    <3> HIDE DEF own
    <3> QED BY <3>1, <3>2 DEF AllGood, ServesAt
  <2>9. AllGood(last) <=> ServesAt(enc, Taken(u, n), After(u.kind))
    <3>1. CASE u.kind = "dict"
      <4> DEFINE field == After("dict")[1]
                 coders == enc[EncodingsLen[u]]
      <4>1. /\ field \in Physical /\ coders \in Seq(Coding) /\ Len(After(u.kind)) = 1
            /\ EncodingsLen[u] = Taken(u, n) + 1
        <5>1. Len(After(u.kind)) = 1 /\ field \in Physical
          BY <3>1, IndicesIs
        <5>2. u.kind # "struct"
          BY <3>1
        <5>3. EncodingsLen[u] = Taken(u, n) + Len(After(u.kind))
          BY <5>2, TakenIs
        <5> QED BY <2>2, <3>1, <5>1, <5>3
      <4>2. last = << Built(field, coders) >>
        BY <3>1 DEF LastBuilt
      <4>3. Good(Built(field, coders)) <=> Serves(coders, field.type)
        BY <4>1, BuiltGood
      <4>4. ServesAt(enc, Taken(u, n), After(u.kind)) <=> Serves(coders, field.type)
        <5>1. After(u.kind)[1] = field /\ enc[Taken(u, n) + 1] = coders
          BY <3>1, <4>1
        <5> HIDE DEF field, coders, n
        <5> QED BY <4>1, <5>1 DEF ServesAt
      <4> DEFINE b == Built(field, coders)
      <4>5. AllGood(<< b >>) <=> Good(b)
        <5> HIDE DEF b
        <5>1. DOMAIN << b >> = {1} /\ << b >>[1] = b
          OBVIOUS
        <5> QED BY <5>1 DEF AllGood
      <4> HIDE DEF last, field, coders
      <4> QED BY <4>2, <4>3, <4>4, <4>5
    <3>2. CASE u.kind # "dict"
      <4>1. After(u.kind) = <<>> /\ last = <<>>
        BY <3>2, IndicesIs DEF LastBuilt
      <4>2. AllGood(<<>>)
        BY DEF AllGood
      <4>3. ServesAt(enc, Taken(u, n), <<>>)
        BY DEF ServesAt
      <4> HIDE DEF last, n
      <4> QED BY <4>1, <4>2, <4>3
    <3> QED BY <3>1, <3>2
  <2>10. Good(BuildPipelines[u][enc]) <=> AllGood(own) /\ AllGood(kids) /\ AllGood(last)
    <3>1. own \in Seq(Outcomes) /\ kids \in Seq(Outcomes) /\ last \in Seq(Outcomes)
      BY <2>2, <2>3
    <3>2. BuildPipelines[u][enc] = Joined((own \o kids) \o last)
      BY <2>2
    <3> HIDE DEF own, kids, last
    <3> QED BY <3>1, <3>2, GoodJoined
  <2>11. NodesIn(u, x, SoundNodes) <=> u \in SoundNodes /\ \A k \in 1..n : KidSound(k)
    <3>1. NodesIn(u, x, SoundNodes)
            <=> u \in SoundNodes /\ \A k \in DOMAIN u.kids : NodesIn(u.kids[k], x + 1, SoundNodes)
      BY NodesInIs
    <3> QED BY <2>0, <3>1 DEF KidSound
  <2>12. Serving(enc, OwnFields[u]) /\ u \in SoundNodes
           <=> /\ ServesAt(enc, 0, Before(u.kind))
               /\ \A k \in 1..n : KidServed(k)
               /\ ServesAt(enc, Taken(u, n), After(u.kind))
    <3>1. CASE u.kind = "struct"
      <4>1. OwnFields[u] = <<>> /\ Len(enc) = 0
        BY <1>1, <3>1, OwnFieldsIs, EncodingsLenIs
      <4>2. Serving(enc, <<>>)
        BY <4>1 DEF Serving
      <4>3. Before(u.kind) = <<>> /\ After(u.kind) = <<>>
        <5>1. "struct" \in DataTypes \cup Semantic \cup Containers
          BY DEF Containers
        <5>2. Before("struct") = <<>>
          BY <5>1, BeforeIs
        <5>3. After(u.kind) = <<>>
          BY <3>1, IndicesIs
        <5> QED BY <3>1, <5>2, <5>3
      <4>4. ServesAt(enc, 0, <<>>) /\ ServesAt(enc, Taken(u, n), <<>>)
        BY DEF ServesAt
      <4>5. u \in SoundNodes <=> \A k \in 1..n : KidServed(k)
        BY <2>0, <3>1 DEF SoundNodes, KidServed, KidEncodings
      <4> HIDE DEF n
      <4> QED BY <4>1, <4>2, <4>3, <4>4, <4>5
    <3>2. CASE u.kind # "struct"
      <4>1. u \in SoundNodes
        BY <3>2 DEF SoundNodes
      <4>2. Serving(enc, OwnFields[u])
              <=> /\ ServesAt(enc, 0, Before(u.kind))
                  /\ \A k \in DOMAIN u.kids :
                       Serving(KidEncodings(u, enc, k), OwnFields[u.kids[k]])
                  /\ ServesAt(enc, Taken(u, Len(u.kids)), After(u.kind))
        BY <2>1, <3>2, ServingParts
      <4> QED BY <2>0, <4>1, <4>2 DEF KidServed
    <3> QED BY <3>1, <3>2
  <2> HIDE DEF own, kids, last, n
  <2> QED BY <2>7, <2>8, <2>9, <2>10, <2>11, <2>12
<1>2. \A u \in Types : (\A k \in DOMAIN u.kids : u.kids[k] \in S) => u \in S
  <2> SUFFICES ASSUME NEW u \in Types, \A k \in DOMAIN u.kids : u.kids[k] \in S
               PROVE  Agrees(u)
    OBVIOUS
  <2> HIDE DEF S
  <2> QED BY <1>1
<1>3. Types \subseteq S
  <2> HIDE DEF S
  <2> QED BY <1>2, TypeInduction
<1>4. Agrees(t)
  BY <1>3
<1> QED
  BY <1>4

-----------------------------------------------------------------------------
(* What a writer accepts                                                    *)

\* A node that nothing is wrong with, but for its depth.
CleanNode(u) ==
  /\ ~UnfitNode(u)
  /\ u.kind = "struct" =>
       \A k \in DOMAIN u.kids : /\ u.names[k] # ""
                                /\ Serving(u.encodings[k], OwnFields[u.kids[k]])
CleanNodes == {u \in Types : CleanNode(u)}
Deep(n) == n.node.kind \in Containers /\ n.depth >= MaxDepth

CleanColumn(s) ==
  /\ s.name # ""
  /\ Serving(s.encodings, OwnFields[s.type])
  /\ NodesIn(s.type, 0, CleanNodes)
Shallow(s) == \A n \in Nodes[s.type][0] : ~Deep(n)

(* The fields of a struct, and when they are valid as specs.                *)
LEMMA NodeFields ==
  ASSUME NEW t \in Types, t.kind = "struct", NEW k \in DOMAIN t.kids
  PROVE  /\ t.kids[k] \in Types /\ t.encodings[k] \in Encodings
         /\ Fields(t)[k].type \in Types /\ Fields(t)[k].encodings \in Encodings
         /\ ValidSpec(Fields(t)[k])
              <=> t.names[k] # "" /\ Len(t.encodings[k]) = EncodingsLen[t.kids[k]]
<1>1. t.kids[k] \in Types /\ DOMAIN t.kids = 1..Len(t.kids) /\ Len(t.kids) \in Nat
  BY KidTypes
<1>2. Len(t.encodings) = Len(t.kids) /\ t.encodings \in Seq(Encodings)
  BY Shape, TypeParts
<1> DEFINE V == Encodings
<1>3. t.encodings[k] \in V
  <2>1. t.encodings \in Seq(V) /\ k \in 1..Len(t.encodings)
    BY <1>1, <1>2
  <2> HIDE DEF V
  <2> QED BY <2>1
<1>4. /\ Fields(t)[k].name = t.names[k] /\ Fields(t)[k].type = t.kids[k]
      /\ Fields(t)[k].encodings = t.encodings[k]
  BY FieldsIs
<1> QED
  BY <1>1, <1>3, <1>4 DEF ValidSpec

(* Encodings that serve are as many as validation counts.                   *)
LEMMA ServingLen ==
  ASSUME NEW t \in Types, NEW e, Serving(e, OwnFields[t])
  PROVE  e \in Encodings /\ Len(e) = EncodingsLen[t]
BY OwnFieldsLen DEF Serving

(* The encodings of a spec are fit if they serve its own fields.            *)
LEMMA FitEncodings ==
  ASSUME NEW s, s.type \in Types, s.encodings \in Encodings
  PROVE  UnfitEncodings(s) <=> ~Serving(s.encodings, OwnFields[s.type])
<1> DEFINE e == s.encodings
           fields == OwnFields[s.type]
<1>1. fields \in Seq(Physical) /\ e \in Seq(Seq(Coding)) /\ Len(e) \in Nat
  BY OwnFieldsIs DEF Encodings
<1>2. UnfitEncodings(s) <=> \/ Len(e) # Len(fields)
                            \/ \E i \in DOMAIN e : \/ ~Builds(fields[i].type, e[i])
                                                   \/ OutputType(fields[i].type, e[i]) # "bytes"
  BY DEF UnfitEncodings
<1>3. DOMAIN e = 1..Len(e) /\ \A i \in 1..Len(e) : e[i] \in Seq(Coding)
  BY <1>1
<1>4. e \in Encodings
  OBVIOUS
<1> HIDE DEF e, fields
<1>5. \A i \in 1..Len(e) : Serves(e[i], fields[i].type)
                             <=> ~(\/ ~Builds(fields[i].type, e[i])
                                   \/ OutputType(fields[i].type, e[i]) # "bytes")
  BY <1>3 DEF Serves
<1>6. Serving(e, fields) <=> Len(e) = Len(fields) /\ \A i \in 1..Len(e) : Serves(e[i], fields[i].type)
  BY <1>4 DEF Serving
<1>7. UnfitEncodings(s) <=> ~Serving(e, fields)
  BY <1>2, <1>3, <1>5, <1>6
<1> QED
  BY <1>7 DEF e, fields

(* A column is valid and built with pipelines that end in bytes exactly if  *)
(* nothing is wrong with it.                                                *)
LEMMA ColumnAccepted ==
  ASSUME NEW s \in Columns
  PROVE  ValidSpec(s) /\ ValidType[s.type][0] /\ Good(BuiltColumn(s))
           <=> CleanColumn(s) /\ Shallow(s)
<1> DEFINE t == s.type
           e == s.encodings
<1>1. t \in Types /\ e \in Encodings /\ 0 \in Nat
  BY DEF Columns
<1>2. ValidType[t][0] <=> \A n \in Nodes[t][0] : ValidNode(n.node, n.depth)
  BY <1>1, ValidNodes
<1>3. ASSUME NEW n \in Nodes[t][0]
      PROVE  /\ n.node \in Types /\ n.depth \in Nat
             /\ ValidNode(n.node, n.depth)
                  <=> /\ ~Deep(n)
                      /\ ~UnfitNode(n.node)
                      /\ n.node.kind = "struct" =>
                           \A k \in DOMAIN n.node.kids :
                             /\ n.node.names[k] # ""
                             /\ Len(n.node.encodings[k]) = EncodingsLen[n.node.kids[k]]
  <2>1. n.node \in Types /\ n.depth \in Nat
    <3>1. Nodes[t][0] \subseteq [node : Types, depth : Nat]
      BY <1>1, NodesIs
    <3>2. n \in [node : Types, depth : Nat]
      BY <3>1
    <3> QED BY <3>2
  <2>2. ValidNode(n.node, n.depth)
          <=> /\ ~(n.node.kind \in Containers /\ n.depth >= MaxDepth)
              /\ ~UnfitNode(n.node)
              /\ n.node.kind = "struct" =>
                   \A k \in DOMAIN n.node.kids : ValidSpec(Fields(n.node)[k])
    BY <2>1, ValidNodeIs
  <2>3. n.node.kind = "struct" => \A k \in DOMAIN n.node.kids :
          ValidSpec(Fields(n.node)[k])
            <=> /\ n.node.names[k] # ""
                /\ Len(n.node.encodings[k]) = EncodingsLen[n.node.kids[k]]
    BY <2>1, NodeFields
  <2> QED BY <2>1, <2>2, <2>3 DEF Deep
<1>4. ASSUME ValidSpec(s), ValidType[t][0], Good(BuiltColumn(s))
      PROVE  CleanColumn(s) /\ Shallow(s)
  <2>1. s.name # "" /\ Len(e) = EncodingsLen[t]
    BY <1>4 DEF ValidSpec
  <2>2. Good(BuildPipelines[t][e])
    BY <1>4 DEF BuiltColumn
  <2>3. Serving(e, OwnFields[t]) /\ NodesIn(t, 0, SoundNodes)
    <3> HIDE DEF t, e
    <3> QED BY <1>1, <1>4, <2>1, <2>2, BuildsServed
  <2>4. ASSUME NEW n \in Nodes[t][0] PROVE ~Deep(n) /\ n.node \in CleanNodes
    <3>1. ValidNode(n.node, n.depth) /\ n.node \in SoundNodes
      BY <1>2, <1>4, <2>3 DEF NodesIn
    <3> QED BY <1>3, <3>1 DEF CleanNodes, CleanNode, SoundNodes
  <2> QED BY <2>1, <2>3, <2>4 DEF CleanColumn, Shallow, NodesIn
<1>5. ASSUME CleanColumn(s), Shallow(s)
      PROVE  ValidSpec(s) /\ ValidType[t][0] /\ Good(BuiltColumn(s))
  <2>1. s.name # "" /\ Serving(e, OwnFields[t]) /\ NodesIn(t, 0, CleanNodes)
    BY <1>5 DEF CleanColumn
  <2>2. Len(e) = EncodingsLen[t]
    BY <1>1, <2>1, ServingLen
  <2>3. ASSUME NEW n \in Nodes[t][0]
        PROVE  ValidNode(n.node, n.depth) /\ n.node \in SoundNodes
    <3>1. ~Deep(n) /\ n.node \in CleanNodes /\ n.node \in Types
      BY <1>3, <1>5, <2>1 DEF Shallow, NodesIn
    <3>2. CleanNode(n.node)
      BY <3>1 DEF CleanNodes
    <3>3. n.node.kind = "struct" =>
            \A k \in DOMAIN n.node.kids :
              /\ n.node.names[k] # ""
              /\ Len(n.node.encodings[k]) = EncodingsLen[n.node.kids[k]]
      <4> SUFFICES ASSUME n.node.kind = "struct", NEW k \in DOMAIN n.node.kids
                   PROVE  /\ n.node.names[k] # ""
                          /\ Len(n.node.encodings[k]) = EncodingsLen[n.node.kids[k]]
        OBVIOUS
      <4>1. n.node.names[k] # "" /\ Serving(n.node.encodings[k], OwnFields[n.node.kids[k]])
        BY <3>2 DEF CleanNode
      <4>2. n.node.kids[k] \in Types
        BY <3>1, KidTypes
      <4> QED BY <4>1, <4>2, ServingLen
    <3>4. ValidNode(n.node, n.depth)
      BY <1>3, <3>1, <3>2, <3>3 DEF CleanNode
    <3>5. n.node \in SoundNodes
      BY <3>1, <3>2 DEF CleanNode, SoundNodes
    <3> QED BY <3>4, <3>5
  <2>4. ValidType[t][0] /\ NodesIn(t, 0, SoundNodes)
    BY <1>2, <2>3 DEF NodesIn
  <2>5. Good(BuildPipelines[t][e])
    <3> HIDE DEF t, e
    <3> QED BY <1>1, <2>1, <2>2, <2>4, BuildsServed
  <2> QED BY <2>1, <2>2, <2>4, <2>5 DEF ValidSpec, BuiltColumn
<1> QED
  BY <1>4, <1>5

(* A writer accepts a schema if nothing is wrong with any of its columns.   *)
LEMMA AcceptedIs ==
  ASSUME NEW s, s.columns \in Seq(Columns)
  PROVE  Accepted(s) <=> /\ Distinct(NamesOf(s.columns))
                         /\ \A c \in DOMAIN s.columns :
                              CleanColumn(s.columns[c]) /\ Shallow(s.columns[c])
<1> DEFINE n == Len(s.columns)
           built == ResolveAll(s.columns)
           Column(c) == s.columns[c]
<1>1. DOMAIN s.columns = 1..n /\ \A c \in 1..n : Column(c) \in Columns
  OBVIOUS
<1>2. \A c \in 1..n :
        ValidSpec(Column(c)) /\ ValidType[Column(c).type][0] /\ Good(BuiltColumn(Column(c)))
          <=> CleanColumn(Column(c)) /\ Shallow(Column(c))
  BY <1>1, ColumnAccepted
<1>3. Validate(s) <=> /\ \A c \in 1..n : ValidSpec(Column(c)) /\ ValidType[Column(c).type][0]
                      /\ Distinct(NamesOf(s.columns))
  BY <1>1 DEF Validate
<1>4. built \notin {Fail, Panic} /\ EndInBytes(built) <=> \A c \in 1..n : Good(BuiltColumn(Column(c)))
  <2>1. built \in Resolved \cup {Fail, Panic}
    BY ResolveAllIs
  <2>2. built \notin {Fail, Panic} <=> \A c \in 1..n : BuiltColumn(Column(c)) \notin {Fail, Panic}
    BY ResolveAllIs
  <2>3. built \notin {Fail, Panic} =>
          Len(built) = n /\ \A c \in 1..n : built[c] = BuiltColumn(Column(c))
    BY ResolveAllIs
  <2> HIDE DEF built, Spec, n
  <2>4. ASSUME built \notin {Fail, Panic}
        PROVE  EndInBytes(built) <=> \A c \in 1..n : Good(BuiltColumn(Column(c)))
    <3>1. built \in Resolved /\ DOMAIN built = 1..n
      BY <2>1, <2>3, <2>4 DEF Resolved
    <3>2. ToSet(built) = {BuiltColumn(Column(c)) : c \in 1..n}
      BY <2>3, <2>4, <3>1 DEF ToSet
    <3>3. ASSUME NEW c \in 1..n
          PROVE  Good(BuiltColumn(Column(c)))
                   <=> \A i \in DOMAIN BuiltColumn(Column(c)) : Ends(BuiltColumn(Column(c))[i])
      <4>1. BuiltColumn(Column(c)) \in Seq(Pipeline)
        BY <2>3, <2>4, <3>1 DEF Resolved
      <4> DEFINE b == BuiltColumn(Column(c))
      <4>2. b \notin {Fail, Panic}
        BY <2>2, <2>4
      <4> HIDE DEF b
      <4>3. Good(b) <=> \A i \in DOMAIN b : Ends(b[i])
        BY <4>2 DEF Good, ToSet
      <4> QED BY <4>3 DEF b
    <3>4. EndInBytes(built) <=> \A c \in 1..n :
            \A i \in DOMAIN BuiltColumn(Column(c)) : Ends(BuiltColumn(Column(c))[i])
      BY <3>2 DEF EndInBytes, Ends
    <3> QED BY <3>3, <3>4
  <2>5. ASSUME \A c \in 1..n : Good(BuiltColumn(Column(c))) PROVE built \notin {Fail, Panic}
    BY <2>2, <2>5 DEF Good
  <2> QED BY <2>4, <2>5
<1> HIDE DEF built, Spec, n
<1>5. Accepted(s) <=> Validate(s) /\ \A c \in 1..n : Good(BuiltColumn(Column(c)))
  BY <1>4 DEF Accepted, built
<1>6. Accepted(s) <=> /\ Distinct(NamesOf(s.columns))
                      /\ \A c \in 1..n : CleanColumn(Column(c)) /\ Shallow(Column(c))
  BY <1>2, <1>3, <1>5
<1> QED
  BY <1>1, <1>6 DEF Spec

-----------------------------------------------------------------------------
(* Schemas that the program makes                                           *)

Served == {x \in Seq(Coding) \X Physical : Serves(x[1], x[2].type)}

(* Each encoding serves its own field.                                      *)
LEMMA ServingPaired ==
  ASSUME NEW e \in Encodings, NEW fields \in Seq(Physical)
  PROVE  Serving(e, fields) <=> Paired(e, fields, Served)
<1>1. e \in Seq(Seq(Coding)) /\ Len(e) \in Nat
  BY DEF Encodings
<1>2. CASE Len(e) = Len(fields)
  <2>1. ASSUME NEW i \in 1..Len(e)
        PROVE  << e[i], fields[i] >> \in Served <=> Serves(e[i], fields[i].type)
    <3>1. e[i] \in Seq(Coding) /\ fields[i] \in Physical
      BY <1>1, <1>2
    <3> QED BY <3>1 DEF Served
  <2>2. Serving(e, fields) <=> \A i \in 1..Len(e) : Serves(e[i], fields[i].type)
    BY <1>2 DEF Serving
  <2>3. Paired(e, fields, Served) <=> \A i \in 1..Len(e) : << e[i], fields[i] >> \in Served
    BY <1>2 DEF Paired
  <2> QED BY <2>1, <2>2, <2>3
<1>3. CASE Len(e) # Len(fields)
  BY <1>3 DEF Serving, Paired
<1> QED
  BY <1>2, <1>3

(* A node is served if its own fields and its children are.                 *)
LEMMA ServingNode ==
  ASSUME NEW u \in Types, u.kind # "struct", NEW x \in Encodings, NEW encs \in Seq(Encodings),
         NEW y \in Encodings, Len(encs) = Len(u.kids),
         Serving(x, Before(u.kind)), Serving(y, After(u.kind)),
         \A k \in DOMAIN u.kids : Serving(encs[k], OwnFields[u.kids[k]])
  PROVE  x \o FlattenSeq(encs) \o y \in Encodings
         /\ Serving(x \o FlattenSeq(encs) \o y, OwnFields[u])
<1> DEFINE r == Results(OwnFields, u)
           n == Len(u.kids)
           a == Before(u.kind)
           b == FlattenSeq(r)
           c == After(u.kind)
           f == FlattenSeq(encs)
           V == Seq(Coding)
<1>1. n \in Nat /\ DOMAIN u.kids = 1..n
  BY KidTypes
<1>2. /\ r \in Seq(Seq(Physical)) /\ Len(r) = n
      /\ \A k \in 1..n : r[k] = OwnFields[u.kids[k]]
      /\ OwnFields[u] = (a \o b) \o c
  BY <1>1, OwnFieldsIs
<1>3. a \in Seq(Physical) /\ c \in Seq(Physical)
  BY TypeParts, BeforeType
<1>4. encs \in Seq(Seq(V)) /\ x \in Seq(V) /\ y \in Seq(V)
  BY DEF Encodings
<1>5. \A k \in 1..n : Serving(encs[k], r[k])
  BY <1>1, <1>2
<1> HIDE DEF r, n, V
<1>6. b \in Seq(Physical) /\ f \in Seq(V)
  BY <1>2, <1>4, FlattenType
<1>7. Paired(f, b, Served)
  <2>1. ASSUME NEW k \in 1..Len(encs) PROVE Paired(encs[k], r[k], Served)
    <3>1. k \in 1..n
      BY DEF n
    <3>2. encs[k] \in Encodings /\ r[k] \in Seq(Physical)
      BY <1>2, <1>4, <3>1 DEF Encodings, V
    <3> QED BY <1>5, <3>1, <3>2, ServingPaired
  <2>2. Len(encs) = Len(r)
    BY <1>2 DEF n
  <2> QED BY <1>2, <1>4, <2>1, <2>2, PairedFlat
<1>8. Paired(x, a, Served) /\ Paired(y, c, Served)
  BY <1>3, ServingPaired
<1> HIDE DEF a, b, c, f
<1>9. Paired(x \o f, a \o b, Served)
  BY <1>3, <1>4, <1>6, <1>7, <1>8, PairedConcat
<1>10. x \o f \in Seq(V) /\ a \o b \in Seq(Physical)
  BY <1>3, <1>4, <1>6
<1>11. Paired((x \o f) \o y, (a \o b) \o c, Served)
  BY <1>3, <1>4, <1>8, <1>9, <1>10, PairedConcat
<1>12. (x \o f) \o y \in Encodings /\ (a \o b) \o c \in Seq(Physical)
  BY <1>3, <1>4, <1>10 DEF Encodings, V
<1>13. Serving((x \o f) \o y, (a \o b) \o c)
  BY <1>11, <1>12, ServingPaired
<1> QED
  BY <1>2, <1>12, <1>13 DEF f

(* A struct has no own fields: their encodings are with the fields.         *)
LEMMA StructServed ==
  ASSUME NEW u \in Types, u.kind = "struct"
  PROVE  <<>> \in Encodings /\ Serving(<<>>, OwnFields[u])
<1>1. OwnFields[u] = <<>>
  BY OwnFieldsIs
<1>2. <<>> \in Encodings
  BY DEF Encodings
<1> QED
  BY <1>1, <1>2 DEF Serving

\* The default encodings of a type serve its fields.
DefaultsServed(t) == Serving(DefaultEncodings[t], OwnFields[t])

(* They do unless a primitive of bytes is in it.                            *)
LEMMA DefaultsFit ==
  ASSUME NEW u \in Types, u.kind # "bytes", \A k \in DOMAIN u.kids : DefaultsServed(u.kids[k])
  PROVE  DefaultsServed(u)
<1>1. CASE u.kind = "struct"
  <2>1. DefaultEncodings[u] = <<>>
    BY <1>1, DefaultEncodingsIs
  <2> QED BY <1>1, <2>1, StructServed DEF DefaultsServed
<1>2. CASE u.kind # "struct"
  <2> DEFINE x == Defaults(Before(u.kind))
             y == Defaults(After(u.kind))
             encs == Results(DefaultEncodings, u)
  <2>1. Serving(x, Before(u.kind)) /\ Serving(y, After(u.kind))
    BY TypeParts, DefaultsIs
  <2>2. x \in Encodings /\ y \in Encodings
    BY <2>1 DEF Serving
  <2>3. encs \in Seq(Encodings) /\ DefaultEncodings[u] = x \o FlattenSeq(encs) \o y
    BY <1>2, DefaultEncodingsIs
  <2>4. Len(encs) = Len(u.kids)
    <3> DEFINE V == Encodings
               g == DefaultEncodings
    <3>1. \A k \in DOMAIN u.kids : g[u.kids[k]] \in V
      BY KidTypes, DefaultEncodingsIs
    <3> HIDE DEF V, g
    <3>2. Len(Results(g, u)) = Len(u.kids)
      BY <3>1, ResultsType
    <3> QED BY <3>2 DEF g
  <2>5. \A k \in DOMAIN u.kids : Serving(encs[k], OwnFields[u.kids[k]])
    BY DEF Results, DefaultsServed
  <2> HIDE DEF x, y, encs
  <2> QED BY <1>2, <2>1, <2>2, <2>3, <2>4, <2>5, ServingNode DEF DefaultsServed
<1> QED
  BY <1>1, <1>2

(* Whether a node is fit is decided by its kind, names and first child.     *)
LEMMA SameNode ==
  ASSUME NEW t \in Types, NEW u \in Types, u.kind = t.kind, u.names = t.names,
         Len(u.kids) = Len(t.kids), t.kind = "map" => u.kids[1].kind = t.kids[1].kind
  PROVE  UnfitNode(u) <=> UnfitNode(t)
<1>1. t.kids \in Seq(Types) /\ u.kids \in Seq(Types)
  BY TypeParts
<1> DEFINE V == Types
<1>2. u.kids = <<>> <=> t.kids = <<>>
  <2>1. t.kids \in Seq(V) /\ u.kids \in Seq(V)
    BY <1>1
  <2> HIDE DEF V
  <2> QED BY <2>1
<1> QED
  BY <1>2 DEF UnfitNode

CleanTree(u) == \A d \in Nat : NodesIn(u, d, CleanNodes)

(* A type is clean if it and all its children are.                          *)
LEMMA CleanTreeIs ==
  ASSUME NEW u \in Types, u \in CleanNodes, \A k \in DOMAIN u.kids : CleanTree(u.kids[k])
  PROVE  CleanTree(u)
<1> SUFFICES ASSUME NEW d \in Nat PROVE NodesIn(u, d, CleanNodes)
  BY DEF CleanTree
<1>1. \A k \in DOMAIN u.kids : NodesIn(u.kids[k], d + 1, CleanNodes)
  BY DEF CleanTree
<1> QED
  BY <1>1, NodesInIs

\* The nodes of what the optimizer is given, and those that adapters find.
SaneNodes == {u \in Types : ~UnfitNode(u) /\ (u.kind = "struct" => "" \notin ToSet(u.names))}
FoundNodes == {u \in SaneNodes : u.kind # "bytes"}

(* Adapters and samples have sane nodes only, adapters no primitive of bytes. *)
LEMMA ShapesSane ==
  ASSUME NEW t \in Shapes \cup Samples
  PROVE  t \in Types /\ NodesIn(t, 0, SaneNodes) /\ (t \in Shapes => NodesIn(t, 0, FoundNodes))
<1>1. t \in Types /\ 0 \in Nat
  BY ShapesTyped
<1>2. \A n \in Nodes[t][0] : n.node \in Types
  BY <1>1, NodesIs
<1>3. \A n \in Nodes[t][0] :
        /\ ~UnfitNode(n.node)
        /\ n.node.kind = "struct" => "" \notin ToSet(n.node.names)
        /\ t \in Shapes => n.node.kind # "bytes"
  BY ShapesAssumption
<1> QED
  BY <1>1, <1>2, <1>3 DEF NodesIn, SaneNodes, FoundNodes

(* The fields of a sane struct have names.                                  *)
LEMMA SaneNames ==
  ASSUME NEW t \in Types, t \in SaneNodes, t.kind = "struct", NEW k \in DOMAIN t.kids
  PROVE  t.names[k] # ""
<1>1. Len(t.kids) = Len(t.names) /\ DOMAIN t.kids = 1..Len(t.kids)
  BY KidTypes, Shape
<1>2. t.names \in Seq(STRING)
  BY TypeParts
<1>3. k \in DOMAIN t.names
  BY <1>1, <1>2
<1> QED
  BY <1>3 DEF SaneNodes, ToSet

(* Generating encodings does not change the kind.                           *)
LEMMA GeneratedKind ==
  ASSUME NEW t \in Types
  PROVE  Generated[t].kind = t.kind
<1>1. Generated[t] = LogicalType(t.kind, t.names, Results(Generated, t),
                                 FieldDefaults(t, Results(Generated, t)))
  BY GeneratedIs
<1> QED
  BY <1>1 DEF LogicalType

(* Nothing but its depth is wrong with a generated type, or its defaults.    *)
LEMMA GeneratedClean ==
  ASSUME NEW t \in Types, NEW d \in Nat, NodesIn(t, d, FoundNodes)
  PROVE  CleanTree(Generated[t]) /\ DefaultsServed(Generated[t])
<1> DEFINE Right(u) == CleanTree(Generated[u]) /\ DefaultsServed(Generated[u])
           S == {u \in Types : \A x \in Nat : NodesIn(u, x, FoundNodes) => Right(u)}
<1>1. ASSUME NEW u \in Types, \A k \in DOMAIN u.kids : u.kids[k] \in S,
             NEW x \in Nat, NodesIn(u, x, FoundNodes)
      PROVE  Right(u)
  <2> DEFINE r == Results(Generated, u)
             e == FieldDefaults(u, r)
             g == Generated[u]
  <2>1. g \in Types /\ r \in Seq(Types) /\ g = LogicalType(u.kind, u.names, r, e)
    BY GeneratedIs
  <2>2. g.kind = u.kind /\ g.names = u.names /\ g.kids = r /\ g.encodings = e
    BY <2>1 DEF LogicalType
  <2>3. Len(r) = Len(u.kids) /\ \A k \in DOMAIN u.kids : r[k] = Generated[u.kids[k]]
    <3> DEFINE V == Types
               f == Generated
    <3>1. \A k \in DOMAIN u.kids : f[u.kids[k]] \in V
      BY KidTypes, GeneratedIs
    <3>2. \A k \in DOMAIN u.kids : r[k] = Generated[u.kids[k]]
      BY DEF Results
    <3> HIDE DEF V, f
    <3>3. Len(Results(f, u)) = Len(u.kids)
      BY <3>1, ResultsType
    <3> QED BY <3>2, <3>3 DEF f
  <2>4. u \in FoundNodes /\ \A k \in DOMAIN u.kids : NodesIn(u.kids[k], x + 1, FoundNodes)
    BY <1>1, NodesInIs
  <2>5. \A k \in DOMAIN u.kids : Right(u.kids[k])
    BY <1>1, <2>4
  <2>6. DOMAIN u.kids = 1..Len(u.kids) /\ DOMAIN g.kids = 1..Len(g.kids)
    BY <2>1, KidTypes
  <2>7. ~UnfitNode(g)
    <3>1. u.kind = "map" => g.kids[1].kind = u.kids[1].kind
      <4> SUFFICES ASSUME u.kind = "map" PROVE g.kids[1].kind = u.kids[1].kind
        OBVIOUS
      <4>1. 1 \in DOMAIN u.kids
        <5>1. Len(u.kids) = 2
          BY Shape
        <5> QED BY <2>6, <5>1
      <4>2. u.kids[1] \in Types
        BY <4>1, KidTypes
      <4>3. Generated[u.kids[1]].kind = u.kids[1].kind
        BY <4>2, GeneratedKind
      <4> QED BY <2>2, <2>3, <4>1, <4>3
    <3> HIDE DEF g, r, e
    <3>2. Len(g.kids) = Len(u.kids)
      BY <2>2, <2>3
    <3>3. UnfitNode(g) <=> UnfitNode(u)
      BY <2>1, <2>2, <3>1, <3>2, SameNode
    <3> QED BY <2>4, <3>3 DEF FoundNodes, SaneNodes
  <2> HIDE DEF g
  <2>8. g \in CleanNodes
    <3> SUFFICES ASSUME g.kind = "struct", NEW k \in DOMAIN g.kids
                 PROVE  /\ g.names[k] # ""
                        /\ Serving(g.encodings[k], OwnFields[g.kids[k]])
      BY <2>1, <2>7 DEF CleanNodes, CleanNode
    <3>1. k \in DOMAIN u.kids
      BY <2>2, <2>3, <2>6
    <3>2. g.names[k] # ""
      BY <2>2, <2>4, <3>1, SaneNames DEF FoundNodes
    <3>3. k \in DOMAIN r /\ g.encodings[k] = DefaultEncodings[r[k]]
      <4>1. g.encodings = [i \in DOMAIN r |-> DefaultEncodings[r[i]]]
        BY <2>2 DEF FieldDefaults
      <4>2. k \in DOMAIN r
        BY <2>2
      <4> QED BY <4>1, <4>2
    <3>4. g.kids[k] = Generated[u.kids[k]]
      BY <2>2, <2>3, <3>1
    <3>5. Serving(DefaultEncodings[g.kids[k]], OwnFields[g.kids[k]])
      BY <2>5, <3>1, <3>4 DEF DefaultsServed
    <3> QED BY <2>2, <3>2, <3>3, <3>5
  <2>9. \A k \in DOMAIN g.kids : CleanTree(g.kids[k])
    BY <2>2, <2>3, <2>5, <2>6
  <2>10. CleanTree(g)
    BY <2>1, <2>8, <2>9, CleanTreeIs
  <2>11. DefaultsServed(g)
    <3>1. g.kind # "bytes"
      BY <2>2, <2>4 DEF FoundNodes
    <3>2. \A k \in DOMAIN g.kids : DefaultsServed(g.kids[k])
      BY <2>2, <2>3, <2>5, <2>6
    <3> QED BY <2>1, <3>1, <3>2, DefaultsFit
  <2> QED BY <2>10, <2>11 DEF g
<1>2. \A u \in Types : (\A k \in DOMAIN u.kids : u.kids[k] \in S) => u \in S
  <2> SUFFICES ASSUME NEW u \in Types, \A k \in DOMAIN u.kids : u.kids[k] \in S PROVE u \in S
    OBVIOUS
  <2>1. \A x \in Nat : NodesIn(u, x, FoundNodes) => Right(u)
    <3> HIDE DEF S
    <3> QED BY <1>1
  <2> QED BY <2>1
<1>3. Types \subseteq S
  <2> HIDE DEF S
  <2> QED BY <1>2, TypeInduction
<1> QED
  BY <1>3

(* A leaf has no fields but its own.                                        *)
LEMMA LeafFields ==
  ASSUME NEW u \in Types, u.kind \notin Containers
  PROVE  OwnFields[u] = Before(u.kind) /\ DOMAIN u.kids = {} /\ u.kind # "struct"
<1> DEFINE r == Results(OwnFields, u)
           a == Before(u.kind)
<1>1. Len(u.kids) = 0 /\ DOMAIN u.kids = 1..Len(u.kids)
  BY KidTypes, Shape
<1>2. u.kind # "struct" /\ u.kind # "dict"
  BY DEF Containers
<1>3. r \in Seq(Seq(Physical)) /\ Len(r) = 0
      /\ OwnFields[u] = (a \o FlattenSeq(r)) \o After(u.kind)
  BY <1>1, <1>2, OwnFieldsIs
<1>4. a \in Seq(Physical)
  BY TypeParts, BeforeType
<1> HIDE DEF r, a
<1>5. FlattenSeq(r) = <<>>
  BY <1>3, EmptyFlat
<1>6. After(u.kind) = <<>>
  BY <1>2, IndicesIs
<1>7. (a \o <<>>) \o <<>> = a
  BY <1>4
<1> QED
  BY <1>1, <1>2, <1>3, <1>5, <1>6, <1>7 DEF a

\* Nothing is wrong with a type and encodings from the optimizer.
CleanOptimum(x) ==
  x.type \in Types /\ Serving(x.encodings, OwnFields[x.type]) /\ CleanTree(x.type)

(* A leaf that keeps its type.                                              *)
LEMMA PlainClean ==
  ASSUME NEW u \in Types, u \in SaneNodes, u.kind \notin Containers, NEW x, IsPlain(x, u)
  PROVE  CleanOptimum(x) /\ x.type.kind = u.kind /\ CleanTree(u)
<1>1. PICK p \in Picks(Before(u.kind)) : x = Optimum(u, p)
  BY DEF IsPlain
<1>2. x.type = u /\ x.encodings = p
  BY <1>1 DEF Optimum
<1>3. Before(u.kind) \in Seq(Physical)
  BY TypeParts, BeforeType
<1>4. Serving(p, Before(u.kind))
  BY <1>3, PicksServe
<1>5. u \in CleanNodes
  BY LeafFields DEF SaneNodes, CleanNodes, CleanNode
<1>6. CleanTree(u)
  BY <1>5, LeafFields, CleanTreeIs
<1> QED
  BY <1>2, <1>4, <1>6, LeafFields DEF CleanOptimum

(* A leaf that becomes a dictionary.                                        *)
LEMMA PromotedClean ==
  ASSUME NEW u \in Types, u \in SaneNodes, u.kind \notin Containers,
         DictOf(u) \in Types, NEW x, IsPromoted(x, u)
  PROVE  CleanOptimum(x)
<1>1. PICK p \in Picks(Before(u.kind)), i \in Picks(After("dict")) :
        x = Optimum(DictOf(u), p \o i)
  BY DEF IsPromoted
<1> DEFINE t == DictOf(u)
           encs == << p >>
<1>2. x.type = t /\ x.encodings = p \o i
  BY <1>1 DEF Optimum
<1>3. t.kind = "dict" /\ t.kids = << u >>
  BY DEF DictOf, Of, LogicalType
<1>4. /\ Before(u.kind) \in Seq(Physical) /\ After("dict") \in Seq(Physical)
      /\ Before("dict") = <<>>
  <2>1. "dict" \in DataTypes \cup Semantic \cup Containers
    BY DEF Containers
  <2>2. u.kind \in DataTypes \cup Semantic \cup Containers
    BY TypeParts
  <2>3. Before("dict") = <<>>
    BY <2>1, BeforeIs
  <2> QED BY <2>1, <2>2, <2>3, BeforeType
<1>5. Serving(p, Before(u.kind)) /\ Serving(i, After("dict"))
  BY <1>4, PicksServe
<1>6. p \in Encodings /\ i \in Encodings
  BY <1>5 DEF Serving
<1>7. <<>> \in Encodings /\ Serving(<<>>, Before(t.kind))
  <2>1. <<>> \in Encodings
    BY DEF Encodings
  <2> QED BY <1>3, <1>4, <2>1 DEF Serving
<1>8. encs \in Seq(Encodings) /\ Len(encs) = 1 /\ encs[1] = p
  BY <1>6
<1>9. Serving(p, OwnFields[u])
  BY <1>5, LeafFields
<1>10. Len(t.kids) = 1 /\ DOMAIN t.kids = {1} /\ t.kids[1] = u
  BY <1>3
<1> HIDE DEF encs, t
<1> DEFINE e == <<>>
<1>11. e \in Encodings /\ Serving(e, Before(t.kind))
  BY <1>7
<1> HIDE DEF e
<1>12. Serving(e \o FlattenSeq(encs) \o i, OwnFields[t])
  <2>1. t \in Types
    BY DEF t
  <2>2. t.kind # "struct" /\ Len(encs) = Len(t.kids) /\ Serving(i, After(t.kind))
    BY <1>3, <1>5, <1>8, <1>10
  <2>3. \A k \in DOMAIN t.kids : Serving(encs[k], OwnFields[t.kids[k]])
    BY <1>8, <1>9, <1>10
  <2> QED BY <1>6, <1>8, <1>11, <2>1, <2>2, <2>3, ServingNode
<1>13. FlattenSeq(encs) = p
  <2>1. encs \in Seq(Seq(Seq(Coding)))
    BY <1>8 DEF Encodings
  <2>2. FlattenSeq(encs) = encs[1]
    BY <1>8, <2>1, SingleFlat
  <2> QED BY <1>8, <2>2
<1>14. e \o p = p
  BY <1>6 DEF e, Encodings
<1>15. u \in CleanNodes
  BY LeafFields DEF SaneNodes, CleanNodes, CleanNode
<1>16. CleanTree(u)
  BY <1>15, LeafFields, CleanTreeIs
<1>17. t \in Types /\ t \in CleanNodes
  BY <1>3 DEF CleanNodes, CleanNode, UnfitNode, t
<1>18. CleanTree(t)
  BY <1>10, <1>16, <1>17, CleanTreeIs
<1> QED
  BY <1>2, <1>12, <1>13, <1>14, <1>17, <1>18 DEF CleanOptimum

\* What the children of a node are replaced by.
CleanChoice(o, u) ==
  /\ \A k \in DOMAIN u.kids : CleanOptimum(o[k])
  /\ u.kind = "map" => o[1].type.kind = u.kids[1].kind

(* A node whose children are replaced.                                      *)
LEMMA NodeClean ==
  ASSUME NEW u \in Types, u \in SaneNodes, NEW t \in Types, t.kind = u.kind, t.names = u.names,
         NEW o, CleanChoice(o, u), Len(t.kids) = Len(u.kids),
         \A k \in DOMAIN u.kids : t.kids[k] = o[k].type,
         t.kind = "struct" => \A k \in DOMAIN u.kids : t.encodings[k] = o[k].encodings
  PROVE  CleanTree(t)
<1>1. DOMAIN t.kids = DOMAIN u.kids /\ DOMAIN u.kids = 1..Len(u.kids)
  BY KidTypes
<1>2. u.kind = "map" => t.kids[1].kind = u.kids[1].kind
  <2> SUFFICES ASSUME u.kind = "map" PROVE t.kids[1].kind = u.kids[1].kind
    OBVIOUS
  <2>1. Len(u.kids) = 2
    BY Shape
  <2>2. 1 \in DOMAIN u.kids
    BY <1>1, <2>1
  <2> QED BY <2>2 DEF CleanChoice
<1>3. ~UnfitNode(t)
  <2>1. UnfitNode(t) <=> UnfitNode(u)
    BY <1>2, SameNode
  <2> QED BY <2>1 DEF SaneNodes
<1>4. t \in CleanNodes
  <2> SUFFICES ASSUME t.kind = "struct", NEW k \in DOMAIN t.kids
               PROVE  t.names[k] # "" /\ Serving(t.encodings[k], OwnFields[t.kids[k]])
    BY <1>3 DEF CleanNodes, CleanNode
  <2>1. t.names[k] # ""
    BY <1>1, SaneNames
  <2>2. Serving(o[k].encodings, OwnFields[o[k].type])
    BY <1>1 DEF CleanChoice, CleanOptimum
  <2> QED BY <1>1, <2>1, <2>2
<1>5. \A k \in DOMAIN t.kids : CleanTree(t.kids[k])
  BY <1>1 DEF CleanChoice, CleanOptimum
<1> QED
  BY <1>4, <1>5, CleanTreeIs

(* A struct: the encodings of the children go to its fields.                *)
LEMMA StructClean ==
  ASSUME NEW u \in Types, u \in SaneNodes, u.kind = "struct", NEW r, NEW x, x.type \in Types,
         IsStruct(x, u, r), NEW h \in Nat,
         \A k \in DOMAIN u.kids : KidOptima(u, r, k) \subseteq OptimaUpTo(h),
         \A o \in KidChoices(u, r) : CleanChoice(o, u)
  PROVE  CleanOptimum(x) /\ x.type.kind = u.kind
<1>1. PICK o \in KidChoices(u, r) :
        x = Optimum(LogicalType("struct", u.names, TypesOf(o), EncodingsOf(o)), <<>>)
  BY DEF IsStruct
<1> DEFINE t == x.type
<1>2. /\ x.encodings = <<>> /\ t.kind = "struct" /\ t.names = u.names
      /\ t.kids = TypesOf(o) /\ t.encodings = EncodingsOf(o)
  BY <1>1 DEF Optimum, LogicalType
<1>3. /\ Len(TypesOf(o)) = Len(u.kids)
      /\ \A k \in DOMAIN u.kids : /\ TypesOf(o)[k] = o[k].type
                                  /\ EncodingsOf(o)[k] = o[k].encodings
  BY ChoiceType
<1>4. CleanChoice(o, u) /\ t \in Types
  OBVIOUS
<1>5. /\ t.kind = u.kind /\ Len(t.kids) = Len(u.kids)
      /\ \A k \in DOMAIN u.kids : t.kids[k] = o[k].type
      /\ \A k \in DOMAIN u.kids : t.encodings[k] = o[k].encodings
  BY <1>2, <1>3
<1> HIDE DEF t
<1>6. CleanTree(t)
  BY <1>2, <1>4, <1>5, NodeClean
<1>7. Serving(<<>>, OwnFields[t])
  BY <1>2, <1>4, StructServed
<1> QED
  BY <1>2, <1>4, <1>6, <1>7 DEF CleanOptimum, t

(* Another container: the encodings follow one another.                     *)
LEMMA ContainerClean ==
  ASSUME NEW u \in Types, u \in SaneNodes, u.kind # "struct", NEW r, NEW x, x.type \in Types,
         IsContainer(x, u, r), NEW h \in Nat,
         \A k \in DOMAIN u.kids : KidOptima(u, r, k) \subseteq OptimaUpTo(h),
         \A o \in KidChoices(u, r) : CleanChoice(o, u)
  PROVE  CleanOptimum(x) /\ x.type.kind = u.kind
<1>1. PICK p \in Picks(Before(u.kind)), q \in Picks(After(u.kind)), o \in KidChoices(u, r) :
        x = Optimum(LogicalType(u.kind, u.names, TypesOf(o), <<>>),
                    p \o FlattenSeq(EncodingsOf(o)) \o q)
  BY DEF IsContainer
<1> DEFINE t == x.type
           encs == EncodingsOf(o)
<1>2. /\ x.encodings = p \o FlattenSeq(encs) \o q
      /\ t.kind = u.kind /\ t.names = u.names /\ t.kids = TypesOf(o)
  BY <1>1 DEF Optimum, LogicalType
<1>3. /\ Len(TypesOf(o)) = Len(u.kids) /\ encs \in Seq(Encodings) /\ Len(encs) = Len(u.kids)
      /\ \A k \in DOMAIN u.kids : TypesOf(o)[k] = o[k].type /\ encs[k] = o[k].encodings
  BY ChoiceType
<1>4. CleanChoice(o, u) /\ t \in Types
  OBVIOUS
<1>5. /\ Len(t.kids) = Len(u.kids) /\ \A k \in DOMAIN u.kids : t.kids[k] = o[k].type
      /\ DOMAIN t.kids = DOMAIN u.kids
  <2>1. DOMAIN t.kids = 1..Len(t.kids) /\ DOMAIN u.kids = 1..Len(u.kids)
    BY <1>4, KidTypes
  <2> QED BY <1>2, <1>3, <2>1
<1>6. Before(u.kind) \in Seq(Physical) /\ After(u.kind) \in Seq(Physical)
  BY TypeParts, BeforeType
<1>7. Serving(p, Before(u.kind)) /\ Serving(q, After(u.kind))
  BY <1>6, PicksServe
<1>8. p \in Encodings /\ q \in Encodings
  BY <1>7 DEF Serving
<1> HIDE DEF t, encs
<1>9. CleanTree(t)
  BY <1>2, <1>4, <1>5, NodeClean
<1>10. \A k \in DOMAIN t.kids : Serving(encs[k], OwnFields[t.kids[k]])
  BY <1>3, <1>4, <1>5 DEF CleanChoice, CleanOptimum
<1>11. Serving(p \o FlattenSeq(encs) \o q, OwnFields[t])
  <2>1. t.kind # "struct" /\ Serving(p, Before(t.kind)) /\ Serving(q, After(t.kind))
        /\ Len(encs) = Len(t.kids)
    BY <1>2, <1>3, <1>5, <1>7
  <2> QED BY <1>3, <1>4, <1>8, <1>10, <2>1, ServingNode
<1> QED
  BY <1>2, <1>4, <1>9, <1>11 DEF CleanOptimum, t

(* Where no dictionary is allowed a leaf keeps its type.                    *)
LEMMA NotPromoted ==
  ASSUME NEW t \in Types, t.kind \notin Containers, NEW r, NEW x \in OptimizedFrom(t, r, FALSE)
  PROVE  IsPlain(x, t)
<1>1. "struct" \in Containers
  BY DEF Containers
<1>2. OptimizedFrom(t, r, FALSE) = PlainOptima(t)
  BY <1>1 DEF OptimizedFrom, OptimizedWith
<1> QED
  BY <1>2 DEF PlainOptima, IsPlain

-----------------------------------------------------------------------------
(* What the optimizer returns                                               *)

\* What the optimizer may make of a type; only a promotion changes the kind.
CleanOptima(t) ==
  \A b \in BOOLEAN : \A x \in Optimized[t][b] :
    CleanOptimum(x) /\ (~b => x.type.kind = t.kind)

(* The choices for the children of a type, if those for each are clean.     *)
LEMMA ChoicesClean ==
  ASSUME NEW u \in Types, u \in TypesUpTo[MaxHeight],
         \A k \in DOMAIN u.kids : CleanOptima(u.kids[k])
  PROVE  /\ MaxHeight + 1 \in Nat
         /\ \A k \in DOMAIN u.kids :
              KidOptima(u, Results(Optimized, u), k) \subseteq OptimaUpTo(MaxHeight + 1)
         /\ \A o \in KidChoices(u, Results(Optimized, u)) : CleanChoice(o, u)
<1> DEFINE r == Results(Optimized, u)
           flag(k) == ~(u.kind = "map" /\ k = 1) /\ u.kind # "dict"
<1>1. MaxHeight \in Nat
  BY SchemasAssumption
<1>2. MaxHeight # 0 /\ u.kids \in Seq(TypesUpTo[MaxHeight - 1])
  BY <1>1, LevelOf
<1>3. /\ Len(u.kids) \in Nat /\ DOMAIN u.kids = 1..Len(u.kids)
      /\ \A k \in DOMAIN u.kids : u.kids[k] \in Types
  BY KidTypes
<1>4. ASSUME NEW k \in DOMAIN u.kids
      PROVE  /\ u.kids[k] \in Types /\ u.kids[k] \in TypesUpTo[MaxHeight]
             /\ flag(k) \in BOOLEAN
             /\ KidOptima(u, r, k) = Optimized[u.kids[k]][flag(k)]
  <2> DEFINE T == TypesUpTo[MaxHeight - 1]
  <2>1. u.kids[k] \in T
    <3>1. u.kids \in Seq(T) /\ k \in 1..Len(u.kids)
      BY <1>2, <1>3
    <3> HIDE DEF T
    <3> QED BY <3>1
  <2>2. MaxHeight - 1 \in Nat /\ MaxHeight - 1 <= MaxHeight
    BY <1>1, <1>2
  <2>3. T \subseteq TypesUpTo[MaxHeight]
    BY <1>1, <2>2, TypesMonotone
  <2>4. r[k] = Optimized[u.kids[k]]
    BY OptimizedIs
  <2> QED BY <1>3, <2>1, <2>3, <2>4 DEF KidOptima
<1> HIDE DEF r
<1>5. ASSUME NEW k \in DOMAIN u.kids PROVE KidOptima(u, r, k) \subseteq OptimaUpTo(MaxHeight + 1)
  BY <1>1, <1>4, OptimizedIs
<1>6. ASSUME NEW o \in KidChoices(u, r) PROVE CleanChoice(o, u)
  <2>1. \A k \in DOMAIN u.kids : o[k] \in Optimized[u.kids[k]][flag(k)]
    BY <1>4 DEF KidChoices
  <2>2. \A k \in DOMAIN u.kids : CleanOptima(u.kids[k]) /\ flag(k) \in BOOLEAN
    OBVIOUS
  <2>3. \A k \in DOMAIN u.kids :
          CleanOptimum(o[k]) /\ (~flag(k) => o[k].type.kind = u.kids[k].kind)
    <3> HIDE DEF flag
    <3> QED BY <2>1, <2>2 DEF CleanOptima
  <2>4. u.kind = "map" => o[1].type.kind = u.kids[1].kind
    <3> SUFFICES ASSUME u.kind = "map" PROVE o[1].type.kind = u.kids[1].kind
      OBVIOUS
    <3>1. Len(u.kids) = 2
      BY Shape
    <3>2. 1 \in DOMAIN u.kids /\ ~flag(1)
      BY <1>3, <3>1
    <3> QED BY <2>3, <3>2
  <2> QED BY <2>3, <2>4 DEF CleanChoice
<1>7. MaxHeight + 1 \in Nat
  BY <1>1
<1> QED
  BY <1>5, <1>6, <1>7 DEF r

(* What the optimizer makes of a node, if it does right by the children.    *)
LEMMA OptimumClean ==
  ASSUME NEW u \in Types, u \in TypesUpTo[MaxHeight], u \in SaneNodes,
         \A k \in DOMAIN u.kids : CleanOptima(u.kids[k])
  PROVE  CleanOptima(u)
<1> DEFINE r == Results(Optimized, u)
           h == MaxHeight + 1
<1> SUFFICES ASSUME NEW b \in BOOLEAN, NEW x \in Optimized[u][b]
             PROVE  CleanOptimum(x) /\ (~b => x.type.kind = u.kind)
  BY DEF CleanOptima
<1>1. MaxHeight \in Nat
  BY SchemasAssumption
<1>2. x \in OptimizedFrom(u, r, b)
  BY OptimizedIs
<1>3. x.type \in Types
  <2>1. x \in OptimaUpTo(MaxHeight + 1)
    BY <1>1, OptimizedIs
  <2> QED BY <2>1 DEF OptimaUpTo, Types
<1>4. /\ h \in Nat
      /\ \A k \in DOMAIN u.kids : KidOptima(u, r, k) \subseteq OptimaUpTo(h)
      /\ \A o \in KidChoices(u, r) : CleanChoice(o, u)
  BY ChoicesClean
<1> HIDE DEF r, h
<1>5. CASE u.kind \notin Containers /\ IsPlain(x, u)
  BY <1>5, PlainClean
<1>6. CASE u.kind \in Integral \cup {"utf8"} /\ IsPromoted(x, u)
  <2>1. u.kind \notin Containers
    <3>1. Integral \subseteq DataTypes /\ "utf8" \in Semantic
      BY DEF DataTypes, Semantic
    <3> QED BY <1>6, <3>1, Kinds
  <2>2. DictOf(u) \in Types
    BY <1>1, DictType DEF Types
  <2>3. CleanOptimum(x)
    BY <1>6, <2>1, <2>2, PromotedClean
  <2>4. ~b => IsPlain(x, u)
    <3> SUFFICES ASSUME ~b PROVE IsPlain(x, u)
      OBVIOUS
    <3>1. b = FALSE
      OBVIOUS
    <3>2. x \in OptimizedFrom(u, r, FALSE)
      BY <1>2, <3>1
    <3> QED BY <2>1, <3>2, NotPromoted
  <2>5. ~b => x.type.kind = u.kind
    BY <2>1, <2>4, PlainClean
  <2> QED BY <2>3, <2>5
<1>7. CASE u.kind = "struct" /\ IsStruct(x, u, r)
  BY <1>3, <1>4, <1>7, StructClean
<1>8. CASE u.kind \in Containers \ {"struct"} /\ IsContainer(x, u, r)
  <2>1. u.kind # "struct" /\ IsContainer(x, u, r)
    BY <1>8
  <2> QED BY <1>3, <1>4, <2>1, ContainerClean
<1> QED
  BY <1>2, <1>5, <1>6, <1>7, <1>8, OptimizedForms

(* Nothing but its depth is wrong with a type from the optimizer, whose     *)
(* encodings fit it.                                                        *)
LEMMA OptimizedClean ==
  ASSUME NEW t \in Types, t \in TypesUpTo[MaxHeight], NEW d \in Nat, NodesIn(t, d, SaneNodes)
  PROVE  CleanOptima(t)
<1> DEFINE S == {u \in Types : u \in TypesUpTo[MaxHeight] =>
                                 \A e \in Nat : NodesIn(u, e, SaneNodes) => CleanOptima(u)}
<1>1. MaxHeight \in Nat
  BY SchemasAssumption
<1>2. ASSUME NEW u \in Types, \A k \in DOMAIN u.kids : u.kids[k] \in S
      PROVE  u \in S
  <2> SUFFICES ASSUME u \in TypesUpTo[MaxHeight], NEW e \in Nat, NodesIn(u, e, SaneNodes)
               PROVE  CleanOptima(u)
    OBVIOUS
  <2>1. u \in SaneNodes /\ \A k \in DOMAIN u.kids : NodesIn(u.kids[k], e + 1, SaneNodes)
    BY NodesInIs
  <2>2. MaxHeight # 0 /\ u.kids \in Seq(TypesUpTo[MaxHeight - 1])
    BY <1>1, LevelOf
  <2> DEFINE T == TypesUpTo[MaxHeight - 1]
  <2>3. \A k \in DOMAIN u.kids : u.kids[k] \in T
    <3>1. u.kids \in Seq(T)
      BY <2>2
    <3> HIDE DEF T
    <3> QED BY <3>1
  <2>4. T \subseteq TypesUpTo[MaxHeight]
    <3>1. MaxHeight - 1 \in Nat /\ MaxHeight - 1 <= MaxHeight
      BY <1>1, <2>2
    <3> QED BY <1>1, <3>1, TypesMonotone
  <2>5. \A k \in DOMAIN u.kids : u.kids[k] \in TypesUpTo[MaxHeight]
    BY <2>3, <2>4
  <2>6. e + 1 \in Nat
    OBVIOUS
  <2>7. \A k \in DOMAIN u.kids : CleanOptima(u.kids[k])
    BY <1>2, <2>1, <2>5, <2>6
  <2> QED BY <2>1, <2>7, OptimumClean
<1>3. Types \subseteq S
  <2> HIDE DEF S
  <2> QED BY <1>2, TypeInduction
<1> QED
  BY <1>3

-----------------------------------------------------------------------------
(* Faults                                                                   *)

(* The names of the columns, as a sequence and as a set.                    *)
LEMMA ColumnNames ==
  ASSUME schema.columns \in Seq(Columns)
  PROVE  Distinct(NamesOf(schema.columns)) <=>
           ~(Cardinality({schema.columns[c].name : c \in DOMAIN schema.columns})
               < Len(schema.columns))
<1> DEFINE cols == schema.columns
           names == NamesOf(cols)
<1>1. names = [c \in 1..Len(cols) |-> cols[c].name]
      /\ \A c \in 1..Len(cols) : cols[c].name \in STRING
  <2>1. DOMAIN cols = 1..Len(cols)
    OBVIOUS
  <2>2. \A c \in 1..Len(cols) : cols[c] \in Columns
    OBVIOUS
  <2>3. \A c \in 1..Len(cols) : cols[c].name \in STRING
    <3> HIDE DEF cols
    <3> QED BY <2>2 DEF Columns
  <2> QED BY <2>1, <2>3 DEF NamesOf
<1>2. names \in Seq(STRING) /\ Len(names) = Len(cols) /\ DOMAIN names = DOMAIN cols
  BY <1>1
<1>3. ToSet(names) = {cols[c].name : c \in DOMAIN cols}
  BY <1>1, <1>2 DEF ToSet
<1>4. Distinct(names) <=> ~(Cardinality(ToSet(names)) < Len(names))
  BY <1>2, DistinctIs
<1> HIDE DEF names
<1>5. Distinct(names) <=> ~(Cardinality({cols[c].name : c \in DOMAIN cols}) < Len(cols))
  BY <1>2, <1>3, <1>4
<1> QED
  BY <1>5 DEF names

\* What a spec may not be.
FaultySpec(s) == s.name = "" \/ UnfitEncodings(s)

(* The specs of a struct's fields are as they should be if the node is.     *)
LEMMA NodeSpecs ==
  ASSUME NEW u \in Types, u.kind = "struct"
  PROVE  (\A s \in ToSet(Fields(u)) : ~FaultySpec(s)) <=>
           \A k \in DOMAIN u.kids : /\ u.names[k] # ""
                                    /\ Serving(u.encodings[k], OwnFields[u.kids[k]])
<1>1. DOMAIN Fields(u) = DOMAIN u.kids
  BY DEF Fields
<1>2. ASSUME NEW k \in DOMAIN u.kids
      PROVE  ~FaultySpec(Fields(u)[k]) <=>
               u.names[k] # "" /\ Serving(u.encodings[k], OwnFields[u.kids[k]])
  <2>1. /\ Fields(u)[k].name = u.names[k] /\ Fields(u)[k].type = u.kids[k]
        /\ Fields(u)[k].encodings = u.encodings[k]
    BY FieldsIs
  <2>2. Fields(u)[k].type \in Types /\ Fields(u)[k].encodings \in Encodings
    BY NodeFields
  <2> DEFINE s == Fields(u)[k]
  <2>3. UnfitEncodings(s) <=> ~Serving(s.encodings, OwnFields[s.type])
    <3> HIDE DEF s
    <3>1. s.type \in Types /\ s.encodings \in Encodings
      BY <2>2 DEF s
    <3> QED BY <3>1, FitEncodings
  <2> QED BY <2>1, <2>3 DEF FaultySpec
<1>3. (\A s \in ToSet(Fields(u)) : ~FaultySpec(s)) <=> \A k \in DOMAIN u.kids : ~FaultySpec(Fields(u)[k])
  BY <1>1 DEF ToSet
<1> QED
  BY <1>2, <1>3

(* Nothing but its depth is wrong with a schema exactly if its names are    *)
(* distinct and nothing but its depth is wrong with any column.             *)
LEMMA FaultIs ==
  ASSUME schema.columns \in Seq(Columns)
  PROVE  /\ TooDeep <=> \E c \in DOMAIN schema.columns : ~Shallow(schema.columns[c])
         /\ ~HasFault <=> /\ Distinct(NamesOf(schema.columns))
                          /\ \A c \in DOMAIN schema.columns : CleanColumn(schema.columns[c])
<1> DEFINE cols == schema.columns
<1>1. \A c \in DOMAIN cols : cols[c] \in Columns
  OBVIOUS
<1>2. \A c \in DOMAIN cols : cols[c].type \in Types /\ cols[c].encodings \in Encodings
  BY <1>1 DEF Columns
<1>3. AllNodes = UNION {Nodes[cols[c].type][0] : c \in DOMAIN cols}
  BY DEF AllNodes
<1>4. \A c \in DOMAIN cols : \A n \in Nodes[cols[c].type][0] : n.node \in Types
  <2>1. 0 \in Nat
    OBVIOUS
  <2> QED BY <1>2, <2>1, NodesIs
<1>5. TooDeep <=> \E c \in DOMAIN cols : ~Shallow(cols[c])
  BY <1>3 DEF TooDeep, Shallow, Deep
<1> DEFINE SpecsRight == \A s \in AllSpecs : ~FaultySpec(s)
           NodesRight == \A n \in AllNodes : ~UnfitNode(n.node)
<1>6. SpecsRight <=> /\ \A c \in DOMAIN cols : ~FaultySpec(cols[c])
                     /\ \A n \in AllNodes : n.node.kind = "struct" =>
                          \A s \in ToSet(Fields(n.node)) : ~FaultySpec(s)
  BY DEF AllSpecs, ToSet
<1>7. \A c \in DOMAIN cols : ~FaultySpec(cols[c]) <=>
        cols[c].name # "" /\ Serving(cols[c].encodings, OwnFields[cols[c].type])
  BY <1>2, FitEncodings DEF FaultySpec
<1>8. ASSUME NEW n \in AllNodes
      PROVE  /\ ~UnfitNode(n.node)
             /\ n.node.kind = "struct" => \A s \in ToSet(Fields(n.node)) : ~FaultySpec(s)
             <=> n.node \in CleanNodes
  <2>1. n.node \in Types
    BY <1>3, <1>4
  <2>2. n.node.kind = "struct" =>
          ((\A s \in ToSet(Fields(n.node)) : ~FaultySpec(s)) <=>
             \A k \in DOMAIN n.node.kids :
               /\ n.node.names[k] # ""
               /\ Serving(n.node.encodings[k], OwnFields[n.node.kids[k]]))
    <3> DEFINE u == n.node
    <3>1. u \in Types
      BY <2>1
    <3> HIDE DEF u
    <3>2. u.kind = "struct" =>
            ((\A s \in ToSet(Fields(u)) : ~FaultySpec(s)) <=>
               \A k \in DOMAIN u.kids : /\ u.names[k] # ""
                                        /\ Serving(u.encodings[k], OwnFields[u.kids[k]]))
      BY <3>1, NodeSpecs
    <3> QED BY <3>2 DEF u
  <2> HIDE DEF FaultySpec
  <2> QED BY <2>1, <2>2 DEF CleanNodes, CleanNode
<1>9. (\A n \in AllNodes : n.node \in CleanNodes) <=>
        \A c \in DOMAIN cols : NodesIn(cols[c].type, 0, CleanNodes)
  BY <1>3 DEF NodesIn
<1>10. ~HasFault <=> /\ ~(Cardinality({cols[c].name : c \in DOMAIN cols}) < Len(cols))
                     /\ SpecsRight /\ NodesRight
  BY DEF HasFault, FaultySpec
<1>11. Distinct(NamesOf(cols)) <=>
         ~(Cardinality({cols[c].name : c \in DOMAIN cols}) < Len(cols))
  BY ColumnNames
<1>12. SpecsRight /\ NodesRight <=> /\ \A c \in DOMAIN cols : ~FaultySpec(cols[c])
                                    /\ \A n \in AllNodes : n.node \in CleanNodes
  <2> HIDE DEF SpecsRight
  <2> QED BY <1>6, <1>8
<1>13. \A c \in DOMAIN cols :
         CleanColumn(cols[c]) <=> /\ ~FaultySpec(cols[c])
                                  /\ NodesIn(cols[c].type, 0, CleanNodes)
  BY <1>7 DEF CleanColumn
<1>14. SpecsRight /\ NodesRight <=> \A c \in DOMAIN cols : CleanColumn(cols[c])
  <2> HIDE DEF SpecsRight, NodesRight
  <2> QED BY <1>9, <1>12, <1>13
<1> HIDE DEF SpecsRight, NodesRight
<1> QED
  BY <1>5, <1>10, <1>11, <1>14

-----------------------------------------------------------------------------
(* Where schemas come from                                                  *)

\* What the adapters and the optimizer make is clean until it is written.
Origins ==
  phase \in {"draft", "refused"} /\ origin # "caller" =>
    /\ Distinct(NamesOf(schema.columns))
    /\ \A c \in DOMAIN schema.columns : CleanColumn(schema.columns[c])

(* A clean column with a new name leaves the columns clean.                 *)
LEMMA ColumnAdded ==
  ASSUME TypeOK, Origins, NEW from \in {"adapter", "optimizer"}, NEW s, AddColumn(from, s),
         s \in Columns, CleanColumn(s),
         \A c \in DOMAIN schema.columns : schema.columns[c].name # s.name
  PROVE  Origins'
<1> DEFINE V == Columns
           cols == schema.columns
           new == Append(cols, s)
           n == Len(cols)
<1>1. /\ phase = "draft" /\ origin = from /\ phase' = phase /\ origin' = origin
      /\ schema' = [schema EXCEPT !.columns = Append(@, s)]
  BY DEF AddColumn
<1>2. schema \in [version : Nat, columns : Seq(V)] /\ s \in V
  BY DEF TypeOK
<1>3. schema'.columns = new
  <2> HIDE DEF V
  <2> QED BY <1>1, <1>2
<1>4. /\ Distinct(NamesOf(cols))
      /\ \A c \in DOMAIN cols : CleanColumn(cols[c])
  BY <1>1 DEF Origins
<1>5. cols \in Seq(V)
  <2> HIDE DEF V
  <2> QED BY <1>2
<1>6. \A c \in DOMAIN cols : cols[c].name # s.name
  OBVIOUS
<1> HIDE DEF V, cols
<1>7. /\ n \in Nat /\ DOMAIN cols = 1..n /\ DOMAIN new = 1..(n + 1)
      /\ new[n + 1] = s /\ \A c \in 1..n : new[c] = cols[c]
  BY <1>2, <1>5
<1> HIDE DEF new, n
<1>8. \A c \in DOMAIN new : CleanColumn(new[c])
  <2> SUFFICES ASSUME NEW c \in 1..(n + 1) PROVE CleanColumn(new[c])
    BY <1>7
  <2>1. CASE c = n + 1
    BY <1>7, <2>1
  <2>2. CASE c # n + 1
    <3>1. c \in 1..n
      BY <1>7, <2>2
    <3> QED BY <1>4, <1>7, <3>1
  <2> QED BY <2>1, <2>2
<1>9. Distinct(NamesOf(new))
  <2>1. /\ DOMAIN NamesOf(new) = 1..(n + 1) /\ \A c \in 1..(n + 1) : NamesOf(new)[c] = new[c].name
        /\ DOMAIN NamesOf(cols) = 1..n /\ \A c \in 1..n : NamesOf(cols)[c] = cols[c].name
    BY <1>7 DEF NamesOf
  <2> SUFFICES ASSUME NEW i \in 1..(n + 1), NEW j \in 1..(n + 1), new[i].name = new[j].name
               PROVE  i = j
    BY <2>1 DEF Distinct
  <2>2. CASE i = n + 1 /\ j = n + 1
    BY <2>2
  <2>3. CASE i # n + 1 /\ j = n + 1
    <3>1. i \in 1..n
      BY <1>7, <2>3
    <3> QED BY <1>6, <1>7, <2>3, <3>1
  <2>4. CASE i = n + 1 /\ j # n + 1
    <3>1. j \in 1..n
      BY <1>7, <2>4
    <3> QED BY <1>6, <1>7, <2>4, <3>1
  <2>5. CASE i # n + 1 /\ j # n + 1
    <3>1. i \in 1..n /\ j \in 1..n
      BY <1>7, <2>5
    <3>2. cols[i].name = cols[j].name
      BY <1>7, <3>1
    <3> QED BY <1>4, <2>1, <3>1, <3>2 DEF Distinct
  <2> QED BY <2>2, <2>3, <2>4, <2>5
<1> QED
  BY <1>3, <1>8, <1>9 DEF Origins

(* A generated column has a new name and is clean.                          *)
LEMMA GeneratedAdded ==
  ASSUME TypeOK, Origins, GenerateColumn
  PROVE  Origins'
<1>1. PICK t \in Shapes :
        /\ Unused # {}
        /\ AddColumn("adapter", ColumnSpec(NewName, Generated[t], DefaultEncodings[Generated[t]]))
  BY DEF GenerateColumn
<1> DEFINE g == Generated[t]
           s == ColumnSpec(NewName, g, DefaultEncodings[g])
<1>2. s.name = NewName /\ s.type = g /\ s.encodings = DefaultEncodings[g]
  BY DEF ColumnSpec
<1>3. /\ NewName \in STRING \ {""}
      /\ \A c \in DOMAIN schema.columns : schema.columns[c].name # NewName
  BY <1>1, NewNameIs
<1>4. s \in Columns
  BY <1>3, GeneratedTyped
<1>5. t \in Types /\ NodesIn(t, 0, FoundNodes) /\ 0 \in Nat
  BY ShapesSane
<1>6. g \in Types /\ CleanTree(g) /\ DefaultsServed(g)
  BY <1>5, GeneratedIs, GeneratedClean
<1>7. Serving(DefaultEncodings[g], OwnFields[g]) /\ NodesIn(g, 0, CleanNodes)
  <2> HIDE DEF g
  <2> QED BY <1>5, <1>6 DEF CleanTree, DefaultsServed
<1>8. CleanColumn(s)
  <2> HIDE DEF g, s
  <2> QED BY <1>2, <1>3, <1>7 DEF CleanColumn
<1>9. AddColumn("adapter", s) /\ \A c \in DOMAIN schema.columns : schema.columns[c].name # s.name
  BY <1>1, <1>2, <1>3
<1> HIDE DEF s
<1> QED
  BY <1>4, <1>8, <1>9, ColumnAdded

(* So has an optimized one.                                                 *)
LEMMA OptimizedAdded ==
  ASSUME TypeOK, Origins, OptimizeColumn
  PROVE  Origins'
<1>1. PICK o \in Optima : /\ Unused # {}
                          /\ AddColumn("optimizer", ColumnSpec(NewName, o.type, o.encodings))
  BY DEF OptimizeColumn
<1> DEFINE s == ColumnSpec(NewName, o.type, o.encodings)
<1>2. s.name = NewName /\ s.type = o.type /\ s.encodings = o.encodings
  BY DEF ColumnSpec
<1>3. /\ NewName \in STRING \ {""}
      /\ \A c \in DOMAIN schema.columns : schema.columns[c].name # NewName
  BY <1>1, NewNameIs
<1>4. s \in Columns
  BY <1>3, OptimaTyped
<1>5. PICK t \in Samples : o \in Optimized[t][TRUE]
  BY DEF Optima
<1>6. t \in Types /\ t \in TypesUpTo[MaxHeight] /\ NodesIn(t, 0, SaneNodes) /\ 0 \in Nat
  BY ShapesTyped, ShapesSane
<1>7. CleanOptimum(o)
  <2>1. CleanOptima(t)
    BY <1>6, OptimizedClean
  <2> QED BY <1>5, <2>1 DEF CleanOptima
<1>8. CleanColumn(s)
  <2> HIDE DEF s
  <2> QED BY <1>2, <1>3, <1>6, <1>7 DEF CleanColumn, CleanOptimum, CleanTree
<1>9. AddColumn("optimizer", s) /\ \A c \in DOMAIN schema.columns : schema.columns[c].name # s.name
  BY <1>1, <1>2, <1>3
<1> HIDE DEF s
<1> QED
  BY <1>4, <1>8, <1>9, ColumnAdded

(* No step soils what the program made itself.                              *)
LEMMA OriginsKept ==
  ASSUME TypeOK, Histories, Origins, [Next]_vars
  PROVE  Origins'
<1>1. CASE StateColumn
  <2>1. PICK spec \in Specs : AddColumn("caller", spec)
    BY <1>1 DEF StateColumn
  <2>2. origin' = "caller"
    BY <2>1 DEF AddColumn
  <2> QED BY <2>2 DEF Origins
<1>2. CASE GenerateColumn
  BY <1>2, GeneratedAdded
<1>3. CASE OptimizeColumn
  BY <1>3, OptimizedAdded
<1>4. CASE NewWriter
  <2>1. phase = "draft" /\ origin' = origin /\ schema' = schema
    BY <1>4 DEF NewWriter
  <2> QED BY <2>1 DEF Origins
<1>5. CASE OpenReader
  <2> DEFINE built == IF FromJson(schema) THEN ResolveAll(schema.columns) ELSE Fail
  <2>1. phase' = CASE built = Fail -> "unreadable"
                   [] built = Panic -> "panicked"
                   [] OTHER -> "open"
    BY <1>5 DEF OpenReader
  <2> HIDE DEF built
  <2>2. phase' \in {"unreadable", "panicked", "open"}
    BY <2>1
  <2> QED BY <2>2 DEF Origins
<1>6. CASE Project
  <2>1. /\ phase = "open"
        /\ source' = [columns |-> schema.columns, pipelines |-> opened]
        /\ \E n \in 1..Len(schema.columns) : TRUE
    BY <1>6 DEF Project
  <2>2. schema.columns \in Seq(Columns)
    BY DEF TypeOK
  <2>3. schema.columns # <<>>
    <3> DEFINE V == Columns
    <3>1. schema.columns \in Seq(V)
      BY <2>2
    <3> HIDE DEF V
    <3> QED BY <2>1, <3>1
  <2>4. source' # Nothing
    BY <2>1, <2>3, NothingIs
  <2>5. Histories'
    BY <1>6, ProjectTyped
  <2>6. phase' # "refused" /\ phase' # "draft"
    BY <2>4, <2>5 DEF Histories, Nothing, Accepted
  <2> QED BY <2>6 DEF Origins
<1>7. CASE UNCHANGED vars
  <2>1. phase' = phase /\ origin' = origin /\ schema' = schema
    BY <1>7 DEF vars
  <2> QED BY <2>1 DEF Origins
<1> QED
  BY <1>1, <1>2, <1>3, <1>4, <1>5, <1>6, <1>7 DEF Next

(* What the states say of refusals.                                         *)
LEMMA StatesJudged ==
  ASSUME TypeOK, Histories, Origins
  PROVE  RefusedForCause
<1>1. schema.columns \in Seq(Columns)
  BY DEF TypeOK
<1> DEFINE distinct == Distinct(NamesOf(schema.columns))
           clean == \A c \in DOMAIN schema.columns : CleanColumn(schema.columns[c])
           shallow == \A c \in DOMAIN schema.columns : Shallow(schema.columns[c])
<1>2. Accepted(schema) <=> distinct /\ clean /\ shallow
  BY <1>1, AcceptedIs
<1>3. (TooDeep <=> ~shallow) /\ (~HasFault <=> distinct /\ clean)
  BY <1>1, FaultIs
<1>4. phase = "refused" => ~Accepted(schema)
  BY DEF Histories
<1>5. phase = "written" => Accepted(schema)
  BY DEF Histories
<1>6. phase = "refused" /\ origin # "caller" => distinct /\ clean
  BY DEF Origins
<1> HIDE DEF distinct, clean, shallow
<1>7. phase = "refused" => TooDeep \/ (HasFault /\ origin = "caller")
  BY <1>2, <1>3, <1>4, <1>6
<1>8. phase = "written" => ~TooDeep /\ ~HasFault
  BY <1>2, <1>3, <1>5
<1> QED
  BY <1>7, <1>8 DEF RefusedForCause

(* A writer refuses a schema exactly if something is wrong with it or it is *)
(* too deep: validation and the pipelines' construction, which follow two   *)
(* recursions over the type, together refuse what has a fault and nothing   *)
(* else.  What the adapters generate and the optimizer returns from sound    *)
(* types is refused for its depth only.                                     *)
THEOREM RefusedForCauseHolds == Spec => []RefusedForCause
<1>1. Init => Origins
  BY DEF Init, Origins, Distinct, NamesOf
<1>2. TypeOK /\ Histories /\ Origins /\ [Next]_vars => Origins'
  BY OriginsKept
<1>3. TypeOK /\ Histories /\ Origins => RefusedForCause
  BY StatesJudged
<1> QED
  BY <1>1, <1>2, <1>3, SchemaStates, PTL DEF Spec

=============================================================================
