----------------------------- MODULE ArrowBridge -----------------------------
(***************************************************************************)
(* Logical columns as Arrow arrays and back (src/src/arrow), and the types *)
(* of both sides (src/src/arrow/schema.rs).                                *)
(*                                                                         *)
(* An array is a tree like a column, but a null takes a slot: `valid' says *)
(* which slots hold a value, and there is no "nullable" node.  `own' are   *)
(* the values, offsets, type ids or keys; `at' is, for a union, the slot   *)
(* of the variant's child that each slot stands for.  An array field has   *)
(* the same shape: its kind, names, children and whether it may be null.   *)
(* take, concat and slice are Arrow's.                                     *)
(***************************************************************************)
EXTENDS LogicalColumn

Array(kind, names, valid, own, at, kids) ==
  [kind |-> kind, names |-> names, valid |-> valid, own |-> own, at |-> at,
   kids |-> kids]

Slots(a) == Len(a.valid)
AllValid(n) == [i \in 1..n |-> TRUE]
Nowhere(n) == [i \in 1..n |-> 0]

\* In what order the rows of a union are found in its variants.
Ranks(tags) == [i \in DOMAIN tags |-> Tally(SubSeq(tags, 1, i - 1), tags[i])]

Pick(seq, slots) == [i \in DOMAIN slots |-> seq[slots[i]]]

\* Slices keep the children of lists, maps, unions and dictionaries whole.
RECURSIVE SliceArray(_, _, _)
SliceArray(a, start, count) ==
  LET Cut(seq, n) == SubSeq(seq, start + 1, start + n)
      own == CASE a.kind = "struct" -> <<>>
               [] a.kind \in {"list", "map"} -> Cut(a.own, count + 1)
               [] OTHER -> Cut(a.own, count)
      kids == IF a.kind = "struct"
              THEN [k \in DOMAIN a.kids |-> SliceArray(a.kids[k], start, count)]
              ELSE a.kids
  IN Array(a.kind, a.names, Cut(a.valid, count), own, Cut(a.at, count), kids)

\* The slots of an array, given one after the other, as an array of their own.
RECURSIVE Take(_, _)
Take(a, slots) ==
  LET Entries(i) == [e \in 1..a.own[i + 1] - a.own[i] |-> a.own[i] + e]
      entries == FlattenSeq([i \in DOMAIN slots |-> Entries(slots[i])])
      Length(i) == a.own[slots[i] + 1] - a.own[slots[i]]
      Of(k) == SelectSeq(slots, LAMBDA s : a.own[s] = k - 1)
      own == CASE a.kind = "struct" -> <<>>
               [] a.kind \in {"list", "map"} ->
                    [n \in 1..Len(slots) + 1 |->
                       Total([i \in 1..n - 1 |-> Length(i)])]
               [] OTHER -> Pick(a.own, slots)
      Kid(k) == CASE a.kind = "struct" -> Take(a.kids[k], slots)
                  [] a.kind \in {"list", "map"} -> Take(a.kids[k], entries)
                  [] a.kind = "union" ->
                       Take(a.kids[k], [i \in DOMAIN Of(k) |-> a.at[Of(k)[i]] + 1])
                  [] OTHER -> a.kids[k]
  IN Array(a.kind, a.names, Pick(a.valid, slots), own,
           IF a.kind = "union" THEN Ranks(own) ELSE Nowhere(Len(slots)),
           [k \in DOMAIN a.kids |-> Kid(k)])

RECURSIVE Stack(_, _)
Stack(a, b) ==
  LET own == CASE a.kind \in {"list", "map"} ->
                    a.own \o [i \in 1..Slots(b) |-> Last(a.own) + b.own[i + 1]]
               [] a.kind = "dict" ->
                    a.own \o [i \in 1..Slots(b) |-> Slots(a.kids[1]) + b.own[i]]
               [] OTHER -> a.own \o b.own
      at == IF a.kind = "union"
            THEN a.at \o [i \in 1..Slots(b) |->
                            Slots(a.kids[b.own[i] + 1]) + b.at[i]]
            ELSE a.at \o b.at
  IN Array(a.kind, a.names, a.valid \o b.valid, own, at,
           [k \in DOMAIN a.kids |-> Stack(a.kids[k], b.kids[k])])

-----------------------------------------------------------------------------
(* From columns to arrays.                                                 *)

RECURSIVE EmptyColumn(_)
EmptyColumn(t) ==
  Column(t.kind, IF t.kind \in {"list", "map"} THEN <<0>> ELSE <<>>,
         [k \in DOMAIN t.kids |-> EmptyColumn(t.kids[k])])

\* One row that stands in for a null.
RECURSIVE ZeroRow(_)
ZeroRow(t) ==
  LET own == CASE t.kind = "struct" -> <<>>
               [] t.kind \in {"list", "map"} -> <<0, 0>>
               [] t.kind = "nullable" -> <<FALSE>>
               [] t.kind = "utf8" -> << <<>> >>
               [] OTHER -> <<0>>
      Kid(k) == IF t.kind \in {"list", "map"} \/ (t.kind = "union" /\ k > 1)
                THEN EmptyColumn(t.kids[k]) ELSE ZeroRow(t.kids[k])
  IN Column(t.kind, own, [k \in DOMAIN t.kids |-> Kid(k)])

\* Mutant: the zero row is not counted.
ScatteredFromZero(present) ==
  [i \in DOMAIN present |->
     IF present[i] THEN Tally(SubSeq(present, 1, i), TRUE) ELSE 1]

\* The present rows of a compact column, behind one zero row.
Scattered(present) ==
  [i \in DOMAIN present |->
     IF present[i] THEN Tally(SubSeq(present, 1, i), TRUE) + 1 ELSE 1]

RECURSIVE ToArrow(_, _)

\* A compact column with its nulls; a union has no validity of its own.
NullableToArrow(present, compact, t) ==
  IF t.kind = "union" /\ Tally(present, FALSE) > 0 THEN Err
  ELSE [Take(Stack(ToArrow(ZeroRow(t), t), compact), Scattered(present))
          EXCEPT !.valid = present]

\* The offsets of Arrow's lists are i32.
NestedToArrow(c, t, kids) ==
  IF t.kind \in {"list", "map"} /\ Last(c.own) >= Word \div 2 THEN Err
  ELSE LET rows == RowCount(c)
       IN Array(t.kind, t.names, AllValid(rows), c.own,
                IF t.kind = "union" THEN Ranks(c.own) ELSE Nowhere(rows), kids)

ToArrow(c, t) ==
  LET kids == [k \in DOMAIN t.kids |-> ToArrow(c.kids[k], t.kids[k])]
  IN CASE \E k \in DOMAIN kids : kids[k] = Err -> Err
       [] t.kind = "nullable" -> NullableToArrow(c.own, kids[1], t.kids[1])
       [] OTHER -> NestedToArrow(c, t, kids)

-----------------------------------------------------------------------------
(* From arrays to columns of a given type.                                 *)

\* Mutant: the right number of slots, from the first one on.
FirstSlots(a) == [i \in 1..Tally(a.valid, TRUE) |-> i]

ValidSlots(a) == SelectSeq([i \in 1..Slots(a) |-> i], LAMBDA i : a.valid[i])

RECURSIVE FromArrow(_, _)

\* extract_valid_rows; flat values are taken whatever the type is.
ValidRows(a, t) ==
  IF a.kind \in {"primitive", "utf8"}
  THEN Column(a.kind, Pick(a.own, ValidSlots(a)), <<>>)
  ELSE FromArrow(Take(a, ValidSlots(a)), t)

NullableFromArrow(a, t) ==
  LET inner == IF Tally(a.valid, FALSE) = 0 THEN FromArrow(a, t)
               ELSE ValidRows(a, t)
  IN IF inner = Err THEN Err ELSE Column("nullable", a.valid, <<inner>>)

\* The offsets and the children of a slice are taken as they are.
NestedFromArrow(a, t) ==
  LET kids == [k \in DOMAIN t.kids |-> FromArrow(a.kids[k], t.kids[k])]
  IN IF \E k \in DOMAIN kids : kids[k] = Err THEN Err
     ELSE Column(t.kind, a.own, kids)

\* Validity counts only where the type is nullable.
FromArrow(a, t) ==
  CASE t.kind = "nullable" -> NullableFromArrow(a, t.kids[1])
    [] a.kind # t.kind \/ Len(a.kids) # Len(t.kids) -> Err
    [] OTHER -> NestedFromArrow(a, t)

-----------------------------------------------------------------------------
(* The types of both sides.                                                *)

LogicalType(kind, names, kids) == [kind |-> kind, names |-> names, kids |-> kids]
ArrowField(kind, names, kids, nullable) ==
  [kind |-> kind, names |-> names, kids |-> kids, nullable |-> nullable]

Optional(t) == LogicalType("nullable", <<>>, <<t>>)

\* arrow_data_type_to_helium: the fields of structs and the values of maps may
\* be null; of list items, variants, dictionary values and keys only the type
\* counts.
RECURSIVE HeliumType(_)
HeliumType(f) ==
  LET Kid(k) == LET below == HeliumType(f.kids[k])
                IN IF /\ f.kids[k].nullable
                      /\ f.kind = "struct" \/ (f.kind = "map" /\ k = 2)
                   THEN Optional(below) ELSE below
  IN LogicalType(f.kind, f.names, [k \in DOMAIN f.kids |-> Kid(k)])

ColumnType(f) == IF f.nullable THEN Optional(HeliumType(f)) ELSE HeliumType(f)

\* logical_type_to_arrow, and the fields that to_arrow gives its arrays; they
\* differ in the values of maps.
RECURSIVE FieldOf(_, _, _)
FieldOf(t, nullable, mapValues) ==
  LET Kid(k) == LET kid == t.kids[k]
                    optional == kid.kind = "nullable"
                IN FieldOf(kid, CASE t.kind \in {"list", "union"} -> TRUE
                                  [] t.kind = "struct" -> optional
                                  [] t.kind = "map" /\ k = 2 ->
                                       mapValues \/ optional
                                  [] OTHER -> FALSE, mapValues)
  IN IF t.kind = "nullable" THEN FieldOf(t.kids[1], nullable, mapValues)
     ELSE ArrowField(t.kind, t.names, [k \in DOMAIN t.kids |-> Kid(k)], nullable)

SchemaField(t) == FieldOf(t, t.kind = "nullable", FALSE)
FieldOfArray(t) == FieldOf(t, t.kind = "nullable", TRUE)

\* read_record_batch for one column: the batch wants the schema's own types.
RecordBatch(c, t) ==
  IF FieldOfArray(t) # SchemaField(t) THEN Err ELSE ToArrow(c, t)

=============================================================================
