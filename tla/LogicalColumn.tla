---------------------------- MODULE LogicalColumn ----------------------------
(***************************************************************************)
(* The logical columns of src/src/core/schema.rs: how a column is taken    *)
(* apart into the physical leaves of a stripe, put together again, cut     *)
(* into windows, and joined across stripes (src/src/core/file.rs).         *)
(*                                                                         *)
(* A column is a tree.  `own' is the sequence that a node holds itself:    *)
(* its values ("primitive", "date", "decimal"; "utf8", which also stands   *)
(* for Binary: sequences of bytes), offsets ("list", "map"), presence      *)
(* ("nullable"), tags ("union") or indices ("dict"); a "struct" holds      *)
(* none.  A type is a tree of the same shape; `names' names the fields of  *)
(* a struct and the variants of a union.  `Err' is an error result.        *)
(***************************************************************************)
EXTENDS Integers, Sequences, FiniteSets, SequencesExt

CONSTANTS Word,    \* the number of values of a u32
          Half,    \* 2^64: a decimal has twice the bits of a leaf value
          Err

Column(kind, own, kids) == [kind |-> kind, own |-> own, kids |-> kids]

Total(numbers) == FoldLeft(LAMBDA sum, n : sum + n, 0, numbers)
Tally(seq, v) == Cardinality({i \in DOMAIN seq : seq[i] = v})

RECURSIVE RowCount(_)
RowCount(c) ==
  CASE c.kind = "struct" -> IF c.kids = <<>> THEN 0 ELSE RowCount(c.kids[1])
    [] c.kind \in {"list", "map"} -> IF c.own = <<>> THEN 0 ELSE Len(c.own) - 1
    [] OTHER -> Len(c.own)

\* How many leaves of a type's own come before and after those of its children.
LeavesBefore(t) == CASE t.kind \in {"utf8", "decimal"} -> 2
                     [] t.kind \in {"struct", "dict"} -> 0
                     [] OTHER -> 1
LeavesAfter(t) == IF t.kind = "dict" THEN 1 ELSE 0

RECURSIVE Leaves(_)
Leaves(t) ==
  LeavesBefore(t) + LeavesAfter(t)
    + Total([k \in DOMAIN t.kids |-> Leaves(t.kids[k])])

-----------------------------------------------------------------------------
(* Taking a column apart.                                                  *)

ValidOffsets(offsets, count) ==
  /\ offsets # <<>>
  /\ offsets[1] = 0
  /\ Last(offsets) = count
  /\ \A i \in 1..Len(offsets) - 1 : offsets[i] <= offsets[i + 1]

\* What decompose requires of a node and its children.
Consistent(c) ==
  LET Rows(k) == RowCount(c.kids[k])
  IN CASE c.kind \in {"list", "map"} ->
             /\ \A k \in DOMAIN c.kids : Rows(k) = Rows(1)
             /\ ValidOffsets(c.own, Rows(1))
       [] c.kind = "nullable" -> Tally(c.own, TRUE) = Rows(1)
       [] c.kind = "union" ->
             /\ \A i \in DOMAIN c.own : c.own[i] < Len(c.kids)
             /\ \A k \in DOMAIN c.kids : Rows(k) = Tally(c.own, k - 1)
       [] c.kind = "dict" -> \A i \in DOMAIN c.own : c.own[i] < Rows(1)
       [] c.kind = "utf8" -> Len(FlattenSeq(c.own)) < Word
       [] OTHER -> TRUE

Signed(n) == IF n >= Half \div 2 THEN n - Half ELSE n

\* Mutant: the low half is taken for signed again.
SignExtended(n) == n

Unsigned(n) == n % Half

OwnLeaves(c) ==
  LET Each(Op(_)) == [i \in DOMAIN c.own |-> Op(c.own[i])]
  IN CASE c.kind = "struct" -> <<>>
       [] c.kind = "utf8" ->
             << [i \in 1..Len(c.own) + 1 |->
                   Len(FlattenSeq(SubSeq(c.own, 1, i - 1)))],
                FlattenSeq(c.own) >>
       [] c.kind = "decimal" -> << Each(LAMBDA v : v \div Half),
                                   Each(LAMBDA v : Signed(v % Half)) >>
       [] c.kind = "nullable" -> << Each(LAMBDA p : IF p THEN 1 ELSE 0) >>
       [] OTHER -> << c.own >>

RECURSIVE Decompose(_, _)
Decompose(c, t) ==
  IF c.kind # t.kind \/ Len(c.kids) # Len(t.kids) \/ ~Consistent(c)
  THEN Err
  ELSE LET below == [k \in DOMAIN c.kids |-> Decompose(c.kids[k], t.kids[k])]
       IN IF \E k \in DOMAIN below : below[k] = Err THEN Err
          ELSE IF t.kind = "dict" THEN FlattenSeq(below) \o OwnLeaves(c)
               ELSE OwnLeaves(c) \o FlattenSeq(below)

-----------------------------------------------------------------------------
(* Putting it together again.                                              *)

\* The leaves of child k.
KidLeaves(leaves, t, k) ==
  LET skipped == LeavesBefore(t) + Total([j \in 1..k - 1 |-> Leaves(t.kids[j])])
  IN SubSeq(leaves, skipped + 1, skipped + Leaves(t.kids[k]))

\* The rows that leaves stand for, when the row count is not at hand: the
\* cardinality of a dictionary.
RECURSIVE LeafRows(_, _)
LeafRows(leaves, t) ==
  IF leaves = <<>> THEN Err
  ELSE CASE t.kind \in {"utf8", "list", "map"} ->
               IF leaves[1] = <<>> THEN 0 ELSE Len(leaves[1]) - 1
         [] t.kind = "struct" -> LeafRows(KidLeaves(leaves, t, 1), t.kids[1])
         [] t.kind = "dict" -> Len(Last(leaves))
         [] OTHER -> Len(leaves[1])

\* compose does not look at the length of a primitive leaf.
LengthsFit(leaves, t, rows) ==
  CASE t.kind = "utf8" ->
         /\ Len(leaves[1]) = rows + 1
         /\ \A i \in 1..rows : /\ leaves[1][i] <= leaves[1][i + 1]
                               /\ leaves[1][i + 1] <= Len(leaves[2])
    [] t.kind \in {"list", "map"} -> Len(leaves[1]) = rows + 1
    [] t.kind \in {"date", "nullable"} -> Len(leaves[1]) = rows
    [] t.kind = "decimal" -> Len(leaves[1]) = rows /\ Len(leaves[2]) = rows
    [] t.kind = "union" -> /\ Len(leaves[1]) = rows
                           /\ \A i \in 1..rows : leaves[1][i] < Len(t.kids)
    [] t.kind = "dict" -> Len(Last(leaves)) = rows
    [] OTHER -> TRUE

OwnOf(leaves, t) ==
  CASE t.kind = "struct" -> <<>>
    [] t.kind = "utf8" ->
         [i \in 1..Len(leaves[1]) - 1 |->
            SubSeq(leaves[2], leaves[1][i] + 1, leaves[1][i + 1])]
    [] t.kind = "decimal" -> [i \in DOMAIN leaves[1] |->
                                leaves[1][i] * Half + Unsigned(leaves[2][i])]
    [] t.kind = "nullable" -> [i \in DOMAIN leaves[1] |-> leaves[1][i] # 0]
    [] t.kind = "dict" -> Last(leaves)
    [] OTHER -> leaves[1]

\* The rows of child k, from what the node itself holds.
KidRows(own, leaves, t, rows, k) ==
  CASE t.kind \in {"list", "map"} -> Last(own)
    [] t.kind = "nullable" -> Tally(own, TRUE)
    [] t.kind = "union" -> Tally(own, k - 1)
    [] t.kind = "dict" -> LeafRows(KidLeaves(leaves, t, 1), t.kids[1])
    [] OTHER -> rows

RECURSIVE Compose(_, _, _)
Compose(leaves, t, rows) ==
  IF rows = Err \/ Len(leaves) # Leaves(t) \/ ~LengthsFit(leaves, t, rows)
  THEN Err
  ELSE LET own == OwnOf(leaves, t)
           below == [k \in DOMAIN t.kids |->
                       Compose(KidLeaves(leaves, t, k), t.kids[k],
                               KidRows(own, leaves, t, rows, k))]
           column == Column(t.kind, own, below)
       IN IF \/ \E k \in DOMAIN below : below[k] = Err
             \/ t.kind = "dict" /\ ~Consistent(column)
          THEN Err ELSE column

-----------------------------------------------------------------------------
(* Reading a column over all stripes.  A stripe is its row count and the   *)
(* leaves of the column.                                                   *)

\* Mutant: the offsets of every piece are kept.
OwnOffsets(pieces) ==
  << 0 >> \o FlattenSeq([p \in DOMAIN pieces |-> Tail(pieces[p].own)])

\* Offsets of all pieces, each counted from the end of the one before, in u32.
Rebased(pieces) ==
  FoldLeft(LAMBDA acc, p : acc \o [i \in 1..Len(p.own) - 1 |->
                                     (Last(acc) + p.own[i + 1]) % Word],
           <<0>>, pieces)

RECURSIVE Concat(_, _)
Concat(pieces, t) ==
  IF t.kind = "dict" \/ (t.kind = "primitive" /\ pieces = <<>>)
  THEN Err
  ELSE LET below == [k \in DOMAIN t.kids |->
                       Concat([p \in DOMAIN pieces |-> pieces[p].kids[k]],
                              t.kids[k])]
           own == IF t.kind \in {"list", "map"} THEN Rebased(pieces)
                  ELSE FlattenSeq([p \in DOMAIN pieces |-> pieces[p].own])
       IN IF \E k \in DOMAIN below : below[k] = Err THEN Err
          ELSE Column(t.kind, own, below)

ReadPiece(stripe, t) == Compose(stripe.leaves, t, stripe.rows)

ReadColumn(stripes, t) ==
  LET pieces == [s \in DOMAIN stripes |-> ReadPiece(stripes[s], t)]
  IN CASE Len(stripes) = 1 -> pieces[1]
       [] Len(stripes) # 1 /\ t.kind = "dict" -> Err
       [] OTHER -> IF \E s \in DOMAIN pieces : pieces[s] = Err THEN Err
                   ELSE Concat(pieces, t)

-----------------------------------------------------------------------------
(* Cutting `count' rows out of a column, from row `start' (counted from 0). *)

\* Mutant: the rows left out before the window are not counted.
CompactFromStart(own, start, count, v) ==
  << 0, Tally(SubSeq(own, start + 1, start + count), v) >>

\* Where the rows marked v of a window are in a child that holds only those.
CompactWindow(own, start, count, v) ==
  << Tally(SubSeq(own, 1, start), v),
     Tally(SubSeq(own, start + 1, start + count), v) >>

\* The window of child k that goes with the window of the node.
KidWindow(c, start, count, k) ==
  CASE c.kind \in {"list", "map"} ->
         << c.own[start + 1], c.own[start + count + 1] - c.own[start + 1] >>
    [] c.kind = "nullable" -> CompactWindow(c.own, start, count, TRUE)
    [] c.kind = "union" -> CompactWindow(c.own, start, count, k - 1)
    [] c.kind = "dict" -> << 0, RowCount(c.kids[k]) >>
    [] OTHER -> << start, count >>

RECURSIVE Slice(_, _, _)
Slice(c, start, count) ==
  IF start + count > RowCount(c) THEN Err
  ELSE LET below == [k \in DOMAIN c.kids |->
                       LET w == KidWindow(c, start, count, k)
                       IN Slice(c.kids[k], w[1], w[2])]
           own == CASE c.kind = "struct" -> <<>>
                    [] c.kind \in {"list", "map"} ->
                         [i \in 1..count + 1 |->
                            c.own[start + i] - c.own[start + 1]]
                    [] OTHER -> SubSeq(c.own, start + 1, start + count)
       IN IF \E k \in DOMAIN below : below[k] = Err THEN Err
          ELSE Column(c.kind, own, below)

-----------------------------------------------------------------------------
(* Dictionary encoding.                                                    *)

\* The distinct values in the order in which they first appear, and for each
\* value its place among them.
DictEncode(c) ==
  LET distinct == FoldLeft(LAMBDA seen, v : IF Contains(seen, v) THEN seen
                                            ELSE Append(seen, v),
                           <<>>, c.own)
      Place(v) == CHOOSE i \in DOMAIN distinct : distinct[i] = v
  IN Column("dict", [i \in DOMAIN c.own |-> Place(c.own[i]) - 1],
            << Column(c.kind, distinct, <<>>) >>)

\* Mutant: what may be null stays plain.
ReshapedUnlessNullable(t) ==
  CASE t.kind \in {"dict", "nullable"} -> {}
    [] t.kind = "map" -> {2}
    [] OTHER -> DOMAIN t.kids

\* The children that reshape_to_schema_type looks at: neither those of
\* dictionaries nor the keys of maps.
Reshaped(t) ==
  CASE t.kind = "dict" -> {}
    [] t.kind = "map" -> {2}
    [] OTHER -> DOMAIN t.kids

\* Plain values where the optimizer made the type a dictionary.
RECURSIVE Reshape(_, _)
Reshape(c, t) ==
  CASE t.kind = "dict" /\ c.kind \in {"utf8", "primitive"} ->
         IF t.kids[1].kind = c.kind THEN DictEncode(c) ELSE c
    [] t.kind = c.kind ->
         [c EXCEPT !.kids = [k \in DOMAIN c.kids |->
                               IF k \in Reshaped(t) THEN Reshape(c.kids[k], t.kids[k])
                               ELSE c.kids[k]]]
    [] OTHER -> c

DictOf(t) == [t EXCEPT !.kind = "dict", !.names = <<>>, !.kids = <<t>>]

\* What optimize_type may make of a leaf: whether it takes the dictionary
\* depends on the sizes it measures.
LeafPromotions(t, allowed) ==
  {t} \cup (IF allowed /\ t.kind \in {"utf8", "primitive"} THEN {DictOf(t)} ELSE {})

\* The types it may give a column of type t; a dictionary goes neither into the
\* keys of a map nor directly into a dictionary.
RECURSIVE Promotions(_, _)
Promotions(t, allowed) ==
  LET Below(k) == Promotions(t.kids[k], t.kind # "dict" /\ (t.kind = "map" => k = 2))
      kids == {ks \in [DOMAIN t.kids -> UNION {Below(k) : k \in DOMAIN t.kids}] :
                 \A k \in DOMAIN t.kids : ks[k] \in Below(k)}
  IN IF t.kids = <<>> THEN LeafPromotions(t, allowed)
     ELSE {[t EXCEPT !.kids = ks] : ks \in kids}

=============================================================================
