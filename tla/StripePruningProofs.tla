------------------------- MODULE StripePruningProofs -------------------------
(***************************************************************************)
(* Proofs about StripePruning, for any values, hash functions, filter      *)
(* sizes and number of rows.  First what footers say of the rows of their  *)
(* stripe: the statistics of a pass cover the rows it has seen (Covers),   *)
(* and whatever a query asks, a row that satisfies it lies inside what the *)
(* footer of the pass says (KeepsSound).  Then the behaviours: the running *)
(* statistics cover every row seen, and the footer is their image.         *)
(***************************************************************************)
EXTENDS StripePruning, TLAPS

USE ValuesAssumption, FilterAssumption, NullAssumption, WriterAssumption

-----------------------------------------------------------------------------
(* The accumulator of a filter *)

\* The values an accumulator remembers.
Keys(acc) == IF acc.kind = "overflow" THEN acc.keys ELSE acc.set

(* Inserting remembers the new value and every earlier one, also when the   *)
(* exact set overflows into keys for a Bloom filter.                        *)
LEMMA InsertRemembers ==
  ASSUME NEW acc \in Accumulators, NEW v \in Finite
  PROVE  /\ InsertKey(acc, v) \in Accumulators
         /\ Keys(InsertKey(acc, v)) = Keys(acc) \cup {v}
<1>1. CASE acc \in [kind : {"overflow"}, keys : SUBSET Finite, n : Nat]
  <2>1. InsertKey(acc, v) = Overflow(acc.keys \cup {v}, acc.n + 1)
    BY <1>1 DEF InsertKey
  <2> QED BY <1>1, <2>1 DEF Overflow, Accumulators, Keys
<1>2. CASE acc \in [kind : {"tracking"}, set : SUBSET Finite, size : Nat]
  <2> DEFINE set == acc.set \cup {v}
             size == IF v \in acc.set THEN acc.size ELSE acc.size + 1
  <2>1. InsertKey(acc, v) = IF size > MaxDistinct THEN Overflow(set, size)
                            ELSE Tracking(set, size)
    BY <1>2 DEF InsertKey
  <2>2. set \in SUBSET Finite /\ size \in Nat
    BY <1>2
  <2>3. CASE size > MaxDistinct
    BY <1>2, <2>1, <2>2, <2>3 DEF Overflow, Accumulators, Keys
  <2>4. CASE ~(size > MaxDistinct)
    BY <1>2, <2>1, <2>2, <2>4 DEF Tracking, Accumulators, Keys
  <2> QED BY <2>3, <2>4
<1> QED
  BY <1>1, <1>2 DEF Accumulators

(* A finished filter admits every value its accumulator remembers; there is *)
(* a filter as soon as there is a value.                                    *)
LEMMA FilterAdmits ==
  ASSUME NEW acc \in Accumulators, NEW v \in Keys(acc)
  PROVE  FinishFilter(acc) # None => MightContain(FinishFilter(acc), v)
<1>1. CASE acc.kind = "overflow"
  <2> DEFINE m == BloomSize(acc.n)
             k == HashCount(m, acc.n)
             bits == UNION {BitPositions(m, k, w) : w \in acc.keys}
  <2>1. FinishFilter(acc) = [kind |-> "bloom", m |-> m, k |-> k, bits |-> bits]
    BY <1>1 DEF FinishFilter, BuildBloom
  <2>2. v \in acc.keys
    BY <1>1 DEF Keys
  <2> HIDE DEF m, k
  <2>3. BitPositions(m, k, v) \subseteq bits
    BY <2>2
  <2> HIDE DEF bits
  <2> QED BY <2>1, <2>3 DEF MightContain
<1>2. CASE acc.kind # "overflow"
  <2>1. v \in acc.set
    BY <1>2 DEF Keys
  <2>2. FinishFilter(acc) = [kind |-> "distinct_set", set |-> acc.set]
    BY <1>2, <2>1 DEF FinishFilter
  <2> QED BY <2>1, <2>2 DEF MightContain
<1> QED
  BY <1>1, <1>2

-----------------------------------------------------------------------------
(* One pass *)

\* What the pass p knows covers the rows seen; its minimum and maximum are
\* among them.
Covers(p, rows) ==
  /\ \A v \in rows \cap Finite :
       /\ p.lo # None /\ p.hi # None
       /\ p.lo <= v /\ v <= p.hi
       /\ v \in Keys(p.filter)
  /\ p.lo # None => p.lo \in rows
  /\ p.hi # None => p.hi \in rows
  /\ p.nulls <= p.rows
  /\ Null \in rows => p.nulls > 0
  /\ rows \cap Value # {} => p.nulls < p.rows

(* A pass that has seen nothing.                                            *)
LEMMA EmptyCovers == EmptyPass \in Passes /\ Covers(EmptyPass, {})
<1>1. NewFilter \in Accumulators
  BY DEF NewFilter, Tracking, Accumulators
<1> QED
  BY <1>1 DEF EmptyPass, Passes, Covers

(* A value is covered as soon as the pass has seen it.                      *)
LEMMA ValueCovered ==
  ASSUME NEW p \in Passes, NEW rows \in SUBSET (Value \cup {Null}), Covers(p, rows),
         NEW v \in Value
  PROVE  /\ PassValue(p, v) \in Passes /\ Covers(PassValue(p, v), rows \cup {v})
         /\ PassValue(p, v).rows = p.rows + 1 /\ PassValue(p, v).nulls = p.nulls
<1> DEFINE p1 == PassValue(p, v)
           rows1 == rows \cup {v}
<1>1. CASE v \in Finite
  <2>1. p1 = [lo |-> IF p.lo = None \/ v < p.lo THEN v ELSE p.lo,
              hi |-> IF p.hi = None \/ v > p.hi THEN v ELSE p.hi,
              filter |-> InsertKey(p.filter, v), nulls |-> p.nulls, rows |-> p.rows + 1]
    BY <1>1 DEF PassValue
  <2>2. /\ InsertKey(p.filter, v) \in Accumulators
        /\ Keys(InsertKey(p.filter, v)) = Keys(p.filter) \cup {v}
    BY <1>1, InsertRemembers DEF Passes
  <2> HIDE DEF p1
  <2>3. p1 \in Passes
    BY <1>1, <2>1, <2>2 DEF Passes
  <2>4. /\ p1.lo \in Nat /\ p1.hi \in Nat
        /\ p1.lo <= v /\ v <= p1.hi
        /\ p.lo # None => p1.lo <= p.lo
        /\ p.hi # None => p.hi <= p1.hi
    <3>1. /\ p.lo = None \/ p.lo \in Nat
          /\ p.hi = None \/ p.hi \in Nat
          /\ v \in Nat
      BY DEF Passes
    <3>2. /\ p1.lo = IF p.lo = None \/ v < p.lo THEN v ELSE p.lo
          /\ p1.hi = IF p.hi = None \/ v > p.hi THEN v ELSE p.hi
      BY <2>1
    <3>3. p1.lo \in Nat /\ p1.lo <= v /\ (p.lo # None => p1.lo <= p.lo)
      BY <3>1, <3>2
    <3>4. p1.hi \in Nat /\ v <= p1.hi /\ (p.hi # None => p.hi <= p1.hi)
      BY <3>1, <3>2
    <3> QED BY <3>3, <3>4
  <2>5. ASSUME NEW w \in rows1 \cap Finite
        PROVE  /\ p1.lo # None /\ p1.hi # None
               /\ p1.lo <= w /\ w <= p1.hi
               /\ w \in Keys(p1.filter)
    <3>1. w \in Keys(p1.filter)
      BY <2>1, <2>2 DEF Covers
    <3>2. p1.lo <= w /\ w <= p1.hi
      <4>1. CASE w = v
        BY <2>4, <4>1
      <4>2. CASE w \in rows \cap Finite
        <5>1. /\ p.lo # None /\ p.hi # None
              /\ p.lo <= w /\ w <= p.hi
          BY <4>2 DEF Covers
        <5>2. p.lo \in Nat /\ p.hi \in Nat /\ w \in Nat
          BY <5>1 DEF Passes
        <5> QED BY <2>4, <5>1, <5>2
      <4> QED BY <4>1, <4>2
    <3> QED BY <2>4, <3>1, <3>2
  <2>6. /\ p1.lo \in rows1 /\ p1.hi \in rows1
        /\ p1.rows = p.rows + 1 /\ p1.nulls = p.nulls
    BY <2>1 DEF Covers
  <2>7. p1.nulls < p1.rows /\ p1.nulls <= p1.rows /\ (Null \in rows1 => p1.nulls > 0)
    <3>1. p.nulls \in Nat /\ p.rows \in Nat
      BY DEF Passes
    <3>2. p.nulls <= p.rows /\ (Null \in rows => p.nulls > 0) /\ Null # v
      BY DEF Covers
    <3> QED BY <2>6, <3>1, <3>2
  <2> QED BY <2>3, <2>5, <2>6, <2>7 DEF Covers, p1
<1>2. CASE v \notin Finite
  <2>1. p1 = [p EXCEPT !.rows = p.rows + 1]
    BY <1>2 DEF PassValue
  <2> HIDE DEF p1
  <2>2. /\ p1 \in Passes
        /\ p1.lo = p.lo /\ p1.hi = p.hi /\ p1.filter = p.filter
        /\ p1.nulls = p.nulls /\ p1.rows = p.rows + 1
    BY <2>1 DEF Passes
  <2>3. rows1 \cap Finite = rows \cap Finite /\ (Null \in rows1 => Null \in rows)
    BY <1>2
  <2>4. p1.nulls < p1.rows /\ p1.nulls <= p1.rows /\ (Null \in rows1 => p1.nulls > 0)
    BY <2>2, <2>3 DEF Covers, Passes
  <2> QED BY <2>2, <2>3, <2>4 DEF Covers, p1
<1> QED
  BY <1>1, <1>2

(* A null is counted.                                                       *)
LEMMA NullCovered ==
  ASSUME NEW p \in Passes, NEW rows \in SUBSET (Value \cup {Null}), Covers(p, rows)
  PROVE  /\ PassNull(p) \in Passes /\ Covers(PassNull(p), rows \cup {Null})
         /\ PassNull(p).rows = p.rows + 1 /\ PassNull(p).nulls = p.nulls + 1
<1> DEFINE p1 == PassNull(p)
           rows1 == rows \cup {Null}
<1>1. p1 = [p EXCEPT !.nulls = p.nulls + 1, !.rows = p.rows + 1]
  BY DEF PassNull
<1> HIDE DEF p1
<1>2. /\ p1 \in Passes
      /\ p1.lo = p.lo /\ p1.hi = p.hi /\ p1.filter = p.filter
      /\ p1.nulls = p.nulls + 1 /\ p1.rows = p.rows + 1
  <2>1. p.nulls + 1 \in Nat /\ p.rows + 1 \in Nat
    BY DEF Passes
  <2> QED BY <1>1, <2>1 DEF Passes
<1>3. rows1 \cap Finite = rows \cap Finite /\ rows1 \cap Value = rows \cap Value
  OBVIOUS
<1>4. p.nulls \in Nat /\ p.rows \in Nat
  BY DEF Passes
<1> QED
  BY <1>2, <1>3, <1>4 DEF Covers, p1

-----------------------------------------------------------------------------
(* The footer of a pass *)

\* The footer carries values as they are.
ExactForms == Finite = Value /\ \A v \in Value : Stat[v] = v

\* What a footer says does not exclude the value.
Surrounds(f, v) ==
  /\ ScalarMin(f) = None \/ (ScalarMin(f) \in Nat /\ ScalarMin(f) <= v)
  /\ ScalarMax(f) = None \/ (ScalarMax(f) \in Nat /\ v <= ScalarMax(f))
  /\ f.filter # None => MightContain(f.filter, v)
  /\ f.null_count = None \/ f.null_count # f.row_count

(* A footer never excludes a value that is in the stripe.                   *)
LEMMA FooterCovers ==
  ASSUME ExactForms, NEW p \in Passes, NEW rows \in SUBSET (Value \cup {Null}),
         Covers(p, rows), NEW c, NEW f, f = Footer(p, c),
         NEW v \in rows, v # Null
  PROVE  v \in Value /\ v \in Nat /\ Surrounds(f, v)
<1>1. v \in Value /\ v \in rows \cap Finite
  BY DEF ExactForms
<1>2. p.lo # None /\ p.hi # None /\ p.lo <= v /\ v <= p.hi
  BY <1>1 DEF Covers
<1>3. p.lo \in Value /\ p.hi \in Value
  BY <1>2 DEF Passes, ExactForms
<1>4. Stat[p.lo] = p.lo /\ Stat[p.hi] = p.hi
  BY <1>3 DEF ExactForms
<1>5. ScalarMin(f) = None \/ ScalarMin(f) = p.lo
  BY <1>4 DEF Footer, ScalarMin
<1>6. ScalarMax(f) = None \/ ScalarMax(f) = p.hi
  BY <1>4 DEF Footer, ScalarMax
<1>7. f.filter # None => MightContain(f.filter, v)
  <2>1. f.filter \in {None, FinishFilter(p.filter)}
    BY DEF Footer
  <2>2. v \in Keys(p.filter) /\ p.filter \in Accumulators
    BY <1>1 DEF Covers, Passes
  <2> QED BY <2>1, <2>2, FilterAdmits
<1>8. f.null_count = None \/ f.null_count # f.row_count
  <2>1. p.nulls \in Nat /\ p.rows \in Nat /\ p.nulls < p.rows
    BY <1>1 DEF Covers, Passes
  <2>2. f.null_count \in {None, p.nulls} /\ f.row_count = p.rows
    BY DEF Footer
  <2> QED BY <2>1, <2>2
<1>9. v \in Nat /\ p.lo \in Nat /\ p.hi \in Nat
  BY <1>1, <1>3
<1>10. ScalarMin(f) = None \/ (ScalarMin(f) \in Nat /\ ScalarMin(f) <= v)
  <2> SUFFICES ASSUME ScalarMin(f) # None PROVE ScalarMin(f) \in Nat /\ ScalarMin(f) <= v
    OBVIOUS
  <2>1. ScalarMin(f) = p.lo
    BY <1>5
  <2> QED BY <1>2, <1>9, <2>1, Zenon
<1>11. ScalarMax(f) = None \/ (ScalarMax(f) \in Nat /\ v <= ScalarMax(f))
  <2> SUFFICES ASSUME ScalarMax(f) # None PROVE ScalarMax(f) \in Nat /\ v <= ScalarMax(f)
    OBVIOUS
  <2>1. ScalarMax(f) = p.hi
    BY <1>6
  <2> QED BY <1>2, <1>9, <2>1, Zenon
<1> QED
  BY <1>1, <1>7, <1>8, <1>9, <1>10, <1>11 DEF Surrounds

\* The operators of predicates.
AllOps == Comparisons \cup {"in", "not_in", "is_null", "is_not_null"}

(* Exact statistics never make a query skip a row it asks for, unless it is *)
(* a NOT IN that filters answer.  anyFilter tells whether any stripe has    *)
(* one.                                                                     *)
LEMMA KeepsSound ==
  ASSUME ExactForms, NEW p \in Passes, NEW rows \in SUBSET (Value \cup {Null}),
         Covers(p, rows), NEW c, c.filters \in BOOLEAN, NEW f, f = Footer(p, c),
         NEW anyFilter \in BOOLEAN, anyFilter => c.filters,
         NEW q \in Predicate(AllOps),
         q.op = "not_in" => ~c.filters,
         NEW row \in rows, Matches(row, q)
  PROVE  Keeps(f, anyFilter, q)
<1>1. /\ q.op \in Comparisons \cup {"in", "not_in", "is_null", "is_not_null"}
      /\ q.lits \subseteq Value
  BY DEF Predicate, AllOps
<1>2. CASE q.op = "is_null"
  <2>1. row = Null
    BY <1>2 DEF Matches
  <2>2. p.nulls > 0 /\ f.null_count \in {None, p.nulls}
    BY <2>1 DEF Covers, Footer
  <2>3. NullCountAllows(f, q)
    BY <1>2, <2>2 DEF NullCountAllows
  <2> QED BY <1>2, <2>3 DEF Keeps, GuaranteeAllows, RangeAllows
<1>3. CASE q.op # "is_null"
  <2>1. row # Null
    BY <1>3 DEF Matches
  <2>2. /\ row \in Value /\ row \in Nat
        /\ ScalarMin(f) = None \/ (ScalarMin(f) \in Nat /\ ScalarMin(f) <= row)
        /\ ScalarMax(f) = None \/ (ScalarMax(f) \in Nat /\ row <= ScalarMax(f))
        /\ f.filter # None => MightContain(f.filter, row)
        /\ f.null_count = None \/ f.null_count # f.row_count
    <3>1. row \in Value /\ row \in Nat /\ Surrounds(f, row)
      BY <2>1, FooterCovers
    <3> QED BY <3>1 DEF Surrounds
  <2>3. NullCountAllows(f, q)
    BY <1>3, <2>2 DEF NullCountAllows
  <2>4. CASE q.op = "in"
    <3>1. row \in q.lits
      BY <2>1, <2>4 DEF Matches
    <3>2. Contained(f, anyFilter, q.lits) \in {None, TRUE}
      BY <2>2, <3>1 DEF Contained, ExactForms
    <3>3. RangeAllows(f, q)
      BY <2>2, <2>4, <3>1 DEF RangeAllows
    <3> QED BY <2>3, <2>4, <3>2, <3>3 DEF Keeps, GuaranteeAllows
  <2>5. CASE q.op = "not_in"
    <3>1. row \notin q.lits
      BY <2>1, <2>5 DEF Matches
    <3>2. Contained(f, anyFilter, q.lits) = None
      BY <2>5 DEF Contained
    <3>3. RangeAllows(f, q)
      <4>1. ASSUME NEW l \in q.lits, ScalarMin(f) = l, ScalarMax(f) = l PROVE FALSE
        <5>1. l \in Nat /\ l # None
          BY <1>1
        <5>2. l <= row /\ row <= l
          BY <2>2, <4>1, <5>1
        <5> QED BY <2>2, <3>1, <5>1, <5>2
      <4> QED BY <2>5, <4>1 DEF RangeAllows
    <3> QED BY <2>3, <2>5, <3>2, <3>3 DEF Keeps, GuaranteeAllows
  <2>6. CASE q.op \in Comparisons
    <3>1. \A l \in q.lits : l \in Nat
      BY <1>1
    <3>2. RangeAllows(f, q)
      <4>1. CASE q.op = "lt"
        BY <2>1, <2>2, <3>1, <4>1 DEF RangeAllows, Matches
      <4>2. CASE q.op = "le"
        BY <2>1, <2>2, <3>1, <4>2 DEF RangeAllows, Matches
      <4>3. CASE q.op = "gt"
        BY <2>1, <2>2, <3>1, <4>3 DEF RangeAllows, Matches
      <4>4. CASE q.op = "ge"
        BY <2>1, <2>2, <3>1, <4>4 DEF RangeAllows, Matches
      <4> QED BY <2>6, <4>1, <4>2, <4>3, <4>4 DEF Comparisons
    <3> QED BY <2>3, <2>6, <3>2 DEF Keeps, GuaranteeAllows, Comparisons
  <2>7. CASE q.op = "is_not_null"
    BY <2>3, <2>7 DEF Keeps, GuaranteeAllows, RangeAllows
  <2> QED BY <1>1, <1>3, <2>4, <2>5, <2>6, <2>7
<1> QED
  BY <1>2, <1>3

-----------------------------------------------------------------------------
(* The inductive invariant *)

\* A footer, once written, is the image of the pass.
FooterOfPass ==
  footer # None =>
    footer = Footer(pass, column)

PassType ==
  /\ seen \subseteq Value \cup {Null}
  /\ column \in Columns
  /\ pass \in Passes

IInv == PassType /\ Covers(pass, seen) /\ FooterOfPass

LEMMA InitIInv == Init => IInv
BY EmptyCovers DEF Init, IInv, PassType, FooterOfPass

LEMMA StepIInv == IInv /\ [Next]_vars => IInv'
<1> SUFFICES ASSUME IInv, [Next]_vars PROVE IInv'
  OBVIOUS
<1>1. ASSUME NEW v \in Value, WriteValue(v) PROVE IInv'
  <2>1. /\ seen' = seen \cup {v} /\ pass' = PassValue(pass, v)
        /\ UNCHANGED <<column, footer>> /\ footer = None
    BY <1>1 DEF WriteValue
  <2>2. PassValue(pass, v) \in Passes /\ Covers(PassValue(pass, v), seen \cup {v})
    BY ValueCovered DEF IInv, PassType
  <2> QED BY <2>1, <2>2 DEF IInv, PassType, FooterOfPass
<1>2. ASSUME WriteNull PROVE IInv'
  <2>1. /\ seen' = seen \cup {Null} /\ pass' = PassNull(pass)
        /\ UNCHANGED <<column, footer>> /\ footer = None
    BY <1>2 DEF WriteNull
  <2>2. PassNull(pass) \in Passes /\ Covers(PassNull(pass), seen \cup {Null})
    BY NullCovered DEF IInv, PassType
  <2> QED BY <2>1, <2>2 DEF IInv, PassType, FooterOfPass
<1>3. ASSUME WriteFooter PROVE IInv'
  BY <1>3 DEF WriteFooter, IInv, PassType, Covers, FooterOfPass
<1>4. CASE UNCHANGED vars
  BY <1>4 DEF vars, IInv, PassType, Covers, FooterOfPass
<1> QED
  BY <1>1, <1>2, <1>3, <1>4 DEF Next

-----------------------------------------------------------------------------

(* The statistics and the footer always have their types.                   *)
LEMMA IInvTypeOK == IInv => TypeOK
<1> SUFFICES ASSUME IInv, footer # None
             PROVE  /\ footer.min \in Nat \cup {None} /\ footer.max \in Nat \cup {None}
                    /\ footer.null_count \in Nat \cup {None} /\ footer.row_count \in Nat
  BY DEF IInv, TypeOK, PassType
<1>1. footer = Footer(pass, column)
  BY DEF IInv, FooterOfPass
<1>2. /\ pass.lo # None => Stat[pass.lo] \in Nat /\ Text[pass.lo] \in Nat
      /\ pass.hi # None => Stat[pass.hi] \in Nat /\ Text[pass.hi] \in Nat
      /\ pass.nulls \in Nat /\ pass.rows \in Nat
  BY DEF IInv, PassType, Passes
<1> QED
  BY <1>1, <1>2 DEF Footer

THEOREM PruningType == Spec => []TypeOK
BY InitIInv, StepIInv, IInvTypeOK, PTL DEF Spec

(* A containment filter has no false negatives: for every hash function,    *)
(* every filter size and every overflow threshold.                          *)
LEMMA IInvNoFalseNegatives == IInv => NoFalseNegatives
<1> SUFFICES ASSUME IInv, footer # None, NEW v \in seen \cap Finite, footer.filter # None
             PROVE  MightContain(footer.filter, v)
  BY DEF NoFalseNegatives
<1>1. footer.filter = FinishFilter(pass.filter)
  BY DEF IInv, FooterOfPass, Footer
<1>2. v \in Keys(pass.filter) /\ pass.filter \in Accumulators
  BY DEF IInv, Covers, PassType, Passes
<1> QED
  BY <1>1, <1>2, FilterAdmits

THEOREM FilterNeverDenies == Spec => []NoFalseNegatives
BY InitIInv, StepIInv, IInvNoFalseNegatives, PTL DEF Spec

-----------------------------------------------------------------------------
(* Pruning                                                                  *)

\* The footer carries values as they are; with filters, no NOT IN queries.
Exact ==
  /\ ExactForms
  /\ Ops \subseteq AllOps
  /\ "not_in" \in Ops => TRUE \notin Filters

(* Exact statistics never make a query skip a row it asks for.              *)
LEMMA IInvPruneSound == IInv /\ Exact => PruneSound
<1> SUFFICES ASSUME IInv, Exact, footer # None,
                    NEW q \in Predicate(Ops), NEW others \in {FALSE, column.filters},
                    NEW row \in seen, Matches(row, q)
             PROVE  Keeps(footer, footer.filter # None \/ others, q)
  BY DEF PruneSound
<1> DEFINE any == footer.filter # None \/ others
<1>1. footer = Footer(pass, column)
  BY DEF IInv, FooterOfPass
<1>2. column.filters \in BOOLEAN /\ column.filters \in Filters
  BY DEF IInv, PassType, Columns
<1>3. any \in BOOLEAN /\ (any => column.filters)
  BY <1>1, <1>2 DEF Footer
<1>4. q \in Predicate(AllOps) /\ q.op \in Ops
  BY DEF Exact, Predicate, AllOps
<1>5. q.op = "not_in" => ~column.filters
  BY <1>2, <1>4 DEF Exact
<1> HIDE DEF any
<1>6. /\ ExactForms /\ pass \in Passes /\ Covers(pass, seen)
      /\ seen \in SUBSET (Value \cup {Null})
  BY DEF IInv, PassType, Exact
<1>7. Keeps(footer, any, q)
  BY <1>1, <1>2, <1>3, <1>4, <1>5, <1>6, KeepsSound
<1> QED
  BY <1>7 DEF any

(* Every row a query asks for is in a stripe it scans, for all values, all  *)
(* filters and all stripes, as long as footers are exact and NOT IN is not  *)
(* answered from filters.                                                   *)
THEOREM PruningLosesNothing == Exact => (Spec => []PruneSound)
<1> SUFFICES ASSUME Exact PROVE Spec => []PruneSound
  OBVIOUS
<1>1. Spec => []IInv
  BY InitIInv, StepIInv, PTL DEF Spec
<1>2. IInv => PruneSound
  BY IInvPruneSound
<1> QED
  BY <1>1, <1>2, PTL

(* The rank of a footer's bound, and that of the literal it is compared     *)
(* with, are ordered like the values they stand for: as values if the       *)
(* column is not binary, as texts if it is and its texts keep the order.    *)
LEMMA BoundsSurround ==
  ASSUME IInv, Exact, footer # None, NEW l \in Value, NEW row \in seen, row # Null,
         footer.binary => SameOrder((seen \cap Value) \cup {l})
  PROVE  LET Rank(v) == IF footer.binary THEN Text[v] ELSE v
         IN /\ row \in Value /\ Rank(row) \in Nat /\ Rank(l) \in Nat
            /\ Literal(footer, l) = Rank(l)
            /\ row < l <=> Rank(row) < Rank(l)
            /\ l < row <=> Rank(l) < Rank(row)
            /\ footer.min = None \/ (footer.min \in Nat /\ footer.min <= Rank(row))
            /\ footer.max = None \/ (footer.max \in Nat /\ Rank(row) <= footer.max)
<1>1. footer = Footer(pass, column) /\ footer.binary = column.binary
  BY DEF IInv, FooterOfPass, Footer
<1>2. /\ row \in Value /\ row \in Nat /\ l \in Nat
      /\ Text[row] \in Nat /\ Text[l] \in Nat
  BY DEF IInv, PassType
<1>3. CASE footer.binary
  <2>1. /\ \A v, w \in (seen \cap Value) \cup {l} : v < w <=> Text[v] < Text[w]
        /\ row \in seen \cap Value
    BY <1>2, <1>3 DEF SameOrder
  <2>2. (row < l <=> Text[row] < Text[l]) /\ (l < row <=> Text[l] < Text[row])
    BY <2>1
  <2>3. footer.min = None \/ (footer.min \in Nat /\ footer.min <= Text[row])
    <3> SUFFICES ASSUME footer.min # None PROVE footer.min \in Nat /\ footer.min <= Text[row]
      OBVIOUS
    <3>1. pass.lo # None /\ footer.min = Text[pass.lo]
      BY <1>1, <1>3 DEF Footer
    <3>2. pass.lo \in seen \cap Value /\ pass.lo \in Nat /\ Text[pass.lo] \in Nat
      BY <3>1 DEF IInv, Covers, PassType, Passes
    <3>3. pass.lo <= row
      BY <1>2, <3>1 DEF IInv, Covers, Exact, ExactForms
    <3>4. pass.lo < row <=> Text[pass.lo] < Text[row]
      BY <2>1, <3>2
    <3>5. CASE pass.lo = row
      BY <3>1, <3>2, <3>5
    <3>6. CASE pass.lo < row
      BY <1>2, <3>1, <3>2, <3>4, <3>6
    <3> QED BY <1>2, <3>2, <3>3, <3>5, <3>6
  <2>4. footer.max = None \/ (footer.max \in Nat /\ Text[row] <= footer.max)
    <3> SUFFICES ASSUME footer.max # None PROVE footer.max \in Nat /\ Text[row] <= footer.max
      OBVIOUS
    <3>1. pass.hi # None /\ footer.max = Text[pass.hi]
      BY <1>1, <1>3 DEF Footer
    <3>2. pass.hi \in seen \cap Value /\ pass.hi \in Nat /\ Text[pass.hi] \in Nat
      BY <3>1 DEF IInv, Covers, PassType, Passes
    <3>3. row <= pass.hi
      BY <1>2, <3>1 DEF IInv, Covers, Exact, ExactForms
    <3>4. row < pass.hi <=> Text[row] < Text[pass.hi]
      BY <2>1, <3>2
    <3>5. CASE pass.hi = row
      BY <3>1, <3>2, <3>5
    <3>6. CASE row < pass.hi
      BY <1>2, <3>1, <3>2, <3>4, <3>6
    <3> QED BY <1>2, <3>2, <3>3, <3>5, <3>6
  <2> QED BY <1>2, <1>3, <2>2, <2>3, <2>4 DEF Literal
<1>4. CASE ~footer.binary
  <2>1. /\ ExactForms /\ pass \in Passes /\ Covers(pass, seen)
        /\ seen \in SUBSET (Value \cup {Null})
    BY DEF IInv, PassType, Exact
  <2>2. Surrounds(footer, row)
    BY <1>1, <2>1, FooterCovers
  <2>3. /\ footer.min = None \/ (footer.min \in Nat /\ footer.min <= row)
        /\ footer.max = None \/ (footer.max \in Nat /\ row <= footer.max)
    BY <1>4, <2>2 DEF Surrounds, ScalarMin, ScalarMax
  <2> QED BY <1>2, <1>4, <2>3 DEF Literal
<1> QED
  BY <1>3, <1>4

(* The DuckDB extension's range check is as sound.                          *)
LEMMA IInvRangeSound == IInv /\ Exact => RangeSound
<1> SUFFICES ASSUME IInv, Exact, footer # None,
                    NEW op \in Comparisons \cup {"in"}, NEW l \in Value, NEW row \in seen,
                    Matches(row, [op |-> op, lits |-> {l}]),
                    footer.binary => SameOrder((seen \cap Value) \cup {l})
             PROVE  StripeMatchesRange(footer, op, l)
  BY DEF RangeSound
<1> DEFINE Rank(v) == IF footer.binary THEN Text[v] ELSE v
<1>1. row # Null
  BY DEF Matches, Comparisons
<1>2. /\ row \in Value /\ Rank(row) \in Nat /\ Rank(l) \in Nat
      /\ Literal(footer, l) = Rank(l)
      /\ row < l <=> Rank(row) < Rank(l)
      /\ l < row <=> Rank(l) < Rank(row)
      /\ footer.min = None \/ (footer.min \in Nat /\ footer.min <= Rank(row))
      /\ footer.max = None \/ (footer.max \in Nat /\ Rank(row) <= footer.max)
  BY <1>1, BoundsSurround
<1>3. row = l => Rank(row) = Rank(l)
  OBVIOUS
<1>4. row \in Nat /\ l \in Nat
  BY <1>2
<1> HIDE DEF Rank
<1>5. CASE op = "in"
  <2>1. row = l
    BY <1>1, <1>5 DEF Matches
  <2> QED BY <1>2, <1>3, <1>5, <2>1 DEF StripeMatchesRange
<1>6. CASE op = "lt"
  <2>1. row < l
    BY <1>1, <1>6 DEF Matches
  <2> QED BY <1>2, <1>6, <2>1 DEF StripeMatchesRange
<1>7. CASE op = "le"
  <2>1. row <= l
    BY <1>1, <1>7 DEF Matches
  <2>2. Rank(row) <= Rank(l)
    BY <1>2, <1>3, <1>4, <2>1
  <2> QED BY <1>2, <1>7, <2>2 DEF StripeMatchesRange
<1>8. CASE op = "gt"
  <2>1. l < row
    BY <1>1, <1>4, <1>8 DEF Matches
  <2> QED BY <1>2, <1>8, <2>1 DEF StripeMatchesRange
<1>9. CASE op = "ge"
  <2>1. l <= row
    BY <1>1, <1>4, <1>9 DEF Matches
  <2>2. Rank(l) <= Rank(row)
    BY <1>2, <1>3, <1>4, <2>1
  <2> QED BY <1>2, <1>9, <2>2 DEF StripeMatchesRange
<1> QED
  BY <1>5, <1>6, <1>7, <1>8, <1>9 DEF Comparisons

(* The range check loses no row for any values and any base64 order: of a   *)
(* binary column, as long as the texts of its blobs and of the literal are  *)
(* ordered as the blobs, a condition that RangeSound states.                *)
THEOREM RangeCheckLosesNothing == Exact => (Spec => []RangeSound)
<1> SUFFICES ASSUME Exact PROVE Spec => []RangeSound
  OBVIOUS
<1>1. Spec => []IInv
  BY InitIInv, StepIInv, PTL DEF Spec
<1>2. IInv => RangeSound
  BY IInvRangeSound
<1> QED
  BY <1>1, <1>2, PTL

=============================================================================
