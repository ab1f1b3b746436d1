---------------------------- MODULE SqlScanProofs ----------------------------
(***************************************************************************)
(* The table answers queries as if it read every row, for files of any     *)
(* stripes and rows, any queries and limits, and any order of the          *)
(* partitions.                                                             *)
(***************************************************************************)
EXTENDS SqlScan, SequenceLemmas

-----------------------------------------------------------------------------
(* What StripePruningProofs says of passes and footers, whatever becomes of *)
(* the stripe that module is about.                                         *)
Stripe == INSTANCE StripePruningProofs
            WITH Ops <- {}, MaxRows <- 0, seen <- {},
                 column <- [binary |-> FALSE, nullable |-> FALSE, stats |-> FALSE,
                            filters |-> FALSE],
                 pass <- EmptyPass, footer <- None

Covers(p, rows) == Stripe!Covers(p, rows)
AllOps == Comparisons \cup {"in", "not_in", "is_null", "is_not_null"}
ExactForms == Finite = Value /\ \A v \in Value : Stat[v] = v

(* Its passes are those of this module.                                     *)
LEMMA SamePasses ==
  /\ Stripe!Passes = Passes /\ Stripe!EmptyPass = EmptyPass
  /\ \A p, v : Stripe!PassValue(p, v) = PassValue(p, v)
  /\ \A p : Stripe!PassNull(p) = PassNull(p)
BY DEF Stripe!Passes, Passes, Stripe!Accumulators, Accumulators,
       Stripe!EmptyPass, EmptyPass, Stripe!NewFilter, NewFilter,
       Stripe!PassValue, PassValue, Stripe!PassNull, PassNull,
       Stripe!InsertKey, InsertKey, Stripe!Overflow, Overflow, Stripe!Tracking, Tracking

(* That module's assumptions hold of the values it is given here.           *)
LEMMA StripeAssumptions ==
  /\ Stripe!ValuesAssumption /\ Stripe!FilterAssumption /\ Stripe!NullAssumption
  /\ Stripe!WriterAssumption
BY ValuesAssumption, FilterAssumption, NullAssumption, TableAssumption
   DEF Stripe!ValuesAssumption, Stripe!FilterAssumption, Stripe!NullAssumption,
       Stripe!WriterAssumption

(* A pass that has seen nothing.                                            *)
LEMMA EmptyCovers == EmptyPass \in Passes /\ Covers(EmptyPass, {})
BY Stripe!EmptyCovers, SamePasses, StripeAssumptions DEF Covers

(* A value is covered as soon as the pass has seen it.                      *)
LEMMA ValueCovered ==
  ASSUME NEW p \in Passes, NEW rows \in SUBSET (Value \cup {Null}), Covers(p, rows),
         NEW v \in Value
  PROVE  /\ PassValue(p, v) \in Passes /\ Covers(PassValue(p, v), rows \cup {v})
         /\ PassValue(p, v).rows = p.rows + 1 /\ PassValue(p, v).nulls = p.nulls
<1>1. p \in Stripe!Passes /\ Stripe!Covers(p, rows)
  BY SamePasses DEF Covers
<1>2. /\ Stripe!PassValue(p, v) \in Stripe!Passes
      /\ Stripe!Covers(Stripe!PassValue(p, v), rows \cup {v})
      /\ Stripe!PassValue(p, v).rows = p.rows + 1 /\ Stripe!PassValue(p, v).nulls = p.nulls
  BY <1>1, Stripe!ValueCovered, StripeAssumptions
<1> QED
  BY <1>2, SamePasses DEF Covers

(* A null is counted.                                                       *)
LEMMA NullCovered ==
  ASSUME NEW p \in Passes, NEW rows \in SUBSET (Value \cup {Null}), Covers(p, rows)
  PROVE  /\ PassNull(p) \in Passes /\ Covers(PassNull(p), rows \cup {Null})
         /\ PassNull(p).rows = p.rows + 1 /\ PassNull(p).nulls = p.nulls + 1
<1>1. p \in Stripe!Passes /\ Stripe!Covers(p, rows)
  BY SamePasses DEF Covers
<1>2. /\ Stripe!PassNull(p) \in Stripe!Passes
      /\ Stripe!Covers(Stripe!PassNull(p), rows \cup {Null})
      /\ Stripe!PassNull(p).rows = p.rows + 1 /\ Stripe!PassNull(p).nulls = p.nulls + 1
  BY <1>1, Stripe!NullCovered, StripeAssumptions
<1> QED
  BY <1>2, SamePasses DEF Covers

(* Footers and the questions asked of them are those of this module, too.   *)
LEMMA SameFooters ==
  /\ \A p, c : Stripe!Footer(p, c) = Footer(p, c)
  /\ \A f, any, q : Stripe!Keeps(f, any, q) <=> Keeps(f, any, q)
  /\ \A row, q : Stripe!Matches(row, q) <=> Matches(row, q)
  /\ Stripe!Predicate(Stripe!AllOps) = Predicate(AllOps)
  /\ Stripe!ExactForms <=> ExactForms
<1>1. \A p, c : Stripe!Footer(p, c) = Footer(p, c)
  BY DEF Stripe!Footer, Footer, Stripe!FinishFilter, FinishFilter,
         Stripe!BuildBloom, BuildBloom, Stripe!BloomSize, BloomSize,
         Stripe!HashCount, HashCount, Stripe!AtMost, AtMost, Stripe!CeilDiv, CeilDiv,
         Stripe!BitPositions, BitPositions
<1>2. \A f, any, q : Stripe!Keeps(f, any, q) <=> Keeps(f, any, q)
  BY DEF Stripe!Keeps, Keeps, Stripe!GuaranteeAllows, GuaranteeAllows,
         Stripe!RangeAllows, RangeAllows, Stripe!ScalarMin, ScalarMin,
         Stripe!ScalarMax, ScalarMax, Stripe!NullCountAllows, NullCountAllows,
         Stripe!Contained, Contained, Stripe!MightContain, MightContain,
         Stripe!BitPositions, BitPositions
<1>3. \A row, q : Stripe!Matches(row, q) <=> Matches(row, q)
  BY DEF Stripe!Matches, Matches
<1>4. Stripe!Predicate(Stripe!AllOps) = Predicate(AllOps)
  BY DEF Stripe!Predicate, Predicate, Stripe!AllOps, AllOps,
         Stripe!Comparisons, Comparisons
<1>5. Stripe!ExactForms <=> ExactForms
  BY DEF Stripe!ExactForms, ExactForms
<1> QED
  BY <1>1, <1>2, <1>3, <1>4, <1>5

\* The footer of a column c, and a question that pruning may answer soundly: not
\* a NOT IN that filters answer.
FooterIs(f, p, c) == c.filters \in BOOLEAN /\ f = Footer(p, c)
SoundQuestion(c, anyFilter, q) ==
  /\ anyFilter \in BOOLEAN /\ (anyFilter => c.filters)
  /\ q \in Predicate(AllOps) /\ (q.op = "not_in" => ~c.filters)

(* Exact statistics never make a query skip a row it asks for.              *)
LEMMA KeepsSound ==
  ASSUME ExactForms, NEW p \in Passes, NEW rows \in SUBSET (Value \cup {Null}),
         Covers(p, rows), NEW c, NEW f, FooterIs(f, p, c),
         NEW anyFilter, NEW q, SoundQuestion(c, anyFilter, q),
         NEW row \in rows, Matches(row, q)
  PROVE  Keeps(f, anyFilter, q)
<1>1. /\ Stripe!ExactForms /\ p \in Stripe!Passes /\ Stripe!Covers(p, rows)
      /\ f = Stripe!Footer(p, c)
      /\ q \in Stripe!Predicate(Stripe!AllOps) /\ Stripe!Matches(row, q)
      /\ c.filters \in BOOLEAN
  BY SamePasses, SameFooters DEF Covers, FooterIs, SoundQuestion
<1>2. Stripe!Keeps(f, anyFilter, q)
  BY <1>1, Stripe!KeepsSound, StripeAssumptions DEF SoundQuestion
<1> QED
  BY <1>2, SameFooters

-----------------------------------------------------------------------------
(* Folds                                                                    *)

(* Total is the sum.                                                        *)
LEMMA TotalSummed ==
  ASSUME NEW counts
  PROVE  Total(counts) = Summed(counts)
BY Zenon DEF Total, Summed, FoldLeft, MapThenFoldSet

\* What the pass p knows of the first k rows.
Summarises(p, rows, k) ==
  /\ p \in Passes
  /\ Covers(p, {rows[i] : i \in 1..k})
  /\ p.rows = k
  /\ p.nulls = Occurrences(rows, k, Null)

\* A pass over one more row.
PassRow(p, r) == IF r = Null THEN PassNull(p) ELSE PassValue(p, r)

(* One row more.                                                            *)
LEMMA RowSummarised ==
  ASSUME ValuesAssumption, FilterAssumption, NullAssumption,
         NEW rows \in Seq(Value \cup {Null}), NEW k \in 1..Len(rows),
         NEW p, Summarises(p, rows, k - 1)
  PROVE  Summarises(PassRow(p, rows[k]), rows, k)
<1> DEFINE seen == {rows[i] : i \in 1..(k - 1)}
           row == rows[k]
           after == {rows[i] : i \in 1..k}
<1>1. /\ k \in Nat \ {0} /\ (k - 1) + 1 = k
      /\ row \in Value \cup {Null} /\ seen \in SUBSET (Value \cup {Null})
      /\ after = seen \cup {row}
  <2>1. k \in Nat \ {0} /\ (k - 1) + 1 = k
    OBVIOUS
  <2>2. \A i \in 1..k : rows[i] \in Value \cup {Null}
    OBVIOUS
  <2>3. 1..k = (1..(k - 1)) \cup {k}
    BY <2>1
  <2> QED BY <2>1, <2>2, <2>3, Zenon
<1>2. /\ p \in Passes /\ Covers(p, seen) /\ p.rows = k - 1
      /\ p.nulls = Occurrences(rows, k - 1, Null)
  BY DEF Summarises
<1>3. Occurrences(rows, k, Null)
        = IF row = Null THEN Occurrences(rows, k - 1, Null) + 1
          ELSE Occurrences(rows, k - 1, Null)
  <2>1. \A i \in Nat \ {0} :
          Occurrences(rows, i, Null)
            = IF rows[i] = Null THEN Occurrences(rows, i - 1, Null) + 1
              ELSE Occurrences(rows, i - 1, Null)
    BY OccurrencesStep
  <2> QED BY <1>1, <2>1
<1> SUFFICES /\ PassRow(p, row) \in Passes /\ Covers(PassRow(p, row), after)
             /\ PassRow(p, row).rows = k
             /\ PassRow(p, row).nulls = Occurrences(rows, k, Null)
  BY DEF Summarises
<1> HIDE DEF seen, row, after
<1>4. CASE row = Null
  <2>1. /\ PassNull(p) \in Passes /\ Covers(PassNull(p), seen \cup {Null})
        /\ PassNull(p).rows = p.rows + 1 /\ PassNull(p).nulls = p.nulls + 1
    BY <1>1, <1>2, NullCovered
  <2>2. PassRow(p, row) = PassNull(p) /\ after = seen \cup {Null}
    BY <1>1, <1>4 DEF PassRow
  <2> QED BY <1>1, <1>2, <1>3, <1>4, <2>1, <2>2
<1>5. CASE row # Null
  <2>1. row \in Value
    BY <1>1, <1>5
  <2>2. /\ PassValue(p, row) \in Passes /\ Covers(PassValue(p, row), seen \cup {row})
        /\ PassValue(p, row).rows = p.rows + 1 /\ PassValue(p, row).nulls = p.nulls
    BY <1>1, <1>2, <2>1, ValueCovered
  <2>3. PassRow(p, row) = PassValue(p, row)
    BY <1>5 DEF PassRow
  <2> QED BY <1>1, <1>2, <1>3, <1>5, <2>2, <2>3
<1> QED
  BY <1>4, <1>5

(* A pass over no rows.                                                     *)
LEMMA NoRowsSummarised ==
  ASSUME ValuesAssumption, FilterAssumption, NullAssumption, NEW rows
  PROVE  Summarises(EmptyPass, rows, 0)
<1>1. {rows[i] : i \in 1..0} = {}
  OBVIOUS
<1>2. Occurrences(rows, 0, Null) = 0
  BY OccurrencesStep
<1> QED
  BY <1>1, <1>2, EmptyCovers DEF Summarises, EmptyPass

(* The pass over all the rows.                                              *)
LEMMA PassOfSummarises ==
  ASSUME ValuesAssumption, FilterAssumption, NullAssumption,
         NEW rows \in Seq(Value \cup {Null})
  PROVE  Summarises(PassOf(rows), rows, Len(rows))
<1> DEFINE n == Len(rows)
           Covered == {p \in Passes : \E seen \in SUBSET (Value \cup {Null}) : Covers(p, seen)}
           step == [x \in 1..n |-> [p \in Covered |-> PassRow(p, rows[x])]]
           body(h) == [s \in SUBSET (1..n) |->
                         IF s = {} THEN EmptyPass
                         ELSE PassRow(h[s \ {Max(s)}], rows[Max(s)])]
           iter == CHOOSE h : h = body(h)
<1>1. n \in Nat /\ DOMAIN rows = 1..n /\ \A k \in 1..n : rows[k] \in Value \cup {Null}
  OBVIOUS
<1>2. PassOf(rows) = iter[1..n]
  BY <1>1 DEF PassOf, FoldLeft, MapThenFoldSet, PassRow
<1> HIDE DEF n
<1>3. \E h : h = body(h)
  <2>1. EmptyPass \in Covered
    BY EmptyCovers
  <2>2. ASSUME NEW p \in Covered, NEW r \in Value \cup {Null} PROVE PassRow(p, r) \in Covered
    <3>1. PICK seen \in SUBSET (Value \cup {Null}) : p \in Passes /\ Covers(p, seen)
      OBVIOUS
    <3>2. CASE r = Null
      <4>1. PassNull(p) \in Passes /\ Covers(PassNull(p), seen \cup {Null})
        BY <3>1, NullCovered
      <4> QED BY <3>2, <4>1 DEF PassRow
    <3>3. CASE r # Null
      <4>1. PassValue(p, r) \in Passes /\ Covers(PassValue(p, r), seen \cup {r})
        BY <3>1, <3>3, ValueCovered
      <4> QED BY <3>3, <4>1 DEF PassRow
    <3> QED BY <3>2, <3>3
  <2> HIDE DEF Covered
  <2>3. step \in [1..n -> [Covered -> Covered]]
    BY <1>1, <2>2
  <2> HIDE DEF step
  <2>4. PICK h \in [SUBSET (1..n) -> Covered] : Iterates(h, EmptyPass, n, step)
    BY <1>1, <2>1, <2>3, IterationExists
  <2>5. ASSUME NEW s \in SUBSET (1..n), s # {}
        PROVE  step[Max(s)][h[s \ {Max(s)}]] = PassRow(h[s \ {Max(s)}], rows[Max(s)])
    <3>1. Max(s) \in 1..n
      <4>1. s \subseteq 0..n
        BY <1>1
      <4>2. Max(s) \in s
        BY <1>1, <2>5, <4>1, MaxIs
      <4> QED BY <4>2
    <3>2. h[s \ {Max(s)}] \in Covered
      BY <2>4
    <3> QED BY <3>1, <3>2 DEF step
  <2>6. \A s \in SUBSET (1..n) : h[s] = body(h)[s]
    BY <2>4, <2>5 DEF Iterates
  <2>7. h = body(h)
    BY <2>4, <2>6
  <2> HIDE DEF body
  <2> QED BY <2>7
<1>4. iter = body(iter)
  BY <1>3
<1> DEFINE S == {k \in Nat : k <= n => Summarises(iter[1..k], rows, k)}
<1>5. 0 \in S
  <2>1. 1..0 = {} /\ {} \in SUBSET (1..n)
    OBVIOUS
  <2>2. body(iter)[{}] = EmptyPass
    BY <2>1
  <2> HIDE DEF iter, body
  <2> QED BY <1>4, <2>1, <2>2, NoRowsSummarised
<1>6. ASSUME NEW k \in Nat \ {0}, k - 1 \in S PROVE k \in S
  <2> SUFFICES ASSUME k <= n PROVE Summarises(iter[1..k], rows, k)
    OBVIOUS
  <2>1. k \in 1..n /\ k \in 1..Len(rows)
    BY <1>1 DEF n
  <2>2. Summarises(iter[1..(k - 1)], rows, k - 1)
    <3>1. k - 1 \in Nat /\ k - 1 <= n
      BY <1>1
    <3> QED BY <1>6, <3>1
  <2>3. body(iter)[1..k] = PassRow(iter[1..(k - 1)], rows[k])
    <3> HIDE DEF iter
    <3>1. 1..k \in SUBSET (1..n) /\ 1..k # {} /\ Max(1..k) = k
          /\ (1..k) \ {Max(1..k)} = 1..(k - 1)
      BY <1>1, <2>1, LastOfInterval
    <3> QED BY <3>1
  <2> DEFINE before == iter[1..(k - 1)]
  <2>4. Summarises(before, rows, k - 1)
    BY <2>2
  <2> HIDE DEF iter, body, S, before
  <2>5. Summarises(PassRow(before, rows[k]), rows, k)
    BY <2>1, <2>4, RowSummarised
  <2> QED BY <1>4, <2>3, <2>5 DEF before
<1>7. n \in S
  <2> HIDE DEF S
  <2> QED BY <1>1, <1>5, <1>6, SetInduction
<1>8. Summarises(iter[1..n], rows, n)
  BY <1>1, <1>7
<1> HIDE DEF iter
<1> QED
  BY <1>2, <1>8 DEF n

-----------------------------------------------------------------------------
(* The invariant: what is remembered is what the file says                  *)

USE ValuesAssumption, FilterAssumption, NullAssumption, TableAssumption

Rows == Value \cup {Null}

\* The provider that try_new makes of the file.
Footers == [s \in Stripes |-> FooterOf(file[s])]
Provided ==
  [footers |-> Footers,
   stripe_row_counts |-> [s \in Stripes |-> Footers[s].row_count],
   statistics |-> Statistics(Footers)]

\* The plan of a query that scan() may be asked for.
Planned ==
  /\ provider # None
  /\ exec.filters \in Queries
  /\ exec.limit \in Limits \cup {None}
  /\ exec.columns \in 0..1
  /\ exec.filters # {} => exec.limit = None /\ exec.columns = 1
  /\ exec.keep_stripes = Kept(exec.filters)

\* The batch of a partition, whenever it is executed.
BatchOf(s) == IF s \in exec.keep_stripes THEN StripeBatch(s) ELSE <<>>

TableInv ==
  /\ file \in Files
  /\ column \in [binary : BOOLEAN, nullable : BOOLEAN, stats : Stats, filters : Filters]
  /\ provider # None => provider = Provided
  /\ exec # None => Planned
  /\ batches = [s \in Stripes |-> batches[s]]
  /\ \A s \in Stripes : batches[s] # None => exec # None /\ batches[s] = BatchOf(s)

LEMMA TableInvInit == Init => TableInv
<1> SUFFICES ASSUME Init PROVE TableInv
  OBVIOUS
<1>1. \A s \in Stripes : batches[s] = None
  BY DEF Init
<1>2. batches = [s \in Stripes |-> batches[s]]
  BY DEF Init
<1> QED
  BY <1>1, <1>2 DEF Init, TableInv

(* The file does not change under the table: nothing that was computed from *)
(* it before does.                                                          *)
LEMMA TableInvNext == TableInv /\ [Next]_vars => TableInv'
<1> SUFFICES ASSUME TableInv, [Next]_vars PROVE TableInv'
  OBVIOUS
<1>1. CASE TryNew
  <2>1. provider = None /\ UNCHANGED <<file, column, exec, batches>>
    BY <1>1 DEF TryNew
  <2>2. provider' = Provided
    BY <1>1 DEF TryNew, Provided, Footers
  <2>3. Provided' = Provided
    BY <2>1 DEF Provided, Footers, FooterOf, Stripes
  <2>4. exec = None
    BY <2>1 DEF TableInv, Planned
  <2>5. \A s \in Stripes : batches[s] = None
    BY <2>4 DEF TableInv
  <2>6. Stripes' = Stripes
    BY <2>1 DEF Stripes
  <2>7. (batches = [s \in Stripes |-> batches[s]])'
    BY <2>1, <2>6 DEF TableInv
  <2> QED BY <2>1, <2>2, <2>3, <2>4, <2>5, <2>6, <2>7 DEF TableInv
<1>2. ASSUME NEW filters \in Queries, NEW limit \in Limits \cup {None}, NEW columns \in 0..1,
             Scan(filters, limit, columns)
      PROVE  TableInv'
  <2>1. /\ provider # None /\ exec = None /\ UNCHANGED <<file, column, provider, batches>>
        /\ filters # {} => limit = None /\ columns = 1
    BY <1>2 DEF Scan
  <2>2. exec' = [filters |-> filters, limit |-> limit, columns |-> columns,
                 keep_stripes |-> Kept(filters)]
    BY <1>2 DEF Scan
  <2>3. Stripes' = Stripes
    BY <2>1 DEF Stripes
  <2>4. Planned'
    <3>1. Kept(filters)' = Kept(filters)
      BY <2>1, <2>3 DEF Kept, AnyFilter
    <3>2. /\ exec'.filters = filters /\ exec'.limit = limit /\ exec'.columns = columns
          /\ exec'.keep_stripes = Kept(filters)
      BY <2>2
    <3>3. exec'.keep_stripes = Kept(exec.filters)'
      BY <3>1, <3>2, <2>1, <2>3 DEF Kept, AnyFilter
    <3> QED BY <2>1, <3>2, <3>3 DEF Planned
  <2>5. Provided' = Provided
    BY <2>1, <2>3 DEF Provided, Footers, FooterOf
  <2>6. \A s \in Stripes : batches[s] = None
    BY <2>1 DEF TableInv
  <2>7. (batches = [s \in Stripes |-> batches[s]])'
    BY <2>1, <2>3 DEF TableInv
  <2> QED BY <2>1, <2>3, <2>4, <2>5, <2>6, <2>7 DEF TableInv
<1>3. ASSUME NEW s \in Stripes, Execute(s) PROVE TableInv'
  <2>1. exec # None /\ UNCHANGED <<file, column, provider, exec>>
    BY <1>3 DEF Execute
  <2>2. batches' = [batches EXCEPT ![s] = BatchOf(s)]
    BY <1>3 DEF Execute, BatchOf
  <2>3. Stripes' = Stripes
    BY <2>1 DEF Stripes
  <2>4. \A t \in Stripes : BatchOf(t)' = BatchOf(t)
    BY <2>1 DEF BatchOf, StripeBatch, Limited
  <2>5. /\ \A t \in Stripes : batches'[t] = IF t = s THEN BatchOf(s) ELSE batches[t]
        /\ batches' = [t \in Stripes |-> batches'[t]]
    BY <2>2 DEF TableInv
  <2>6. \A t \in Stripes : batches'[t] # None => batches'[t] = BatchOf(t)
    BY <2>5 DEF TableInv
  <2>7. Planned'
    <3>1. Planned
      BY <2>1 DEF TableInv
    <3>2. Kept(exec.filters)' = Kept(exec.filters)
      BY <2>1, <2>3 DEF Kept, AnyFilter
    <3> QED BY <2>1, <3>1, <3>2 DEF Planned
  <2>8. Provided' = Provided
    BY <2>1, <2>3 DEF Provided, Footers, FooterOf
  <2>9. (\A t \in Stripes : batches[t] # None => exec # None /\ batches[t] = BatchOf(t))'
    BY <2>1, <2>3, <2>4, <2>6
  <2>10. (batches = [t \in Stripes |-> batches[t]])'
    BY <2>3, <2>5
  <2> QED BY <2>1, <2>3, <2>7, <2>8, <2>9, <2>10 DEF TableInv
<1>4. CASE UNCHANGED vars
  <2>1. UNCHANGED <<file, column, provider, exec, batches>>
    BY <1>4 DEF vars
  <2>2. Stripes' = Stripes
    BY <2>1 DEF Stripes
  <2>3. Planned' <=> Planned
    BY <2>1, <2>2 DEF Planned, Kept, AnyFilter
  <2>4. Provided' = Provided
    BY <2>1, <2>2 DEF Provided, Footers, FooterOf
  <2>5. \A t \in Stripes : BatchOf(t)' = BatchOf(t)
    BY <2>1 DEF BatchOf, StripeBatch, Limited
  <2>6. (batches = [t \in Stripes |-> batches[t]])'
    BY <2>1, <2>2 DEF TableInv
  <2> QED BY <2>1, <2>2, <2>3, <2>4, <2>5, <2>6 DEF TableInv
<1> QED
  BY <1>1, <1>2, <1>3, <1>4 DEF Next

LEMMA TableInvHolds == Spec => []TableInv
  BY TableInvInit, TableInvNext, PTL DEF Spec

LEMMA FileType ==
  ASSUME TableInv
  PROVE  /\ file \in Seq(Seq(Rows)) /\ Len(file) \in Nat \ {0}
         /\ \A s \in Stripes : file[s] \in Seq(Rows)
<1>1. file \in Seq(Seq(Rows)) \ {<<>>}
  BY DEF TableInv, Rows
<1>2. Len(file) \in Nat \ {0}
  BY <1>1
<1> QED
  BY <1>1, <1>2 DEF Stripes

(* What a footer says of its stripe.                                        *)
LEMMA FooterFacts ==
  ASSUME TableInv, NEW s \in Stripes
  PROVE  \E p \in Passes :
           /\ Covers(p, ToSet(file[s]))
           /\ p.rows = Len(file[s])
           /\ p.nulls = Occurrences(file[s], Len(file[s]), Null)
           /\ FooterOf(file[s]) = Footer(p, column)
<1> DEFINE rows == file[s]
           p == PassOf(rows)
<1>1. rows \in Seq(Value \cup {Null})
  BY FileType DEF Rows
<1>2. {rows[i] : i \in 1..Len(rows)} = ToSet(rows)
  BY <1>1 DEF ToSet
<1> HIDE DEF rows
<1>3. Summarises(p, rows, Len(rows))
  BY <1>1, PassOfSummarises
<1>4. FooterOf(rows) = Footer(p, column)
  BY DEF FooterOf
<1> HIDE DEF p
<1>5. p \in Passes /\ Covers(p, ToSet(rows)) /\ p.rows = Len(rows)
      /\ p.nulls = Occurrences(rows, Len(rows), Null)
  BY <1>2, <1>3 DEF Summarises
<1> QED
  BY <1>4, <1>5 DEF rows

-----------------------------------------------------------------------------
(* Queries                                                                  *)

\* The queries whose answers are proved: of any operators, except that <> and
\* NOT IN need a table without filters.
SoundQueries ==
  \A filters \in Queries : \A q \in filters :
    q \in Predicate(AllOps) /\ (q.op = "not_in" => Filters \subseteq {FALSE})

(* A stripe that is left out has no row that satisfies all the filters.     *)
LEMMA PrunedHasNoRow ==
  ASSUME ExactForms, SoundQueries, TableInv, exec # None,
         NEW s \in Stripes, s \notin exec.keep_stripes,
         NEW row \in ToSet(file[s])
  PROVE  ~Satisfies(row)
<1>1. /\ exec.filters \in Queries /\ exec.keep_stripes = Kept(exec.filters)
      /\ provider = Provided
  BY DEF TableInv, Planned
<1>2. /\ \A t \in Stripes : provider.footers[t] = FooterOf(file[t])
  BY <1>1 DEF Provided, Footers
<1>3. PICK q \in exec.filters : ~Keeps(provider.footers[s], AnyFilter, q)
  BY <1>1 DEF Kept
<1>4. column.filters \in Filters /\ column.filters \in BOOLEAN
  BY DEF TableInv
<1>5. AnyFilter \in BOOLEAN /\ (AnyFilter => column.filters)
  <2>1. \A t \in Stripes : FooterOf(file[t]).filter # None => column.filters
    BY DEF FooterOf, Footer
  <2> QED BY <1>2, <2>1 DEF AnyFilter
<1>6. q \in Predicate(AllOps) /\ (q.op = "not_in" => ~column.filters)
  BY <1>1, <1>4 DEF SoundQueries
<1> DEFINE seen == ToSet(file[s])
           footer == FooterOf(file[s])
           any == AnyFilter
           c == column
<1>7. PICK p \in Passes : Covers(p, seen) /\ FooterIs(footer, p, c)
  BY <1>4, FooterFacts DEF FooterIs
<1>8. seen \in SUBSET (Value \cup {Null}) /\ row \in seen
  BY FileType DEF Rows, ToSet
<1>9. ~Keeps(footer, any, q)
  BY <1>2, <1>3
<1>10. SoundQuestion(c, any, q)
  BY <1>4, <1>5, <1>6 DEF SoundQuestion
<1> HIDE DEF seen, footer, any, c
<1>11. Matches(row, q) => Keeps(footer, any, q)
  BY <1>7, <1>8, <1>10, KeepsSound
<1> QED
  BY <1>9, <1>11, <1>3 DEF Satisfies

(* No row of these satisfies the filters: the answer is empty.              *)
LEMMA NoAnswer ==
  ASSUME NEW rows \in Seq(Rows), \A row \in ToSet(rows) : ~Satisfies(row)
  PROVE  Answer(rows) = <<>>
<1> DEFINE n == Len(rows)
           nothing == <<>>
           kept == [r \in 1..n |-> IF Satisfies(rows[r]) THEN <<rows[r]>> ELSE <<>>]
<1>1. n \in Nat /\ \A r \in 1..n : rows[r] \in ToSet(rows)
  BY DEF ToSet
<1>2. \A r \in 1..n : kept[r] = nothing
  BY <1>1
<1>3. kept \in Seq(Seq(Rows)) /\ Len(kept) = n
  <2>1. nothing \in Seq(Rows)
    OBVIOUS
  <2>2. kept = [r \in 1..n |-> nothing]
    BY <1>2
  <2> HIDE DEF nothing, kept, n
  <2> QED BY <1>1, <2>1, <2>2
<1>4. Answer(rows) = FlattenSeq(kept)
  BY DEF Answer
<1> HIDE DEF kept
<1>5. Flat(kept, n) = FlattenSeq(kept)
  BY <1>3, FlatWhole
<1>6. Flat(kept, n) = Flat(kept, 0)
  <2>1. 0 \in 0..Len(kept) /\ n \in 0..Len(kept) /\ \A i \in (0 + 1)..n : kept[i] = <<>>
    BY <1>1, <1>2, <1>3
  <2> QED BY <1>3, <2>1, FlatSkips
<1>7. Flat(kept, 0) = <<>>
  BY <1>3, FlatStep
<1> QED
  BY <1>4, <1>5, <1>6, <1>7

(* Of every stripe a query gets the rows that satisfy its filters, all of   *)
(* them and in order, whichever stripes were left out and in whatever order *)
(* the partitions ran.                                                      *)
THEOREM QueriesComplete ==
  ExactForms /\ SoundQueries => (Spec => []QueryComplete)
<1> SUFFICES ASSUME ExactForms, SoundQueries PROVE Spec => []QueryComplete
  OBVIOUS
<1>1. ASSUME TableInv PROVE QueryComplete
  <2> SUFFICES ASSUME NEW s \in Stripes, batches[s] # None,
                      exec.limit = None, exec.columns = 1
               PROVE  Answer(batches[s]) = Answer(file[s])
    BY DEF QueryComplete
  <2>1. exec # None /\ batches[s] = BatchOf(s)
    BY <1>1 DEF TableInv
  <2>2. CASE s \in exec.keep_stripes
    <3>1. batches[s] = file[s]
      BY <2>1, <2>2 DEF BatchOf, StripeBatch, Limited
    <3> QED BY <3>1
  <2>3. CASE s \notin exec.keep_stripes
    <3>1. batches[s] = <<>>
      BY <2>1, <2>3 DEF BatchOf
    <3>2. Answer(file[s]) = <<>>
      <4>1. file[s] \in Seq(Rows)
        BY <1>1, FileType
      <4>2. \A row \in ToSet(file[s]) : ~Satisfies(row)
        BY <1>1, <2>1, <2>3, PrunedHasNoRow
      <4> QED BY <4>1, <4>2, NoAnswer
    <3>3. Answer(<<>>) = <<>>
      <4> DEFINE nothing == <<>>
      <4>1. nothing \in Seq(Rows) /\ ToSet(nothing) = {}
        BY DEF ToSet
      <4>2. \A row \in ToSet(nothing) : ~Satisfies(row)
        BY <4>1
      <4> HIDE DEF nothing
      <4>3. Answer(nothing) = <<>>
        BY <4>1, <4>2, NoAnswer
      <4> QED BY <4>3 DEF nothing
    <3> QED BY <3>1, <3>2, <3>3
  <2> QED BY <2>2, <2>3
<1> QED
  BY <1>1, TableInvHolds, PTL

-----------------------------------------------------------------------------
(* Limits                                                                   *)

(* What a partition gives a query without filters.                          *)
LEMMA BatchLength ==
  ASSUME TableInv, Executed, exec.filters = {}, NEW s \in Stripes
  PROVE  /\ batches[s] \in Seq(Rows)
         /\ exec.limit = None => Len(batches[s]) = Len(file[s])
         /\ exec.limit # None => Len(batches[s]) = AtMost(exec.limit, Len(file[s]))
<1>1. /\ exec # None /\ batches[s] = BatchOf(s)
      /\ provider = Provided /\ exec.keep_stripes = Kept(exec.filters)
      /\ exec.limit \in Limits \cup {None}
  BY DEF TableInv, Planned, Executed
<1>2. batches[s] = StripeBatch(s)
  BY <1>1 DEF BatchOf, Kept
<1> DEFINE count == provider.stripe_row_counts[s]
           all == IF exec.columns = 0 THEN [r \in 1..count |-> Null] ELSE file[s]
<1>3. file[s] \in Seq(Rows) /\ Len(file[s]) \in Nat
  BY FileType
<1>4. count = Len(file[s])
  <2>1. count = FooterOf(file[s]).row_count
    BY <1>1 DEF Provided, Footers
  <2>2. FooterOf(file[s]).row_count = Len(file[s])
    <3>1. PICK p \in Passes :
            /\ p.rows = Len(file[s])
            /\ FooterOf(file[s]) = Footer(p, column)
      BY FooterFacts
    <3> QED BY <3>1 DEF Footer
  <2> QED BY <2>1, <2>2
<1>5. all \in Seq(Rows) /\ Len(all) = Len(file[s])
  <2>1. CASE exec.columns = 0
    <3>1. count \in Nat
      BY <1>3, <1>4
    <3>2. Null \in Rows
      BY DEF Rows
    <3> HIDE DEF count
    <3>3. [r \in 1..count |-> Null] \in Seq(Rows) /\ Len([r \in 1..count |-> Null]) = count
      BY <3>1, <3>2
    <3> QED BY <1>4, <2>1, <3>3
  <2>2. CASE exec.columns # 0
    BY <1>3, <2>2
  <2> QED BY <2>1, <2>2
<1>6. batches[s] = Limited(all)
  BY <1>2 DEF StripeBatch
<1> HIDE DEF all
<1>7. CASE exec.limit = None
  BY <1>5, <1>6, <1>7 DEF Limited
<1>8. CASE exec.limit # None
  <2> DEFINE m == AtMost(exec.limit, Len(all))
  <2>1. exec.limit \in Nat
    BY <1>1, <1>8
  <2>2. m \in 0..Len(all)
    BY <1>3, <1>5, <2>1 DEF AtMost
  <2>3. batches[s] = SubSeq(all, 1, m)
    BY <1>6, <1>8 DEF Limited
  <2> HIDE DEF m
  <2>4. SubSeq(all, 1, m) \in Seq(Rows) /\ Len(SubSeq(all, 1, m)) = m
    BY <1>5, <2>2
  <2> QED BY <1>5, <1>8, <2>3, <2>4 DEF m
<1> QED
  BY <1>7, <1>8

(* Whatever is not limited away is counted, and the partitions together     *)
(* have the rows the query wants, although each only looks at its own.      *)
LEMMA LimitsTogether ==
  ASSUME NEW limit \in Nat, NEW whole \in Seq(Seq(Rows)), NEW cut \in Seq(Seq(Rows)),
         Len(cut) = Len(whole),
         \A s \in 1..Len(whole) : Len(cut[s]) = AtMost(limit, Len(whole[s]))
  PROVE  Len(FlattenSeq(cut)) >= AtMost(limit, Len(FlattenSeq(whole)))
<1> DEFINE n == Len(whole)
           rows(k) == Len(Flat(whole, k))
           got(k) == Len(Flat(cut, k))
           S == {k \in Nat : k <= n => got(k) >= AtMost(limit, rows(k))}
<1>1. n \in Nat /\ Len(cut) = n /\ n \in 0..n
  OBVIOUS
<1>2. 0 \in S
  <2>1. Flat(whole, 0) = <<>> /\ Flat(cut, 0) = <<>>
    BY FlatStep
  <2>2. rows(0) = 0 /\ got(0) = 0
    BY <2>1
  <2> HIDE DEF rows, got
  <2> QED BY <2>2 DEF AtMost
<1>3. ASSUME NEW k \in Nat \ {0}, k - 1 \in S PROVE k \in S
  <2> SUFFICES ASSUME k <= n PROVE got(k) >= AtMost(limit, rows(k))
    OBVIOUS
  <2>1. k \in 1..Len(whole) /\ k \in 1..Len(cut) /\ k - 1 \in Nat /\ k - 1 <= n
    BY <1>1
  <2>2. /\ rows(k - 1) \in Nat /\ Len(whole[k]) \in Nat
        /\ rows(k) = rows(k - 1) + Len(whole[k])
    BY <2>1, FlatStepLength
  <2>3. /\ got(k - 1) \in Nat /\ Len(cut[k]) \in Nat
        /\ got(k) = got(k - 1) + Len(cut[k])
    BY <2>1, FlatStepLength
  <2>4. got(k - 1) >= AtMost(limit, rows(k - 1))
    BY <1>3, <2>1
  <2>5. Len(cut[k]) = AtMost(limit, Len(whole[k]))
    BY <2>1
  <2> HIDE DEF rows, got
  <2> QED BY <2>2, <2>3, <2>4, <2>5 DEF AtMost
<1>4. n \in S
  <2> HIDE DEF S, n
  <2> QED BY <1>1, <1>2, <1>3, SetInduction
<1>5. got(n) >= AtMost(limit, rows(n))
  BY <1>1, <1>4
<1>6. Flat(whole, n) = FlattenSeq(whole) /\ Flat(cut, n) = FlattenSeq(cut)
  <2>1. Flat(cut, Len(cut)) = FlattenSeq(cut) /\ Flat(whole, Len(whole)) = FlattenSeq(whole)
    BY FlatWhole
  <2> QED BY <2>1
<1> QED
  BY <1>5, <1>6

(* Partitions that each stop at the limit of the query give it as many rows *)
(* as it wants, if the file has them; a query that counts gets the number   *)
(* of rows of the file, also without reading a column.                      *)
THEOREM LimitsEnough == Spec => []LimitEnough
<1>1. ASSUME TableInv PROVE LimitEnough
  <2> SUFFICES ASSUME Executed, exec.filters = {}
               PROVE  IF exec.limit = None THEN Len(FlattenSeq(batches)) = Len(TableRows)
                      ELSE Len(FlattenSeq(batches)) >= AtMost(exec.limit, Len(TableRows))
    BY DEF LimitEnough
  <2>1. file \in Seq(Seq(Rows)) /\ Len(file) \in Nat
    BY <1>1, FileType
  <2>2. /\ \A s \in 1..Len(file) : batches[s] \in Seq(Rows)
        /\ exec.limit = None => \A s \in 1..Len(file) : Len(batches[s]) = Len(file[s])
        /\ exec.limit # None =>
             \A s \in 1..Len(file) : Len(batches[s]) = AtMost(exec.limit, Len(file[s]))
    BY <1>1, BatchLength DEF Stripes
  <2>3. batches \in Seq(Seq(Rows)) /\ Len(batches) = Len(file)
    <3>1. batches = [s \in 1..Len(file) |-> batches[s]]
      BY <1>1 DEF TableInv, Stripes
    <3> QED BY <2>1, <2>2, <3>1
  <2>4. CASE exec.limit = None
    <3>1. Len(file) \in 0..Len(batches) /\ Len(file) \in 0..Len(file)
      BY <2>1, <2>3
    <3>2. Len(Flat(batches, Len(file))) = Len(Flat(file, Len(file)))
      <4> DEFINE n == Len(file)
      <4>1. n \in 0..Len(batches) /\ n \in 0..Len(file)
            /\ \A i \in 1..n : Len(batches[i]) = Len(file[i])
        BY <2>2, <2>4, <3>1
      <4> HIDE DEF n
      <4>2. Len(Flat(batches, n)) = Len(Flat(file, n))
        BY <2>1, <2>3, <4>1, FlatLength
      <4> QED BY <4>2 DEF n
    <3>3. /\ Flat(file, Len(file)) = FlattenSeq(file)
          /\ Flat(batches, Len(batches)) = FlattenSeq(batches)
      BY <2>1, <2>3, FlatWhole
    <3> QED BY <2>3, <2>4, <3>2, <3>3 DEF TableRows
  <2>5. CASE exec.limit # None
    <3>1. exec.limit \in Nat
      BY <1>1, <2>5 DEF TableInv, Planned, Executed
    <3>2. Len(FlattenSeq(batches)) >= AtMost(exec.limit, Len(FlattenSeq(file)))
      BY <2>1, <2>2, <2>3, <2>5, <3>1, LimitsTogether
    <3> QED BY <2>5, <3>2 DEF TableRows
  <2> QED BY <2>4, <2>5
<1> QED
  BY <1>1, TableInvHolds, PTL

-----------------------------------------------------------------------------
(* Statistics                                                               *)

\* The footer is true of these rows.
Tells(footer, rows) ==
  /\ footer.row_count = Len(rows)
  /\ footer.null_count # None =>
       /\ footer.null_count \in Nat
       /\ footer.null_count = Occurrences(rows, Len(rows), Null)
  /\ ScalarMin(footer) # None =>
       /\ ScalarMin(footer) \in ToSet(rows) \cap Value
       /\ \A v \in ToSet(rows) \ {Null} : ScalarMin(footer) <= v
  /\ ScalarMax(footer) # None =>
       /\ ScalarMax(footer) \in ToSet(rows) \cap Value
       /\ \A v \in ToSet(rows) \ {Null} : v <= ScalarMax(footer)

LEMMA FootersTell ==
  ASSUME ExactForms, TableInv
  PROVE  /\ Footers = [s \in Stripes |-> Footers[s]] /\ Len(Footers) = Len(file)
         /\ \A s \in Stripes : Tells(Footers[s], file[s])
<1>1. Footers = [s \in Stripes |-> Footers[s]]
  BY DEF Footers
<1>2. Len(Footers) = Len(file)
  BY FileType DEF Footers, Stripes
<1>3. ASSUME NEW s \in Stripes PROVE Tells(Footers[s], file[s])
  <2> DEFINE rows == file[s]
             footer == Footers[s]
  <2>1. PICK p \in Passes :
          /\ Covers(p, ToSet(rows))
          /\ p.rows = Len(rows)
          /\ p.nulls = Occurrences(rows, Len(rows), Null)
          /\ footer = Footer(p, column)
    BY <1>3, FooterFacts DEF Footers
  <2>2. ToSet(rows) \subseteq Value \cup {Null}
    BY FileType DEF Rows, ToSet
  <2> HIDE DEF rows, footer
  <2>3. \A v \in ToSet(rows) \ {Null} : v \in ToSet(rows) \cap Finite
    BY <2>2 DEF ExactForms
  <2>4. /\ footer.row_count = p.rows
        /\ footer.null_count \in {None, p.nulls}
        /\ ScalarMin(footer) # None => p.lo # None /\ ScalarMin(footer) = Stat[p.lo]
        /\ ScalarMax(footer) # None => p.hi # None /\ ScalarMax(footer) = Stat[p.hi]
    BY <2>1 DEF Footer, ScalarMin, ScalarMax
  <2>5. /\ p.nulls \in Nat
        /\ p.lo # None => p.lo \in Value /\ Stat[p.lo] = p.lo
        /\ p.hi # None => p.hi \in Value /\ Stat[p.hi] = p.hi
    BY DEF Passes, ExactForms
  <2>6. /\ p.lo # None => p.lo \in ToSet(rows)
        /\ p.hi # None => p.hi \in ToSet(rows)
        /\ \A v \in ToSet(rows) \ {Null} : p.lo <= v /\ v <= p.hi
    BY <2>1, <2>3 DEF Covers, Stripe!Covers, Stripe!Keys
  <2>7. footer.null_count # None =>
          footer.null_count \in Nat /\ footer.null_count = Occurrences(rows, Len(rows), Null)
    BY <2>1, <2>4, <2>5
  <2>8. ScalarMin(footer) # None => ScalarMin(footer) = p.lo /\ ScalarMin(footer) \in ToSet(rows) \cap Value
    BY <2>4, <2>5, <2>6
  <2>9. ScalarMax(footer) # None => ScalarMax(footer) = p.hi /\ ScalarMax(footer) \in ToSet(rows) \cap Value
    BY <2>4, <2>5, <2>6
  <2>10. Tells(footer, rows)
    BY <2>1, <2>4, <2>6, <2>7, <2>8, <2>9, Zenon DEF Tells
  <2> QED BY <2>10 DEF footer, rows
<1> QED
  BY <1>1, <1>2, <1>3

(* The rows of the stripes are those of the table.                          *)
LEMMA RowCounts ==
  ASSUME TableInv, NEW counts \in Seq(Nat), Len(counts) = Len(file),
         \A s \in 1..Len(file) : counts[s] = Len(file[s])
  PROVE  Total(counts) = Len(TableRows)
<1> DEFINE n == Len(file)
           g == [k \in 0..n |-> Len(Flat(file, k))]
<1>1. file \in Seq(Seq(Rows)) /\ n \in Nat
  BY FileType
<1>2. g[0] = 0
  <2>1. Flat(file, 0) = <<>>
    BY <1>1, FlatStep
  <2> QED BY <1>1, <2>1
<1>3. \A k \in 1..n : g[k] = g[k - 1] + counts[k]
  <2> SUFFICES ASSUME NEW k \in 1..n PROVE g[k] = g[k - 1] + counts[k]
    OBVIOUS
  <2>1. k - 1 \in 0..n /\ k \in 0..n
    BY <1>1
  <2>2. Len(Flat(file, k)) = Len(Flat(file, k - 1)) + Len(file[k])
    BY <1>1, FlatStepLength
  <2> QED BY <2>1, <2>2
<1>4. g[n] = Len(TableRows)
  <2>1. Flat(file, n) = FlattenSeq(file)
    BY <1>1, FlatWhole
  <2> QED BY <1>1, <2>1 DEF TableRows
<1> HIDE DEF g
<1>5. Total(counts) = g[n]
  <2> HIDE DEF n
  <2>1. n = Len(counts)
    BY DEF n
  <2> QED BY <1>1, <1>2, <1>3, <2>1, TotalSummed, SummedIs
<1> QED
  BY <1>4, <1>5

(* The same for their nulls.                                                *)
LEMMA NullCounts ==
  ASSUME TableInv, NEW counts \in Seq(Nat), Len(counts) = Len(file),
         \A s \in 1..Len(file) : counts[s] = Occurrences(file[s], Len(file[s]), Null)
  PROVE  Total(counts) = Occurrences(TableRows, Len(TableRows), Null)
<1> DEFINE n == Len(file)
           nulls(s) == Occurrences(s, Len(s), Null)
           g == [k \in 0..n |-> nulls(Flat(file, k))]
<1>1. file \in Seq(Seq(Rows)) /\ n \in Nat
  BY FileType
<1>2. g[0] = 0
  <2>1. Flat(file, 0) = <<>>
    BY <1>1, FlatStep
  <2>2. Len(<<>>) = 0
    OBVIOUS
  <2>3. nulls(<<>>) = 0
    BY <2>2, OccurrencesStep
  <2> HIDE DEF nulls
  <2> QED BY <1>1, <2>1, <2>3
<1>3. \A k \in 1..n : g[k] = g[k - 1] + counts[k]
  <2> SUFFICES ASSUME NEW k \in 1..n PROVE g[k] = g[k - 1] + counts[k]
    OBVIOUS
  <2> DEFINE before == Flat(file, k - 1)
             last == file[k]
  <2>1. k - 1 \in 0..n /\ k \in 0..n
    BY <1>1
  <2>2. before \in Seq(Rows) /\ last \in Seq(Rows) /\ Flat(file, k) = before \o last
    <3>1. last \in Seq(Rows)
      BY <1>1
    <3>2. Flat(file, k - 1) \in Seq(Rows) /\ Flat(file, k) = Flat(file, k - 1) \o file[k]
      BY <1>1, <2>1, FlatStep
    <3> QED BY <3>1, <3>2
  <2>3. counts[k] = nulls(last)
    OBVIOUS
  <2>4. nulls(before \o last) = nulls(before) + nulls(last)
    <3> HIDE DEF before, last
    <3> QED BY <2>2, OccurrencesConcat
  <2>5. g[k] = nulls(before \o last) /\ g[k - 1] = nulls(before)
    <3> HIDE DEF nulls
    <3> QED BY <2>1, <2>2
  <2> HIDE DEF g, nulls, before, last
  <2> QED BY <2>3, <2>4, <2>5
<1>4. g[n] = nulls(TableRows)
  <2>1. Flat(file, n) = FlattenSeq(file)
    BY <1>1, FlatWhole
  <2> QED BY <1>1, <2>1 DEF TableRows
<1> HIDE DEF g
<1>5. Total(counts) = g[n]
  <2> HIDE DEF n
  <2>1. n = Len(counts)
    BY DEF n
  <2> QED BY <1>1, <1>2, <1>3, <2>1, TotalSummed, SummedIs
<1> QED
  BY <1>4, <1>5

(* The values of the table are those of its stripes.                        *)
LEMMA TableValues ==
  ASSUME TableInv
  PROVE  /\ ToSet(TableRows) \subseteq Rows
         /\ \A s \in Stripes : ToSet(file[s]) \subseteq ToSet(TableRows)
         /\ \A v \in ToSet(TableRows) : \E s \in Stripes : v \in ToSet(file[s])
<1>1. file \in Seq(Seq(Rows)) /\ TableRows = FlattenSeq(file) /\ Stripes = 1..Len(file)
  BY FileType DEF TableRows, Stripes
<1>2. TableRows \in Seq(Rows)
  <2>1. Len(file) \in 0..Len(file)
    BY <1>1
  <2>2. Flat(file, Len(file)) \in Seq(Rows) /\ Flat(file, Len(file)) = FlattenSeq(file)
    BY <1>1, <2>1, FlatStep, FlatWhole
  <2> QED BY <1>1, <2>2
<1>3. ASSUME NEW s \in Stripes, NEW v \in ToSet(file[s]) PROVE v \in ToSet(TableRows)
  <2>1. file[s] \in Seq(Rows)
    BY FileType
  <2>2. PICK j \in 1..Len(file[s]) : v = file[s][j]
    BY <2>1 DEF ToSet
  <2>3. PICK i \in 1..Len(TableRows) : TableRows[i] = file[s][j]
    <3>1. s \in 1..Len(file)
      BY <1>1
    <3> DEFINE i == Len(Flat(file, s - 1)) + j
    <3>2. i \in 1..Len(FlattenSeq(file)) /\ FlattenSeq(file)[i] = file[s][j]
      BY <1>1, <3>1, FlatAt
    <3> HIDE DEF i
    <3> QED BY <1>1, <3>2
  <2> QED BY <1>2, <2>2, <2>3 DEF ToSet
<1>4. ASSUME NEW v \in ToSet(TableRows) PROVE \E s \in Stripes : v \in ToSet(file[s])
  <2> DEFINE x == v
  <2>1. x \in ToSet(FlattenSeq(file))
    BY <1>1
  <2> HIDE DEF x
  <2>2. \E k \in 1..Len(file) : x \in ToSet(file[k])
    BY <1>1, <2>1, FlatElements
  <2> QED BY <1>1, <2>2 DEF x
<1>5. ToSet(TableRows) \subseteq Rows
  BY <1>2 DEF ToSet
<1> QED
  BY <1>3, <1>4, <1>5

(* If every stripe has a minimum, the least of them is that of the table.   *)
LEMMA LeastOfTable ==
  ASSUME ExactForms, TableInv,
         NEW mins, mins = {ScalarMin(Footers[s]) : s \in Stripes}, None \notin mins
  PROVE  /\ ToSet(TableRows) \ {Null} # {}
         /\ Min(mins) = Min(ToSet(TableRows) \ {Null})
<1> DEFINE values == ToSet(TableRows) \ {Null}
<1>1. \A s \in Stripes : Tells(Footers[s], file[s]) /\ ScalarMin(Footers[s]) # None
  BY FootersTell
<1>2. mins \subseteq values
  <2>1. \A s \in Stripes : ScalarMin(Footers[s]) \in ToSet(file[s]) /\ ScalarMin(Footers[s]) # Null
    BY <1>1 DEF Tells
  <2> QED BY <2>1, TableValues
<1>3. values \subseteq Nat
  BY TableValues DEF Rows
<1>4. mins # {}
  <2>1. Len(file) \in Nat \ {0}
    BY FileType
  <2>2. 1 \in Stripes
    BY <2>1 DEF Stripes
  <2>3. ScalarMin(Footers[1]) \in mins
    BY <2>2
  <2> QED BY <2>3
<1>5. ASSUME NEW v \in values PROVE \E m \in mins : m <= v
  <2>1. PICK s \in Stripes : v \in ToSet(file[s])
    BY TableValues
  <2>2. ScalarMin(Footers[s]) <= v
    BY <1>1, <2>1 DEF Tells
  <2> QED BY <2>2
<1> HIDE DEF values
<1>6. Min(mins) \in mins /\ \A m \in mins : Min(mins) <= m
  BY <1>2, <1>3, <1>4, MinIs
<1>7. Min(values) \in values /\ \A v \in values : Min(values) <= v
  BY <1>2, <1>3, <1>4, MinIs
<1>8. Min(values) <= Min(mins)
  BY <1>2, <1>6, <1>7
<1>9. Min(mins) <= Min(values)
  <2>1. PICK m \in mins : m <= Min(values)
    BY <1>5, <1>7
  <2>2. Min(mins) <= m /\ Min(mins) \in Nat /\ m \in Nat /\ Min(values) \in Nat
    BY <1>2, <1>3, <1>6, <1>7
  <2> QED BY <2>1, <2>2
<1>10. Min(mins) \in Nat /\ Min(values) \in Nat
  BY <1>2, <1>3, <1>6, <1>7
<1>11. Min(mins) = Min(values) /\ values # {}
  BY <1>7, <1>8, <1>9, <1>10
<1> QED
  BY <1>11 DEF values

(* The same for the maximum.                                                *)
LEMMA GreatestOfTable ==
  ASSUME ExactForms, TableInv,
         NEW maxes, maxes = {ScalarMax(Footers[s]) : s \in Stripes}, None \notin maxes
  PROVE  /\ ToSet(TableRows) \ {Null} # {}
         /\ Max(maxes) = Max(ToSet(TableRows) \ {Null})
<1> DEFINE values == ToSet(TableRows) \ {Null}
<1>1. \A s \in Stripes : Tells(Footers[s], file[s]) /\ ScalarMax(Footers[s]) # None
  BY FootersTell
<1>2. maxes \subseteq values
  <2>1. \A s \in Stripes : ScalarMax(Footers[s]) \in ToSet(file[s]) /\ ScalarMax(Footers[s]) # Null
    BY <1>1 DEF Tells
  <2> QED BY <2>1, TableValues
<1>3. values \subseteq Nat
  BY TableValues DEF Rows
<1>4. maxes # {}
  <2>1. Len(file) \in Nat \ {0}
    BY FileType
  <2>2. 1 \in Stripes
    BY <2>1 DEF Stripes
  <2>3. ScalarMax(Footers[1]) \in maxes
    BY <2>2
  <2> QED BY <2>3
<1>5. ASSUME NEW v \in values PROVE \E s \in Stripes : v <= ScalarMax(Footers[s])
  <2>1. PICK s \in Stripes : v \in ToSet(file[s])
    BY TableValues
  <2>2. v <= ScalarMax(Footers[s])
    BY <1>1, <2>1 DEF Tells
  <2> QED BY <2>2
<1>6. PICK top \in Nat : \A v \in values : v <= top
  <2> DEFINE n == Len(file)
             f == [s \in 1..n |-> ScalarMax(Footers[s])]
  <2>1. n \in Nat /\ Stripes = 1..n
    BY FileType DEF Stripes
  <2>2. \A s \in 1..n : f[s] \in Nat /\ f[s] = ScalarMax(Footers[s])
    BY <1>2, <1>3, <2>1
  <2> HIDE DEF n, f
  <2>3. PICK top \in Nat : \A s \in 1..n : f[s] <= top
    BY <2>1, <2>2, Bounded
  <2>4. ASSUME NEW v \in values PROVE v <= top
    <3>1. PICK s \in 1..n : v <= f[s]
      BY <1>5, <2>1, <2>2
    <3>2. v \in Nat /\ f[s] \in Nat /\ f[s] <= top
      BY <1>3, <2>2, <2>3
    <3> HIDE DEF values
    <3> QED BY <3>1, <3>2
  <2> QED BY <2>4
<1> HIDE DEF values
<1>7. values \subseteq 0..top /\ maxes \subseteq 0..top /\ values # {}
  <2>1. \A v \in values : v \in 0..top
    BY <1>3, <1>6
  <2> QED BY <1>2, <1>4, <2>1
<1>8. Max(maxes) \in maxes /\ \A m \in maxes : m <= Max(maxes)
  BY <1>4, <1>7, MaxIs
<1>9. Max(values) \in values /\ \A v \in values : v <= Max(values)
  BY <1>7, MaxIs
<1>10. Max(maxes) <= Max(values)
  BY <1>2, <1>8, <1>9
<1>11. Max(values) <= Max(maxes)
  <2>1. PICK m \in maxes : Max(values) <= m
    BY <1>5, <1>9
  <2>2. m <= Max(maxes) /\ Max(maxes) \in Nat /\ m \in Nat /\ Max(values) \in Nat
    BY <1>2, <1>3, <1>8, <1>9
  <2> QED BY <2>1, <2>2
<1>12. Max(maxes) \in Nat /\ Max(values) \in Nat
  BY <1>2, <1>3, <1>8, <1>9
<1>13. Max(maxes) = Max(values)
  BY <1>10, <1>11, <1>12
<1> QED
  BY <1>7, <1>13 DEF values

(* Statistics that are Exact are the true ones of the whole file.           *)
THEOREM StatisticsAreExact == ExactForms => (Spec => []StatisticsExact)
<1> SUFFICES ASSUME ExactForms PROVE Spec => []StatisticsExact
  OBVIOUS
<1>1. ASSUME TableInv PROVE StatisticsExact
  <2> DEFINE claimed == provider.statistics.column_statistics
             values == ToSet(TableRows) \ {Null}
             mins == {ScalarMin(Footers[s]) : s \in Stripes}
             maxes == {ScalarMax(Footers[s]) : s \in Stripes}
             nulls == {Footers[s].null_count : s \in Stripes}
             rowCounts == [s \in 1..Len(Footers) |-> Footers[s].row_count]
             nullCounts == [s \in 1..Len(Footers) |-> Footers[s].null_count]
  <2> SUFFICES ASSUME provider # None
               PROVE  /\ provider.statistics.num_rows = Len(TableRows)
                      /\ claimed.min_value # None => values # {} /\ claimed.min_value = Min(values)
                      /\ claimed.max_value # None => values # {} /\ claimed.max_value = Max(values)
                      /\ claimed.null_count # None =>
                           claimed.null_count
                             = Cardinality({r \in 1..Len(TableRows) : TableRows[r] = Null})
    BY DEF StatisticsExact
  <2>1. provider.statistics = Statistics(Footers)
    BY <1>1 DEF TableInv, Provided
  <2>2. Len(Footers) = Len(file) /\ Stripes = 1..Len(Footers) /\ Len(file) \in Nat
    BY <1>1, FootersTell, FileType DEF Stripes
  <2>3. \A s \in Stripes : Tells(Footers[s], file[s])
    BY <1>1, FootersTell
  <2>4. provider.statistics.num_rows = Len(TableRows)
    <3>1. provider.statistics.num_rows = Total(rowCounts)
      BY <2>1 DEF Statistics
    <3>2. \A s \in 1..Len(file) : Footers[s].row_count = Len(file[s]) /\ Len(file[s]) \in Nat
      BY <1>1, <2>2, <2>3, FileType DEF Tells
    <3>3. /\ rowCounts \in Seq(Nat) /\ Len(rowCounts) = Len(file)
          /\ \A s \in 1..Len(file) : rowCounts[s] = Len(file[s])
      BY <2>2, <3>2
    <3> HIDE DEF rowCounts
    <3> QED BY <1>1, <3>1, <3>3, RowCounts
  <2>5. /\ claimed.min_value = IF None \in mins \cup maxes THEN None ELSE Min(mins)
        /\ claimed.max_value = IF None \in mins \cup maxes THEN None ELSE Max(maxes)
        /\ claimed.null_count = IF None \in mins \cup maxes \cup nulls THEN None
                               ELSE Total(nullCounts)
    BY <2>1, <2>2 DEF Statistics, ColumnStatistics, NullCount
  <2>6. claimed.null_count # None =>
          claimed.null_count = Occurrences(TableRows, Len(TableRows), Null)
    <3> SUFFICES ASSUME claimed.null_count # None
                 PROVE  claimed.null_count = Occurrences(TableRows, Len(TableRows), Null)
      OBVIOUS
    <3>1. claimed.null_count = Total(nullCounts) /\ None \notin nulls
      BY <2>5
    <3>2. \A s \in 1..Len(file) :
            /\ Footers[s].null_count \in Nat
            /\ Footers[s].null_count = Occurrences(file[s], Len(file[s]), Null)
      BY <2>2, <2>3, <3>1 DEF Tells
    <3>3. /\ nullCounts \in Seq(Nat) /\ Len(nullCounts) = Len(file)
          /\ \A s \in 1..Len(file) :
               nullCounts[s] = Occurrences(file[s], Len(file[s]), Null)
      BY <2>2, <3>2
    <3> HIDE DEF nullCounts
    <3>4. Total(nullCounts) = Occurrences(TableRows, Len(TableRows), Null)
      BY <1>1, <3>3, NullCounts
    <3> QED BY <3>1, <3>4
  <2> HIDE DEF claimed, mins, maxes, nulls, nullCounts, rowCounts
  <2>7. claimed.min_value # None => values # {} /\ claimed.min_value = Min(values)
    <3> SUFFICES ASSUME claimed.min_value # None
                 PROVE  values # {} /\ claimed.min_value = Min(values)
      OBVIOUS
    <3>1. claimed.min_value = Min(mins) /\ None \notin mins
      BY <2>5
    <3> QED BY <1>1, <3>1, LeastOfTable DEF mins
  <2>8. claimed.max_value # None => values # {} /\ claimed.max_value = Max(values)
    <3> SUFFICES ASSUME claimed.max_value # None
                 PROVE  values # {} /\ claimed.max_value = Max(values)
      OBVIOUS
    <3>1. claimed.max_value = Max(maxes) /\ None \notin maxes
      BY <2>5
    <3> QED BY <1>1, <3>1, GreatestOfTable DEF maxes
  <2> QED BY <2>4, <2>6, <2>7, <2>8 DEF Occurrences
<1> QED
  BY <1>1, TableInvHolds, PTL

=============================================================================
