---------------------------- MODULE FooterStats ----------------------------
(***************************************************************************)
(* Statistics and containment filters of one physical leaf of a stripe     *)
(* (src/src/core/footer_stats.rs), computed from its values in one pass.   *)
(*                                                                         *)
(* A value is its rank in the order of its type.  What becomes of it in    *)
(* the footer is a parameter: strings are cut to 256 bytes, so they move   *)
(* down in the order; blobs become base64 texts, which have an order of    *)
(* their own; floats that are not finite are left out.                     *)
(***************************************************************************)
EXTENDS Naturals, Sequences

CONSTANTS
  Value,        \* the values a row may hold
  Finite,       \* those that a footer can carry (all but inf and NaN)
  Stat,         \* [Value -> Nat]: the rank of the form the footer carries
  Text,         \* [Value -> Nat]: the same for a binary column, the rank of
                \* a base64 text among texts (encode_binary_stat)
  MaxDistinct,  \* MAX_DISTINCT_SET_SIZE
  H1, H2,       \* [Value -> Nat]: the two hashes of double_hash
  Word,         \* 2^64, where the hash arithmetic wraps
  BlockBits,    \* a Bloom filter is a multiple of 64 bits
  MaxBits,      \* MAX_BLOOM_BYTES * 8
  None

ASSUME ValuesAssumption ==
  /\ Value \subseteq Nat /\ Finite \subseteq Value
  /\ Stat \in [Value -> Nat] /\ Text \in [Value -> Nat]
  /\ None \notin Nat
ASSUME FilterAssumption ==
  /\ H1 \in [Value -> Nat] /\ H2 \in [Value -> Nat]
  /\ {MaxDistinct, Word, BlockBits, MaxBits} \subseteq Nat \ {0}

-----------------------------------------------------------------------------
(* Bloom filters *)

CeilDiv(a, b) == (a + b - 1) \div b
AtMost(a, b) == IF a <= b THEN a ELSE b

\* ceil(9.585 n) bits, in whole blocks, capped.
BloomSize(n) == AtMost(CeilDiv(CeilDiv(9585 * n, 1000), BlockBits) * BlockBits, MaxBits)

\* round(m / n * ln 2), between 1 and 30.
HashCount(m, n) ==
  LET k == (2 * 693147 * m + 1000000 * n) \div (2 * 1000000 * n)
  IN IF k = 0 THEN 1 ELSE AtMost(k, 30)

\* (h1 + i * h2) mod m, in wrapping arithmetic.
BitPositions(m, k, v) == {((H1[v] + i * H2[v]) % Word) % m : i \in 0..(k - 1)}

\* keys: the values inserted; n: how often, which sizes the filter.
BuildBloom(keys, n) ==
  LET m == BloomSize(n)
      k == HashCount(m, n)
  IN [kind |-> "bloom", m |-> m, k |-> k,
      bits |-> UNION {BitPositions(m, k, v) : v \in keys}]

-----------------------------------------------------------------------------
(* FilterAccumulator: an exact set until it outgrows MAX_DISTINCT_SET_SIZE  *)

Tracking(set, size) == [kind |-> "tracking", set |-> set, size |-> size]
Overflow(keys, n) == [kind |-> "overflow", keys |-> keys, n |-> n]

Accumulators ==
  [kind : {"tracking"}, set : SUBSET Finite, size : Nat]
    \cup [kind : {"overflow"}, keys : SUBSET Finite, n : Nat]

NewFilter == Tracking({}, 0)

\* Mutant: the value that makes the set overflow is lost.
InsertKeyLosing(acc, v) ==
  IF acc.kind = "overflow" THEN Overflow(acc.keys \cup {v}, acc.n + 1)
  ELSE LET set == acc.set \cup {v}
           size == IF v \in acc.set THEN acc.size ELSE acc.size + 1
       IN IF size > MaxDistinct THEN Overflow(acc.set, size) ELSE Tracking(set, size)

\* insert_mmv
InsertKey(acc, v) ==
  IF acc.kind = "overflow" THEN Overflow(acc.keys \cup {v}, acc.n + 1)
  ELSE LET set == acc.set \cup {v}
           size == IF v \in acc.set THEN acc.size ELSE acc.size + 1
       IN IF size > MaxDistinct THEN Overflow(set, size) ELSE Tracking(set, size)

FinishFilter(acc) ==
  IF acc.kind = "overflow" THEN BuildBloom(acc.keys, acc.n)
  ELSE IF acc.set = {} THEN None
  ELSE [kind |-> "distinct_set", set |-> acc.set]

\* Would the filter admit v?
MightContain(filter, v) ==
  IF filter.kind = "distinct_set" THEN v \in filter.set
  ELSE BitPositions(filter.m, filter.k, v) \subseteq filter.bits

-----------------------------------------------------------------------------
(* One pass over the rows: min and max of the values that count, filter,    *)
(* null and row counts.                                                     *)

Passes ==
  [lo : Finite \cup {None}, hi : Finite \cup {None}, filter : Accumulators,
   nulls : Nat, rows : Nat]

EmptyPass == [lo |-> None, hi |-> None, filter |-> NewFilter, nulls |-> 0, rows |-> 0]

\* Mutant: a new minimum is not looked at as a maximum.
PassValueElse(p, v) ==
  LET below == p.lo = None \/ v < p.lo
  IN [lo |-> IF below THEN v ELSE p.lo,
      hi |-> IF ~below /\ (p.hi = None \/ v > p.hi) THEN v ELSE p.hi,
      filter |-> InsertKey(p.filter, v), nulls |-> p.nulls, rows |-> p.rows + 1]

PassValue(p, v) ==
  IF v \in Finite
  THEN [lo |-> IF p.lo = None \/ v < p.lo THEN v ELSE p.lo,
        hi |-> IF p.hi = None \/ v > p.hi THEN v ELSE p.hi,
        filter |-> InsertKey(p.filter, v), nulls |-> p.nulls, rows |-> p.rows + 1]
  ELSE [p EXCEPT !.rows = p.rows + 1]

\* Mutant: a null takes part in the minimum, as a value below all others.
PassNullMin(p) ==
  [p EXCEPT !.lo = 0 - 1, !.nulls = p.nulls + 1, !.rows = p.rows + 1]

PassNull(p) == [p EXCEPT !.nulls = p.nulls + 1, !.rows = p.rows + 1]

\* What the footer of a column c keeps of it: the bounds are found in the order
\* of the values and kept in their footer form.  A writer may have statistics or
\* filters disabled; only a Nullable column has a null count worth reading.
Footer(p, c) ==
  LET form == IF c.binary THEN Text ELSE Stat
  IN [binary |-> c.binary,
      min |-> IF c.stats /\ p.lo # None THEN form[p.lo] ELSE None,
      max |-> IF c.stats /\ p.hi # None THEN form[p.hi] ELSE None,
      null_count |-> IF c.stats /\ c.nullable THEN p.nulls ELSE None,
      row_count |-> p.rows,
      filter |-> IF c.filters THEN FinishFilter(p.filter) ELSE None]

=============================================================================
