--------------------------- MODULE SequenceLemmas ---------------------------
(***************************************************************************)
(* Induction over the natural numbers, and what the folds of the community *)
(* modules compute: the lemmas that the proofs about sequences share.      *)
(*                                                                         *)
(* The library's induction theorems take the property as an operator,      *)
(* which the provers cannot instantiate.  Here the property is a set, and  *)
(* induction follows from the well-foundedness of < on Nat; a fold is      *)
(* described by a function whose steps are functions too.                  *)
(***************************************************************************)
EXTENDS Naturals, SequencesExt, SequenceTheorems, FiniteSetTheorems,
        WellFoundedInduction, TLAPS

-----------------------------------------------------------------------------
(* Induction                                                                *)

(* A set of natural numbers that is not empty has a least element.          *)
LEMMA LeastNatural ==
  ASSUME NEW T, T \subseteq Nat, T # {}
  PROVE  \E x \in T : \A y \in T : x <= y
<1> DEFINE R == OpToRel(<, Nat)
<1>1. IsWellFoundedOn(R, Nat)
  BY NatLessThanWellFounded
<1>2. \A x, y \in Nat : <<y, x>> \in R <=> y < x
  BY DEF OpToRel
<1> HIDE DEF R
<1>3. PICK x \in T : \A y \in T : ~(<<y, x>> \in R)
  BY <1>1, WFMin
<1>4. ASSUME NEW y \in T PROVE x <= y
  <2>1. x \in Nat /\ y \in Nat
    OBVIOUS
  <2>2. ~(y < x)
    BY <1>2, <1>3, <2>1
  <2> QED BY <2>1, <2>2
<1> QED
  BY <1>4

(* A set that holds 0 and, with every number's predecessor, the number,      *)
(* holds all natural numbers.                                               *)
LEMMA SetInduction ==
  ASSUME NEW S, 0 \in S, \A k \in Nat \ {0} : k - 1 \in S => k \in S
  PROVE  Nat \subseteq S
<1> SUFFICES ASSUME Nat \ S # {} PROVE FALSE
  OBVIOUS
<1>1. PICK x \in Nat \ S : \A y \in Nat \ S : x <= y
  BY LeastNatural
<1>2. x # 0 /\ x - 1 \in Nat /\ x - 1 \in S
  BY <1>1
<1> QED
  BY <1>1, <1>2

(* A bounded set of natural numbers that is not empty has a greatest one.   *)
LEMMA GreatestNatural ==
  ASSUME NEW n \in Nat, NEW T, T \subseteq 0..n, T # {}
  PROVE  \E x \in T : \A y \in T : y <= x
<1> DEFINE above == {k \in Nat : \A y \in T : y <= k}
<1>1. n \in above
  OBVIOUS
<1>2. above \subseteq Nat /\ above # {}
  BY <1>1
<1>3. PICK k \in above : \A m \in above : k <= m
  <2> HIDE DEF above
  <2> QED BY <1>2, LeastNatural
<1>4. k \in T
  <2> SUFFICES ASSUME k \notin T PROVE FALSE
    OBVIOUS
  <2>1. \A y \in T : y \in Nat /\ y < k
    BY <1>3
  <2>2. PICK y \in T : TRUE
    OBVIOUS
  <2>3. k - 1 \in Nat
    BY <1>3, <2>1, <2>2
  <2>4. ASSUME NEW z \in T PROVE z <= k - 1
    BY <2>1, <2>3
  <2>5. k - 1 \in above
    BY <2>3, <2>4
  <2> QED BY <1>3, <2>3, <2>5
<1> QED
  BY <1>3, <1>4

(* Max and Min of FiniteSetsExt pick the extremes of such a set.            *)
LEMMA MaxIs ==
  ASSUME NEW n \in Nat, NEW T, T \subseteq 0..n, T # {}
  PROVE  Max(T) \in T /\ \A y \in T : y <= Max(T)
<1>1. \E x \in T : \A y \in T : x >= y
  BY GreatestNatural
<1> QED
  BY <1>1 DEF Max

LEMMA MinIs ==
  ASSUME NEW T, T \subseteq Nat, T # {}
  PROVE  Min(T) \in T /\ \A y \in T : Min(T) <= y
<1>1. \E x \in T : \A y \in T : x <= y
  BY LeastNatural
<1> QED
  BY <1>1 DEF Min

-----------------------------------------------------------------------------
(* Recursion: n steps from a base, each of them a function of the last value *)

\* f holds the values after 0, 1, ..., n steps.
Recursion(f, T, base, n, step) ==
  /\ f \in [0..n -> T]
  /\ f[0] = base
  /\ \A k \in 1..n : f[k] = step[k][f[k - 1]]

(* Such a function exists, with values where the steps have them.           *)
LEMMA RecursiveFunction ==
  ASSUME NEW T, NEW base \in T, NEW n \in Nat, NEW step \in [1..n -> [T -> T]]
  PROVE  \E f : Recursion(f, T, base, n, step)
<1> DEFINE Good(m, f) == f[0] = base /\ \A k \in 1..m : f[k] = step[k][f[k - 1]]
           S == {m \in Nat : m <= n => \E f \in [0..m -> T] : Good(m, f)}
<1>1. 0 \in S
  <2>1. [k \in 0..0 |-> base] \in [0..0 -> T] /\ Good(0, [k \in 0..0 |-> base])
    OBVIOUS
  <2> QED BY <2>1
<1>2. ASSUME NEW m \in Nat \ {0}, m - 1 \in S PROVE m \in S
  <2> SUFFICES ASSUME m <= n PROVE \E f \in [0..m -> T] : Good(m, f)
    OBVIOUS
  <2>1. PICK f \in [0..(m - 1) -> T] : Good(m - 1, f)
    BY <1>2
  <2> DEFINE g == [k \in 0..m |-> IF k = m THEN step[m][f[m - 1]] ELSE f[k]]
  <2>2. f[m - 1] \in T /\ step[m] \in [T -> T]
    OBVIOUS
  <2>3. g \in [0..m -> T]
    BY <2>2
  <2>4. g[0] = base
    BY <2>1
  <2>5. ASSUME NEW k \in 1..m PROVE g[k] = step[k][g[k - 1]]
    BY <2>1
  <2> QED BY <2>3, <2>4, <2>5
<1>3. n \in S
  <2> HIDE DEF S
  <2> QED BY <1>1, <1>2, SetInduction
<1> QED
  BY <1>3 DEF Recursion

-----------------------------------------------------------------------------
(* MapThenFoldSet takes the greatest index off a set of indexes             *)

\* h folds every set of indexes, as the function inside MapThenFoldSet does.
Iterates(h, base, n, step) ==
  \A s \in SUBSET (1..n) :
    h[s] = IF s = {} THEN base ELSE step[Max(s)][h[s \ {Max(s)}]]

(* Such a function exists.                                                  *)
LEMMA IterationExists ==
  ASSUME NEW T, NEW base \in T, NEW n \in Nat, NEW step \in [1..n -> [T -> T]]
  PROVE  \E h \in [SUBSET (1..n) -> T] : Iterates(h, base, n, step)
<1> DEFINE Good(m) == \E h \in [SUBSET (1..m) -> T] : Iterates(h, base, m, step)
           S == {m \in Nat : m <= n => Good(m)}
<1>1. 0 \in S
  <2> DEFINE h == [s \in SUBSET (1..0) |-> base]
  <2>1. h \in [SUBSET (1..0) -> T] /\ Iterates(h, base, 0, step)
    BY DEF Iterates
  <2> QED BY <2>1
<1>2. ASSUME NEW m \in Nat \ {0}, m - 1 \in S PROVE m \in S
  <2> SUFFICES ASSUME m <= n PROVE Good(m)
    OBVIOUS
  <2>1. PICK h \in [SUBSET (1..(m - 1)) -> T] : Iterates(h, base, m - 1, step)
    <3>1. m - 1 \in Nat /\ m - 1 <= n
      OBVIOUS
    <3>2. Good(m - 1)
      <4> HIDE DEF Good
      <4> QED BY <1>2, <3>1
    <3> QED BY <3>2
  <2> DEFINE g == [s \in SUBSET (1..m) |->
                     IF m \in s THEN step[m][h[s \ {m}]] ELSE h[s]]
  <2>2. ASSUME NEW s \in SUBSET (1..m)
        PROVE  s \ {m} \in SUBSET (1..(m - 1)) /\ (m \notin s => s \in SUBSET (1..(m - 1)))
    OBVIOUS
  <2>3. g \in [SUBSET (1..m) -> T]
    <3>1. step[m] \in [T -> T]
      OBVIOUS
    <3> QED BY <2>2, <3>1
  <2>4. ASSUME NEW s \in SUBSET (1..m)
        PROVE  g[s] = IF s = {} THEN base ELSE step[Max(s)][g[s \ {Max(s)}]]
    <3>1. CASE m \in s
      <4>1. Max(s) = m
        <5>1. s \subseteq 0..m /\ s # {}
          BY <3>1
        <5>2. Max(s) \in s /\ \A y \in s : y <= Max(s)
          BY <5>1, MaxIs
        <5>3. Max(s) \in 1..m /\ m <= Max(s)
          BY <3>1, <5>2
        <5> HIDE DEF g
        <5> QED BY <5>3
      <4>2. s \ {m} \in SUBSET (1..m) /\ m \notin s \ {m}
        OBVIOUS
      <4>3. g[s \ {m}] = h[s \ {m}]
        BY <4>2
      <4>4. g[s] = step[m][h[s \ {m}]]
        BY <3>1
      <4> QED BY <3>1, <4>1, <4>3, <4>4
    <3>2. CASE m \notin s /\ s # {}
      <4>1. s \in SUBSET (1..(m - 1))
        BY <3>2, <2>2
      <4>2. Max(s) \in s
        <5>1. s \subseteq 0..m
          OBVIOUS
        <5> QED BY <3>2, <5>1, MaxIs
      <4>3. h[s] = step[Max(s)][h[s \ {Max(s)}]]
        BY <2>1, <3>2, <4>1 DEF Iterates
      <4>4. g[s] = h[s]
        BY <3>2
      <4>5. s \ {Max(s)} \in SUBSET (1..m) /\ m \notin s \ {Max(s)}
        BY <3>2
      <4>6. g[s \ {Max(s)}] = h[s \ {Max(s)}]
        BY <4>5
      <4> HIDE DEF g
      <4> QED BY <3>2, <4>3, <4>4, <4>6
    <3>3. CASE s = {}
      <4>1. g[s] = h[s] /\ s \in SUBSET (1..(m - 1))
        BY <3>3
      <4> QED BY <2>1, <3>3, <4>1 DEF Iterates
    <3> QED BY <3>1, <3>2, <3>3
  <2> HIDE DEF g
  <2>5. Iterates(g, base, m, step)
    BY <2>4 DEF Iterates
  <2> QED BY <2>3, <2>5
<1>3. n \in S
  <2> HIDE DEF S
  <2> QED BY <1>1, <1>2, SetInduction
<1>4. Good(n)
  <2> HIDE DEF Good
  <2> QED BY <1>3
<1> QED
  BY <1>4

(* On the first k indexes the last one comes off, which leaves k - 1.       *)
LEMMA LastOfInterval ==
  ASSUME NEW n \in Nat, NEW k \in 1..n
  PROVE  /\ 1..k \in SUBSET (1..n) /\ 1..k # {}
         /\ Max(1..k) = k
         /\ (1..k) \ {Max(1..k)} = 1..(k - 1)
<1>1. 1..k \in SUBSET (1..n) /\ 1..k # {} /\ 1..k \subseteq 0..k /\ k \in Nat
  OBVIOUS
<1>2. Max(1..k) \in 1..k /\ \A y \in 1..k : y <= Max(1..k)
  BY <1>1, MaxIs
<1>3. Max(1..k) = k
  BY <1>2
<1> QED
  BY <1>1, <1>3

-----------------------------------------------------------------------------
(* FlattenSeq                                                               *)

\* f[k] is the concatenation of the first k sequences.
Unrolls(f, ss, n) ==
  /\ f[0] = <<>>
  /\ \A k \in 1..n : f[k] = f[k - 1] \o ss[k]

\* g satisfies the equation inside FlattenSeq.
Unfolds(g, ss, n) ==
  \A i \in 1..n : g[i] = IF i = 1 THEN ss[i] ELSE g[i - 1] \o ss[i]

(* Both describe the same values.                                           *)
LEMMA FlattenUnique ==
  ASSUME NEW T, NEW ss \in Seq(Seq(T)), NEW n \in Nat, n = Len(ss),
         NEW f, Unrolls(f, ss, n), NEW g, Unfolds(g, ss, n)
  PROVE  \A k \in 1..n : g[k] = f[k]
<1> USE DEF Unrolls, Unfolds
<1> DEFINE S == {k \in Nat : k \in 1..n => g[k] = f[k]}
<1>1. 0 \in S
  OBVIOUS
<1>2. ASSUME NEW k \in Nat \ {0}, k - 1 \in S PROVE k \in S
  <2> SUFFICES ASSUME k \in 1..n PROVE g[k] = f[k]
    OBVIOUS
  <2>1. f[k] = f[k - 1] \o ss[k]
    OBVIOUS
  <2>2. ss[k] \in Seq(T)
    OBVIOUS
  <2>3. CASE k = 1
    <3>1. g[k] = ss[k]
      BY <2>3
    <3>2. f[k - 1] = <<>>
      BY <2>3
    <3>3. <<>> \o ss[k] = ss[k]
      BY <2>2
    <3> QED BY <2>1, <3>1, <3>2, <3>3, Zenon
  <2>4. CASE k # 1
    <3>1. k - 1 \in 1..n
      BY <2>4
    <3>2. g[k] = g[k - 1] \o ss[k]
      BY <2>4
    <3>3. g[k - 1] = f[k - 1]
      BY <1>2, <3>1
    <3> QED BY <2>1, <3>2, <3>3, Zenon
  <2> QED BY <2>3, <2>4
<1>3. Nat \subseteq S
  <2> HIDE DEF S
  <2> QED BY <1>1, <1>2, SetInduction
<1> QED
  BY <1>3

(* FlattenSeq concatenates one sequence after another.                      *)
LEMMA FlattenIs ==
  ASSUME NEW T, NEW ss \in Seq(Seq(T)), NEW n \in Nat, n = Len(ss),
         NEW f, Unrolls(f, ss, n)
  PROVE  FlattenSeq(ss) = f[n]
<1>1. CASE n = 0
  <2>1. FlattenSeq(ss) = ss
    BY <1>1 DEF FlattenSeq
  <2>2. ss = <<>>
    BY <1>1, EmptySeq
  <2>3. f[n] = <<>>
    BY <1>1 DEF Unrolls
  <2> QED BY <2>1, <2>2, <2>3, Zenon
<1>2. CASE n # 0
  <2> DEFINE Def(h) == [i \in 1..n |-> IF i = 1 THEN ss[i] ELSE h[i - 1] \o ss[i]]
             restricted == [i \in 1..n |-> f[i]]
  <2>1. restricted = Def(restricted)
    <3>1. ASSUME NEW i \in 1..n
          PROVE  f[i] = IF i = 1 THEN ss[i] ELSE restricted[i - 1] \o ss[i]
      <4>1. ss[i] \in Seq(T) /\ <<>> \o ss[i] = ss[i]
        OBVIOUS
      <4>2. f[i] = f[i - 1] \o ss[i]
        BY DEF Unrolls
      <4>3. CASE i = 1
        <5>1. f[i - 1] = <<>>
          BY <4>3 DEF Unrolls
        <5> QED BY <4>1, <4>2, <4>3, <5>1
      <4>4. CASE i # 1
        <5>1. restricted[i - 1] = f[i - 1]
          BY <4>4
        <5> HIDE DEF restricted
        <5> QED BY <4>2, <4>4, <5>1
      <4> QED BY <4>3, <4>4
    <3> QED BY <3>1
  <2> DEFINE g == CHOOSE h : h = Def(h)
  <2>2. FlattenSeq(ss) = g[n]
    BY <1>2 DEF FlattenSeq
  <2>3. g = Def(g)
    <3> HIDE DEF restricted, Def
    <3> QED BY <2>1
  <2> HIDE DEF g
  <2>4. Unfolds(g, ss, n)
    BY <2>3 DEF Unfolds
  <2> HIDE DEF Def, restricted
  <2>5. \A k \in 1..n : g[k] = f[k]
    BY <2>4, FlattenUnique
  <2> QED BY <1>2, <2>2, <2>5
<1> QED
  BY <1>1, <1>2

(* The concatenation of the first k sequences is that of the first k - 1    *)
(* with the k-th appended.                                                  *)
LEMMA FlattenPrefixes ==
  ASSUME NEW T, NEW ss \in Seq(Seq(T))
  PROVE  /\ FlattenSeq(SubSeq(ss, 1, 0)) = <<>>
         /\ \A k \in 0..Len(ss) : FlattenSeq(SubSeq(ss, 1, k)) \in Seq(T)
         /\ \A k \in 1..Len(ss) :
              FlattenSeq(SubSeq(ss, 1, k)) = FlattenSeq(SubSeq(ss, 1, k - 1)) \o ss[k]
<1> DEFINE n == Len(ss)
           step == [k \in 1..n |-> [t \in Seq(T) |-> t \o ss[k]]]
<1>0. n \in Nat
  OBVIOUS
<1>1. step \in [1..n -> [Seq(T) -> Seq(T)]]
  OBVIOUS
<1>2. PICK f : Recursion(f, Seq(T), <<>>, n, step)
  <2>1. <<>> \in Seq(T)
    OBVIOUS
  <2> HIDE DEF step, n
  <2> QED BY <1>0, <1>1, <2>1, RecursiveFunction
<1>3. ASSUME NEW k \in 1..n PROVE f[k] = f[k - 1] \o ss[k]
  <2>1. f[k] = step[k][f[k - 1]]
    BY <1>2 DEF Recursion
  <2>2. f[k - 1] \in Seq(T)
    <3>1. k - 1 \in 0..n /\ f \in [0..n -> Seq(T)]
      BY <1>2 DEF Recursion
    <3> QED BY <3>1
  <2> QED BY <2>1, <2>2
<1>4. ASSUME NEW k \in 0..n PROVE FlattenSeq(SubSeq(ss, 1, k)) = f[k]
  <2> DEFINE first == SubSeq(ss, 1, k)
  <2>1. first \in Seq(Seq(T)) /\ Len(first) = k /\ \A i \in 1..k : first[i] = ss[i]
    OBVIOUS
  <2>2. Unrolls(f, first, k)
    <3>1. f[0] = <<>>
      BY <1>2 DEF Recursion
    <3>2. ASSUME NEW i \in 1..k PROVE f[i] = f[i - 1] \o first[i]
      <4>1. i \in 1..n /\ first[i] = ss[i]
        BY <2>1
      <4> HIDE DEF first
      <4> QED BY <1>3, <4>1
    <3> QED BY <3>1, <3>2 DEF Unrolls
  <2>3. k \in Nat
    OBVIOUS
  <2> HIDE DEF first
  <2>4. FlattenSeq(first) = f[k]
    BY <2>1, <2>2, <2>3, FlattenIs
  <2> QED BY <2>4 DEF first
<1>5. ASSUME NEW k \in 1..n PROVE k \in 0..n /\ k - 1 \in 0..n
  OBVIOUS
<1> HIDE DEF n
<1>6. \A k \in 1..n :
         FlattenSeq(SubSeq(ss, 1, k)) = FlattenSeq(SubSeq(ss, 1, k - 1)) \o ss[k]
  BY <1>3, <1>4, <1>5, Zenon
<1>7. 0 \in 0..n
  BY <1>0
<1>8. FlattenSeq(SubSeq(ss, 1, 0)) = <<>>
  BY <1>2, <1>4, <1>7, Zenon DEF Recursion
<1>9. \A k \in 0..n : FlattenSeq(SubSeq(ss, 1, k)) \in Seq(T)
  BY <1>2, <1>4 DEF Recursion
<1> QED
  BY <1>6, <1>8, <1>9 DEF n

\* The concatenation of the first k sequences.
Flat(ss, k) == FlattenSeq(SubSeq(ss, 1, k))

(* All of the sequences together are FlattenSeq.                            *)
LEMMA FlatWhole ==
  ASSUME NEW T, NEW ss \in Seq(Seq(T))
  PROVE  Flat(ss, Len(ss)) = FlattenSeq(ss)
<1>1. SubSeq(ss, 1, Len(ss)) = ss
  OBVIOUS
<1> QED
  BY <1>1 DEF Flat

(* The first k sequences, from the first k - 1.                             *)
LEMMA FlatStep ==
  ASSUME NEW T, NEW ss \in Seq(Seq(T))
  PROVE  /\ Flat(ss, 0) = <<>>
         /\ \A k \in 0..Len(ss) : Flat(ss, k) \in Seq(T)
         /\ \A k \in 1..Len(ss) : Flat(ss, k) = Flat(ss, k - 1) \o ss[k]
BY FlattenPrefixes DEF Flat

(* Flattening sequences of elements of T gives a sequence of them.          *)
LEMMA FlattenType ==
  ASSUME NEW T, NEW ss \in Seq(Seq(T))
  PROVE  FlattenSeq(ss) \in Seq(T)
<1>1. Len(ss) \in 0..Len(ss)
  OBVIOUS
<1>2. Flat(ss, Len(ss)) \in Seq(T)
  BY <1>1, FlatStep
<1> QED
  BY <1>2, FlatWhole

(* How much longer the k-th sequence makes the concatenation.               *)
LEMMA FlatStepLength ==
  ASSUME NEW T, NEW ss \in Seq(Seq(T)), NEW k \in 1..Len(ss)
  PROVE  /\ Len(Flat(ss, k - 1)) \in Nat /\ Len(ss[k]) \in Nat
         /\ Len(Flat(ss, k)) = Len(Flat(ss, k - 1)) + Len(ss[k])
<1>1. k - 1 \in 0..Len(ss)
  OBVIOUS
<1>2. Flat(ss, k) = Flat(ss, k - 1) \o ss[k] /\ Flat(ss, k - 1) \in Seq(T)
  BY <1>1, FlatStep
<1>3. ss[k] \in Seq(T)
  OBVIOUS
<1> QED
  BY <1>2, <1>3

\* t begins with s, element by element.
Begins(s, t) ==
  Len(s) <= Len(t) /\ \A j \in 1..Len(s) : t[j] = s[j]

(* A concatenation begins with its first part.                              *)
LEMMA ConcatBegins ==
  ASSUME NEW T, NEW a \in Seq(T), NEW b \in Seq(T)
  PROVE  a \o b \in Seq(T) /\ Begins(a, a \o b)
BY DEF Begins

(* What begins with b begins with what b begins with.                       *)
LEMMA BeginsTransitive ==
  ASSUME NEW T, NEW a \in Seq(T), NEW b \in Seq(T), NEW c \in Seq(T),
         Begins(a, b), Begins(b, c)
  PROVE  Begins(a, c)
BY DEF Begins

(* Begins is IsPrefix of the community modules.                             *)
LEMMA BeginsIsPrefix ==
  ASSUME NEW T, NEW s \in Seq(T), NEW t \in Seq(T), Begins(s, t)
  PROVE  IsPrefix(s, t)
<1>1. SubSeq(s, 1, Len(s)) = s
  OBVIOUS
<1>2. SubSeq(t, 1, Len(s)) \in Seq(T) /\ Len(SubSeq(t, 1, Len(s))) = Len(s)
  BY DEF Begins
<1>3. \A j \in 1..Len(s) : SubSeq(t, 1, Len(s))[j] = s[j]
  BY DEF Begins
<1>4. SubSeq(t, 1, Len(s)) = s
  BY <1>2, <1>3, SeqEqual
<1> QED
  BY <1>1, <1>4 DEF IsPrefix, Begins

(* Concatenating more sequences leaves what is there in place.              *)
LEMMA FlatGrows ==
  ASSUME NEW T, NEW ss \in Seq(Seq(T)), NEW m \in 0..Len(ss), NEW k \in m..Len(ss)
  PROVE  Begins(Flat(ss, m), Flat(ss, k))
<1> DEFINE S == {i \in Nat : i \in m..Len(ss) => Begins(Flat(ss, m), Flat(ss, i))}
<1>0. Begins(Flat(ss, m), Flat(ss, m))
  <2>1. Flat(ss, m) \in Seq(T)
    BY FlatStep
  <2> QED BY <2>1 DEF Begins
<1>1. 0 \in S
  BY <1>0
<1>2. ASSUME NEW i \in Nat \ {0}, i - 1 \in S PROVE i \in S
  <2> SUFFICES ASSUME i \in m..Len(ss), i # m
               PROVE  Begins(Flat(ss, m), Flat(ss, i))
    BY <1>0
  <2>1. i - 1 \in m..Len(ss) /\ i \in 1..Len(ss) /\ i - 1 \in 0..Len(ss) /\ i \in 0..Len(ss)
    OBVIOUS
  <2>2. Begins(Flat(ss, m), Flat(ss, i - 1))
    BY <1>2, <2>1
  <2>3. Flat(ss, m) \in Seq(T) /\ Flat(ss, i - 1) \in Seq(T) /\ Flat(ss, i) \in Seq(T)
    BY <2>1, FlatStep
  <2>4. ss[i] \in Seq(T)
    BY <2>1
  <2>5. Begins(Flat(ss, i - 1), Flat(ss, i))
    <3>1. Flat(ss, i) = Flat(ss, i - 1) \o ss[i]
      BY <2>1, FlatStep
    <3> DEFINE before == Flat(ss, i - 1)
               last == ss[i]
    <3>2. before \in Seq(T) /\ last \in Seq(T)
      BY <2>3, <2>4
    <3> HIDE DEF before, last, S
    <3>3. Begins(before, before \o last)
      BY <3>2, ConcatBegins
    <3> QED BY <3>1, <3>3 DEF before, last
  <2> HIDE DEF S
  <2> QED BY <2>2, <2>3, <2>5, BeginsTransitive
<1>3. k \in S
  <2> HIDE DEF S
  <2> QED BY <1>1, <1>2, SetInduction
<1> QED
  BY <1>3

(* Where the j-th element of the k-th sequence ends up.                     *)
LEMMA FlatAt ==
  ASSUME NEW T, NEW ss \in Seq(Seq(T)), NEW k \in 1..Len(ss), NEW j \in 1..Len(ss[k])
  PROVE  /\ Len(Flat(ss, k - 1)) \in Nat
         /\ Len(Flat(ss, k - 1)) + j \in 1..Len(FlattenSeq(ss))
         /\ FlattenSeq(ss)[Len(Flat(ss, k - 1)) + j] = ss[k][j]
<1> DEFINE before == Flat(ss, k - 1)
           both == before \o ss[k]
<1>1. before \in Seq(T)
  <2>1. k - 1 \in 0..Len(ss)
    OBVIOUS
  <2> QED BY <2>1, FlatStep
<1>2. ss[k] \in Seq(T)
  OBVIOUS
<1>3. Flat(ss, k) = both
  BY FlatStep
<1>4. Begins(both, FlattenSeq(ss))
  <2>1. k \in 0..Len(ss) /\ Len(ss) \in k..Len(ss)
    OBVIOUS
  <2> QED BY <1>3, <2>1, FlatGrows, FlatWhole
<1> HIDE DEF before
<1>5. /\ both \in Seq(T) /\ Len(both) = Len(before) + Len(ss[k])
      /\ both[Len(before) + j] = ss[k][j]
  BY <1>1, <1>2
<1>6. Len(before) \in Nat /\ Len(before) + j \in 1..Len(both)
  BY <1>1, <1>2, <1>5
<1>7. FlattenSeq(ss) \in Seq(T)
  <2>1. Len(ss) \in 0..Len(ss)
    OBVIOUS
  <2> QED BY <2>1, FlatStep, FlatWhole
<1> HIDE DEF both
<1>8. /\ Len(before) + j \in 1..Len(FlattenSeq(ss))
      /\ FlattenSeq(ss)[Len(before) + j] = ss[k][j]
  BY <1>4, <1>5, <1>6, <1>7 DEF Begins
<1> QED
  BY <1>6, <1>8 DEF before

(* Every element of a part is an element of the flattened sequence.         *)
LEMMA FlatHas ==
  ASSUME NEW T, NEW ss \in Seq(Seq(T)), NEW k \in 1..Len(ss), NEW j \in 1..Len(ss[k])
  PROVE  \E n \in 1..Len(FlattenSeq(ss)) : FlattenSeq(ss)[n] = ss[k][j]
BY FlatAt

(* Empty sequences add nothing.                                             *)
LEMMA FlatSkips ==
  ASSUME NEW T, NEW ss \in Seq(Seq(T)), NEW m \in 0..Len(ss), NEW k \in m..Len(ss),
         \A i \in (m + 1)..k : ss[i] = <<>>
  PROVE  Flat(ss, k) = Flat(ss, m)
<1> DEFINE S == {i \in Nat : i \in m..k => Flat(ss, i) = Flat(ss, m)}
<1>1. 0 \in S
  OBVIOUS
<1>2. ASSUME NEW i \in Nat \ {0}, i - 1 \in S PROVE i \in S
  <2> SUFFICES ASSUME i \in m..k, i # m PROVE Flat(ss, i) = Flat(ss, m)
    OBVIOUS
  <2>1. i - 1 \in m..k /\ i \in 1..Len(ss) /\ i \in (m + 1)..k /\ i - 1 \in 0..Len(ss)
    OBVIOUS
  <2>2. Flat(ss, i) = Flat(ss, i - 1) \o <<>>
    BY <2>1, FlatStep
  <2>3. Flat(ss, i - 1) \o <<>> = Flat(ss, i - 1)
    <3>1. Flat(ss, i - 1) \in Seq(T)
      BY <2>1, FlatStep
    <3> QED BY <3>1
  <2> QED BY <1>2, <2>1, <2>2, <2>3
<1>3. k \in S
  <2> HIDE DEF S
  <2> QED BY <1>1, <1>2, SetInduction
<1> QED
  BY <1>3

(* The length of a concatenation depends on the lengths of its parts only.  *)
LEMMA FlatLength ==
  ASSUME NEW T, NEW ss \in Seq(Seq(T)), NEW U, NEW tt \in Seq(Seq(U)),
         NEW k \in 0..Len(ss), k \in 0..Len(tt),
         \A i \in 1..k : Len(ss[i]) = Len(tt[i])
  PROVE  Len(Flat(ss, k)) \in Nat /\ Len(Flat(ss, k)) = Len(Flat(tt, k))
<1> DEFINE S == {i \in Nat : i <= k => Len(Flat(ss, i)) = Len(Flat(tt, i))}
<1>1. 0 \in S
  BY FlatStep
<1>2. ASSUME NEW i \in Nat \ {0}, i - 1 \in S PROVE i \in S
  <2> SUFFICES ASSUME i <= k PROVE Len(Flat(ss, i)) = Len(Flat(tt, i))
    OBVIOUS
  <2>1. /\ i \in 1..Len(ss) /\ i \in 1..Len(tt)
        /\ i - 1 \in 0..Len(ss) /\ i - 1 \in 0..Len(tt)
    OBVIOUS
  <2>2. Len(Flat(ss, i)) = Len(Flat(ss, i - 1)) + Len(ss[i])
    BY <2>1, FlatStepLength
  <2>3. Len(Flat(tt, i)) = Len(Flat(tt, i - 1)) + Len(tt[i])
    BY <2>1, FlatStepLength
  <2>4. Len(Flat(ss, i - 1)) = Len(Flat(tt, i - 1)) /\ Len(ss[i]) = Len(tt[i])
    BY <1>2, <2>1
  <2> HIDE DEF S
  <2> QED BY <2>2, <2>3, <2>4
<1>3. k \in S
  <2> HIDE DEF S
  <2> QED BY <1>1, <1>2, SetInduction
<1>4. Flat(ss, k) \in Seq(T)
  BY FlatStep
<1> QED
  BY <1>3, <1>4

(* A sequence is one of its own elements.                                   *)
LEMMA SeqOfElements ==
  ASSUME NEW T, NEW s \in Seq(T)
  PROVE  s \in Seq(ToSet(s))
BY DEF ToSet

(* Where the elements of a concatenation come from.                         *)
LEMMA ConcatElements ==
  ASSUME NEW S, NEW T, NEW a \in Seq(S), NEW b \in Seq(T)
  PROVE  /\ a \o b \in Seq(S \cup T)
         /\ Len(a \o b) = Len(a) + Len(b)
         /\ \A i \in 1..Len(a) : (a \o b)[i] = a[i]
         /\ \A i \in 1..Len(b) : (a \o b)[Len(a) + i] = b[i]
<1>1. a \in Seq(S \cup T) /\ b \in Seq(S \cup T)
  OBVIOUS
<1> QED
  BY <1>1

(* The elements of a concatenation are those of its parts.                  *)
LEMMA FlatElements ==
  ASSUME NEW T, NEW ss \in Seq(Seq(T)), NEW x, x \in ToSet(FlattenSeq(ss))
  PROVE  \E k \in 1..Len(ss) : x \in ToSet(ss[k])
<1> DEFINE S == {i \in Nat : i <= Len(ss) /\ x \in ToSet(Flat(ss, i))
                               => \E k \in 1..Len(ss) : x \in ToSet(ss[k])}
<1>1. 0 \in S
  <2>1. Flat(ss, 0) = <<>>
    BY FlatStep
  <2> QED BY <2>1 DEF ToSet
<1>2. ASSUME NEW i \in Nat \ {0}, i - 1 \in S PROVE i \in S
  <2> SUFFICES ASSUME i <= Len(ss), x \in ToSet(Flat(ss, i))
               PROVE  \E k \in 1..Len(ss) : x \in ToSet(ss[k])
    OBVIOUS
  <2>1. i \in 1..Len(ss) /\ i - 1 \in 0..Len(ss) /\ i - 1 <= Len(ss)
    OBVIOUS
  <2> DEFINE before == Flat(ss, i - 1)
             last == ss[i]
  <2>2. Flat(ss, i) = before \o last /\ before \in Seq(T) /\ last \in Seq(T)
    <3>1. ss[i] \in Seq(T)
      BY <2>1
    <3> QED BY <2>1, <3>1, FlatStep
  <2>3. x \in ToSet(before) \/ x \in ToSet(last)
    <3> HIDE DEF before, last, S
    <3>1. PICK j \in 1..Len(before \o last) : x = (before \o last)[j]
      BY <2>2 DEF ToSet
    <3>2. CASE j <= Len(before)
      BY <2>2, <3>1, <3>2 DEF ToSet
    <3>3. CASE j > Len(before)
      <4>1. j - Len(before) \in 1..Len(last) /\ x = last[j - Len(before)]
        BY <2>2, <3>1, <3>3
      <4> QED BY <4>1, <2>2 DEF ToSet
    <3> QED BY <3>1, <3>2, <3>3, <2>2
  <2> QED BY <1>2, <2>1, <2>3
<1>3. Len(ss) \in S
  <2>1. Len(ss) \in Nat
    OBVIOUS
  <2> HIDE DEF S
  <2> QED BY <2>1, <1>1, <1>2, SetInduction
<1>4. Len(ss) <= Len(ss) /\ Flat(ss, Len(ss)) = FlattenSeq(ss)
  BY FlatWhole
<1> QED
  BY <1>3, <1>4

(* Flattening a concatenation.                                              *)
LEMMA FlatConcat ==
  ASSUME NEW T, NEW a \in Seq(Seq(T)), NEW b \in Seq(Seq(T))
  PROVE  FlattenSeq(a \o b) = FlattenSeq(a) \o FlattenSeq(b)
<1> DEFINE c == a \o b
           m == Len(a)
           S == {k \in Nat : k <= Len(b) => Flat(c, m + k) = Flat(a, m) \o Flat(b, k)}
<1>1. /\ c \in Seq(Seq(T)) /\ m \in Nat /\ Len(b) \in Nat /\ Len(c) = m + Len(b)
      /\ \A i \in 1..m : c[i] = a[i]
      /\ \A i \in 1..Len(b) : c[m + i] = b[i]
  OBVIOUS
<1>2. m \in 0..Len(a) /\ \A k \in 0..m : Flat(a, k) \in Seq(T)
  <2>1. m \in 0..Len(a)
    OBVIOUS
  <2>2. \A k \in 0..Len(a) : Flat(a, k) \in Seq(T)
    BY FlatStep
  <2> QED BY <2>1, <2>2
<1> HIDE DEF c
<1>3. Flat(c, m) = Flat(a, m)
  <2> DEFINE G == {k \in Nat : k <= m => Flat(c, k) = Flat(a, k)}
  <2>1. 0 \in G
    <3>1. Flat(c, 0) = <<>> /\ Flat(a, 0) = <<>>
      BY <1>1, FlatStep
    <3> QED BY <3>1
  <2>2. ASSUME NEW k \in Nat \ {0}, k - 1 \in G PROVE k \in G
    <3> SUFFICES ASSUME k <= m PROVE Flat(c, k) = Flat(a, k)
      OBVIOUS
    <3>1. k \in 1..Len(c) /\ k \in 1..Len(a) /\ k - 1 <= m
      BY <1>1
    <3>2. Flat(c, k) = Flat(c, k - 1) \o c[k] /\ Flat(a, k) = Flat(a, k - 1) \o a[k]
      BY <1>1, <3>1, FlatStep
    <3> QED BY <1>1, <2>2, <3>1, <3>2
  <2>3. m \in G
    <3> HIDE DEF G, m
    <3> QED BY <1>1, <2>1, <2>2, SetInduction
  <2> QED BY <2>3
<1> HIDE DEF m
<1>4. 0 \in S
  <2>1. Flat(b, 0) = <<>> /\ Flat(a, m) \in Seq(T)
    BY <1>1, <1>2, FlatStep
  <2>2. Flat(a, m) \o <<>> = Flat(a, m)
    BY <2>1
  <2>3. m + 0 = m
    BY <1>1
  <2> QED BY <1>3, <2>1, <2>2, <2>3
<1>5. ASSUME NEW k \in Nat \ {0}, k - 1 \in S PROVE k \in S
  <2> SUFFICES ASSUME k <= Len(b) PROVE Flat(c, m + k) = Flat(a, m) \o Flat(b, k)
    OBVIOUS
  <2>1. k \in 1..Len(b) /\ m + k \in 1..Len(c) /\ (m + k) - 1 = m + (k - 1) /\ k - 1 \in 0..Len(b)
    BY <1>1
  <2>2. Flat(b, k) = Flat(b, k - 1) \o b[k] /\ Flat(b, k - 1) \in Seq(T) /\ b[k] \in Seq(T)
    <3>1. b[k] \in Seq(T)
      BY <2>1
    <3>2. Flat(b, k) = Flat(b, k - 1) \o b[k]
      BY <2>1, FlatStep
    <3>3. Flat(b, k - 1) \in Seq(T)
      BY <2>1, FlatStep
    <3> QED BY <3>1, <3>2, <3>3
  <2>3. Flat(c, m + k) = Flat(c, m + (k - 1)) \o b[k]
    <3>1. Flat(c, m + k) = Flat(c, (m + k) - 1) \o c[m + k]
      BY <1>1, <2>1, FlatStep
    <3> QED BY <1>1, <2>1, <3>1
  <2>4. Flat(c, m + (k - 1)) = Flat(a, m) \o Flat(b, k - 1)
    BY <1>5, <2>1
  <2> DEFINE x == Flat(a, m)
             y == Flat(b, k - 1)
             z == b[k]
  <2>5. x \in Seq(T) /\ y \in Seq(T) /\ z \in Seq(T)
    BY <1>1, <1>2, <2>2
  <2> HIDE DEF x, y, z, S
  <2>6. (x \o y) \o z = x \o (y \o z)
    BY <2>5
  <2> QED BY <2>2, <2>3, <2>4, <2>6 DEF x, y, z
<1>6. Len(b) \in S
  <2> HIDE DEF S
  <2> QED BY <1>1, <1>4, <1>5, SetInduction
<1>7. Flat(c, m + Len(b)) = FlattenSeq(c) /\ Flat(a, m) = FlattenSeq(a) /\ Flat(b, Len(b)) = FlattenSeq(b)
  BY <1>1, FlatWhole DEF m
<1> QED
  BY <1>1, <1>6, <1>7 DEF c

(* Flattening sequences of one element.                                     *)
LEMMA FlatSingles ==
  ASSUME NEW T, NEW s \in Seq(T), NEW ss \in Seq(Seq(T)), Len(ss) = Len(s),
         \A i \in 1..Len(s) : ss[i] = << s[i] >>
  PROVE  FlattenSeq(ss) = s
<1> DEFINE S == {k \in Nat : k <= Len(s) => Flat(ss, k) = SubSeq(s, 1, k)}
<1>0. Len(s) \in Nat
  OBVIOUS
<1>1. 0 \in S
  <2>1. Flat(ss, 0) = <<>>
    BY FlatStep
  <2>2. SubSeq(s, 1, 0) = <<>>
    OBVIOUS
  <2> QED BY <2>1, <2>2
<1>2. ASSUME NEW k \in Nat \ {0}, k - 1 \in S PROVE k \in S
  <2> SUFFICES ASSUME k <= Len(s) PROVE Flat(ss, k) = SubSeq(s, 1, k)
    OBVIOUS
  <2>1. k \in 1..Len(ss) /\ k \in 1..Len(s) /\ k - 1 <= Len(s)
    BY <1>0
  <2>2. Flat(ss, k) = Flat(ss, k - 1) \o << s[k] >>
    BY <2>1, FlatStep
  <2>3. SubSeq(s, 1, k - 1) \o << s[k] >> = SubSeq(s, 1, k)
    BY <2>1
  <2> QED BY <1>2, <2>1, <2>2, <2>3
<1>3. Len(s) \in S
  <2> HIDE DEF S
  <2> QED BY <1>0, <1>1, <1>2, SetInduction
<1>4. Flat(ss, Len(s)) = SubSeq(s, 1, Len(s))
  BY <1>0, <1>3
<1>5. SubSeq(s, 1, Len(s)) = s
  OBVIOUS
<1>6. Flat(ss, Len(ss)) = FlattenSeq(ss)
  BY FlatWhole
<1> QED
  BY <1>4, <1>5, <1>6

(* Where an element of a flattened sequence comes from.                     *)
LEMMA FlatIndex ==
  ASSUME NEW T, NEW ss \in Seq(Seq(T)), NEW i \in 1..Len(FlattenSeq(ss))
  PROVE  \E k \in 1..Len(ss) : \E j \in 1..Len(ss[k]) :
           Len(Flat(ss, k - 1)) \in Nat /\ i = Len(Flat(ss, k - 1)) + j
<1> DEFINE Found == \E k \in 1..Len(ss) : \E j \in 1..Len(ss[k]) :
                      Len(Flat(ss, k - 1)) \in Nat /\ i = Len(Flat(ss, k - 1)) + j
           S == {m \in Nat : m <= Len(ss) /\ i <= Len(Flat(ss, m)) => Found}
<1>0. Len(ss) \in Nat /\ i \in Nat \ {0}
  <2>1. FlattenSeq(ss) \in Seq(T)
    BY FlattenType
  <2> QED BY <2>1
<1>1. 0 \in S
  <2>1. Len(Flat(ss, 0)) = 0
    <3>1. Flat(ss, 0) = <<>>
      BY FlatStep
    <3> QED BY <3>1
  <2> HIDE DEF Found
  <2> QED BY <1>0, <2>1
<1>2. ASSUME NEW m \in Nat \ {0}, m - 1 \in S PROVE m \in S
  <2> SUFFICES ASSUME m <= Len(ss), i <= Len(Flat(ss, m)) PROVE Found
    OBVIOUS
  <2>1. m \in 1..Len(ss) /\ m - 1 <= Len(ss)
    BY <1>0
  <2>2. /\ Len(Flat(ss, m - 1)) \in Nat /\ Len(ss[m]) \in Nat
        /\ Len(Flat(ss, m)) = Len(Flat(ss, m - 1)) + Len(ss[m])
    BY <2>1, FlatStepLength
  <2>3. CASE i <= Len(Flat(ss, m - 1))
    BY <1>2, <2>1, <2>3
  <2>4. CASE i > Len(Flat(ss, m - 1))
    <3>1. i - Len(Flat(ss, m - 1)) \in 1..Len(ss[m])
      <4> DEFINE l == Len(Flat(ss, m - 1))
                 w == Len(ss[m])
                 e == Len(Flat(ss, m))
      <4>1. l \in Nat /\ w \in Nat /\ e = l + w /\ i <= e /\ i > l
        BY <2>2, <2>4
      <4>2. i \in Nat
        BY <1>0
      <4> HIDE DEF l, w, e
      <4>3. i - l \in 1..w
        BY <4>1, <4>2
      <4> QED BY <4>3 DEF l, w
    <3>2. i = Len(Flat(ss, m - 1)) + (i - Len(Flat(ss, m - 1)))
      BY <1>0, <2>2
    <3> QED BY <2>1, <2>2, <3>1, <3>2
  <2> QED BY <1>0, <2>2, <2>3, <2>4
<1>3. Len(ss) \in S
  <2> HIDE DEF S
  <2> QED BY <1>0, <1>1, <1>2, SetInduction
<1>4. i <= Len(Flat(ss, Len(ss)))
  BY FlatWhole
<1> QED
  BY <1>0, <1>3, <1>4

-----------------------------------------------------------------------------
(* Sequences that are related element by element                            *)

Paired(a, b, R) == Len(a) = Len(b) /\ \A i \in 1..Len(a) : << a[i], b[i] >> \in R

(* Concatenations are.                                                      *)
LEMMA PairedConcat ==
  ASSUME NEW S, NEW T, NEW a \in Seq(S), NEW b \in Seq(T), NEW c \in Seq(S), NEW d \in Seq(T),
         NEW R, Paired(a, b, R), Paired(c, d, R)
  PROVE  Paired(a \o c, b \o d, R)
<1> DEFINE x == a \o c
           y == b \o d
<1>1. /\ Len(x) = Len(a) + Len(c)
      /\ \A i \in 1..Len(a) : x[i] = a[i]
      /\ \A i \in 1..Len(c) : x[Len(a) + i] = c[i]
  OBVIOUS
<1>2. /\ Len(y) = Len(b) + Len(d)
      /\ \A i \in 1..Len(b) : y[i] = b[i]
      /\ \A i \in 1..Len(d) : y[Len(b) + i] = d[i]
  OBVIOUS
<1>3. Len(a) \in Nat /\ Len(c) \in Nat /\ Len(a) = Len(b) /\ Len(c) = Len(d)
  BY DEF Paired
<1> HIDE DEF x, y
<1>4. ASSUME NEW i \in 1..Len(x) PROVE << x[i], y[i] >> \in R
  <2>1. CASE i <= Len(a)
    <3>1. i \in 1..Len(a) /\ i \in 1..Len(b)
      BY <1>1, <1>3, <2>1
    <3>2. x[i] = a[i] /\ y[i] = b[i]
      BY <1>1, <1>2, <3>1
    <3> QED BY <3>1, <3>2 DEF Paired
  <2>2. CASE i > Len(a)
    <3> DEFINE j == i - Len(a)
    <3>1. j \in 1..Len(c) /\ j \in 1..Len(d) /\ i = Len(a) + j /\ i = Len(b) + j
      BY <1>1, <1>3, <2>2
    <3> HIDE DEF j
    <3>2. x[i] = c[j] /\ y[i] = d[j]
      BY <1>1, <1>2, <3>1
    <3> QED BY <3>1, <3>2 DEF Paired
  <2> QED BY <1>1, <1>3, <2>1, <2>2
<1> QED
  BY <1>1, <1>2, <1>3, <1>4 DEF Paired, x, y

(* So are flattened sequences.                                              *)
LEMMA PairedFlat ==
  ASSUME NEW S, NEW T, NEW ss \in Seq(Seq(S)), NEW tt \in Seq(Seq(T)), Len(ss) = Len(tt),
         NEW R, \A k \in 1..Len(ss) : Paired(ss[k], tt[k], R)
  PROVE  Paired(FlattenSeq(ss), FlattenSeq(tt), R)
<1> DEFINE G == {k \in Nat : k <= Len(ss) => Paired(Flat(ss, k), Flat(tt, k), R)}
<1>0. Len(ss) \in Nat
  OBVIOUS
<1>1. 0 \in G
  <2>1. Flat(ss, 0) = <<>> /\ Flat(tt, 0) = <<>>
    BY FlatStep
  <2>2. Paired(<<>>, <<>>, R)
    BY DEF Paired
  <2> QED BY <2>1, <2>2
<1>2. ASSUME NEW k \in Nat \ {0}, k - 1 \in G PROVE k \in G
  <2> SUFFICES ASSUME k <= Len(ss) PROVE Paired(Flat(ss, k), Flat(tt, k), R)
    OBVIOUS
  <2>1. /\ k \in 1..Len(ss) /\ k \in 1..Len(tt) /\ k - 1 <= Len(ss)
        /\ k - 1 \in 0..Len(ss) /\ k - 1 \in 0..Len(tt)
    BY <1>0
  <2>2. Flat(ss, k) = Flat(ss, k - 1) \o ss[k] /\ Flat(tt, k) = Flat(tt, k - 1) \o tt[k]
    BY <2>1, FlatStep
  <2>3. Flat(ss, k - 1) \in Seq(S) /\ Flat(tt, k - 1) \in Seq(T)
    BY <2>1, FlatStep
  <2>4. ss[k] \in Seq(S) /\ tt[k] \in Seq(T)
    BY <2>1
  <2>5. Paired(Flat(ss, k - 1), Flat(tt, k - 1), R) /\ Paired(ss[k], tt[k], R)
    BY <1>2, <2>1
  <2> HIDE DEF G
  <2>6. Paired(Flat(ss, k - 1) \o ss[k], Flat(tt, k - 1) \o tt[k], R)
    BY <2>3, <2>4, <2>5, PairedConcat
  <2> QED BY <2>2, <2>6
<1>3. Len(ss) \in G
  <2> HIDE DEF G
  <2> QED BY <1>0, <1>1, <1>2, SetInduction
<1>4. Flat(ss, Len(ss)) = FlattenSeq(ss) /\ Flat(tt, Len(ss)) = FlattenSeq(tt)
  BY FlatWhole
<1> QED
  BY <1>0, <1>3, <1>4

-----------------------------------------------------------------------------
(* Sums                                                                     *)

\* The sum of the elements.
Summed(counts) == FoldLeft(LAMBDA total, count : total + count, 0, counts)

(* The sum is the last of the running totals.                               *)
LEMMA SummedIs ==
  ASSUME NEW counts \in Seq(Nat), NEW n \in Nat, n = Len(counts),
         NEW g, g[0] = 0, \A k \in 1..n : g[k] = g[k - 1] + counts[k]
  PROVE  Summed(counts) = g[n]
<1> DEFINE step == [x \in 1..n |-> [t \in Nat |-> t + counts[x]]]
           body(h) == [s \in SUBSET (1..n) |->
                         IF s = {} THEN 0 ELSE h[s \ {Max(s)}] + counts[Max(s)]]
           iter == CHOOSE h : h = body(h)
<1>1. DOMAIN counts = 1..n /\ \A k \in 1..n : counts[k] \in Nat
  OBVIOUS
<1>2. Summed(counts) = iter[1..n]
  BY <1>1 DEF Summed, FoldLeft, MapThenFoldSet
<1>3. \E h : h = body(h)
  <2>1. step \in [1..n -> [Nat -> Nat]]
    BY <1>1
  <2> HIDE DEF step
  <2>2. PICK h \in [SUBSET (1..n) -> Nat] : Iterates(h, 0, n, step)
    BY <2>1, IterationExists
  <2>3. ASSUME NEW s \in SUBSET (1..n), s # {}
        PROVE  step[Max(s)][h[s \ {Max(s)}]] = h[s \ {Max(s)}] + counts[Max(s)]
    <3>1. Max(s) \in 1..n
      <4>1. s \subseteq 0..n
        OBVIOUS
      <4>2. Max(s) \in s
        BY <2>3, <4>1, MaxIs
      <4> QED BY <4>2
    <3>2. h[s \ {Max(s)}] \in Nat
      BY <2>2
    <3> QED BY <3>1, <3>2 DEF step
  <2>4. \A s \in SUBSET (1..n) : h[s] = body(h)[s]
    BY <2>2, <2>3 DEF Iterates
  <2>5. h = body(h)
    BY <2>2, <2>4
  <2> HIDE DEF body
  <2> QED BY <2>5
<1>4. iter = body(iter)
  BY <1>3
<1> DEFINE S == {k \in Nat : k <= n => iter[1..k] = g[k]}
<1>5. 0 \in S
  <2>1. 1..0 = {} /\ {} \in SUBSET (1..n)
    OBVIOUS
  <2>2. body(iter)[{}] = 0
    BY <2>1
  <2> HIDE DEF iter, body
  <2> QED BY <1>4, <2>1, <2>2
<1>6. ASSUME NEW k \in Nat \ {0}, k - 1 \in S PROVE k \in S
  <2> SUFFICES ASSUME k <= n PROVE iter[1..k] = g[k]
    OBVIOUS
  <2>1. k \in 1..n
    OBVIOUS
  <2>2. iter[1..(k - 1)] = g[k - 1]
    BY <1>6
  <2>3. body(iter)[1..k] = iter[1..(k - 1)] + counts[k]
    <3> HIDE DEF iter
    <3>1. 1..k \in SUBSET (1..n) /\ 1..k # {} /\ Max(1..k) = k
          /\ (1..k) \ {Max(1..k)} = 1..(k - 1)
      BY <2>1, LastOfInterval
    <3> QED BY <3>1
  <2> HIDE DEF iter, body, S
  <2> QED BY <1>4, <2>1, <2>2, <2>3
<1>7. n \in S
  <2> HIDE DEF S
  <2> QED BY <1>5, <1>6, SetInduction
<1> QED
  BY <1>2, <1>7

(* The sum of the first k elements, from that of the first k - 1.           *)
LEMMA SummedStep ==
  ASSUME NEW s \in Seq(Nat)
  PROVE  /\ Summed(SubSeq(s, 1, 0)) = 0
         /\ \A k \in 0..Len(s) : Summed(SubSeq(s, 1, k)) \in Nat
         /\ \A k \in 1..Len(s) :
              Summed(SubSeq(s, 1, k)) = Summed(SubSeq(s, 1, k - 1)) + s[k]
         /\ SubSeq(s, 1, Len(s)) = s
<1> DEFINE n == Len(s)
           step == [k \in 1..n |-> [t \in Nat |-> t + s[k]]]
<1>0. n \in Nat
  OBVIOUS
<1>1. step \in [1..n -> [Nat -> Nat]]
  OBVIOUS
<1>2. PICK g : Recursion(g, Nat, 0, n, step)
  <2> HIDE DEF step, n
  <2> QED BY <1>0, <1>1, RecursiveFunction
<1>3. /\ g[0] = 0
      /\ \A k \in 0..n : g[k] \in Nat
  BY <1>2 DEF Recursion
<1>4. ASSUME NEW k \in 1..n PROVE g[k] = g[k - 1] + s[k]
  <2>1. g[k] = step[k][g[k - 1]]
    BY <1>2 DEF Recursion
  <2>2. g[k - 1] \in Nat
    BY <1>3
  <2> QED BY <2>1, <2>2
<1>5. ASSUME NEW k \in 0..n PROVE Summed(SubSeq(s, 1, k)) = g[k]
  <2> DEFINE first == SubSeq(s, 1, k)
  <2>1. first \in Seq(Nat) /\ Len(first) = k /\ \A i \in 1..k : first[i] = s[i]
    OBVIOUS
  <2>2. \A i \in 1..k : g[i] = g[i - 1] + first[i]
    <3>1. 1..k \subseteq 1..n
      BY <1>0
    <3> HIDE DEF first, n
    <3> QED BY <1>4, <2>1, <3>1
  <2>3. k \in Nat
    BY <1>0
  <2> HIDE DEF first
  <2>4. k = Len(first)
    BY <2>1, Zenon
  <2>5. Summed(first) = g[k]
    BY <1>3, <2>1, <2>2, <2>3, <2>4, SummedIs
  <2> QED BY <2>5 DEF first
<1>6. ASSUME NEW k \in 1..n PROVE k \in 0..n /\ k - 1 \in 0..n
  OBVIOUS
<1> HIDE DEF n
<1>7. \A k \in 1..n : Summed(SubSeq(s, 1, k)) = Summed(SubSeq(s, 1, k - 1)) + s[k]
  BY <1>4, <1>5, <1>6, Zenon
<1>8. 0 \in 0..n
  BY <1>0
<1>9. Summed(SubSeq(s, 1, 0)) = 0
  BY <1>3, <1>5, <1>8, Zenon
<1>10. \A k \in 0..n : Summed(SubSeq(s, 1, k)) \in Nat
  BY <1>3, <1>5
<1>11. SubSeq(s, 1, Len(s)) = s
  OBVIOUS
<1> QED
  BY <1>7, <1>9, <1>10, <1>11 DEF n

(* The sum of fewer elements is no larger.                                  *)
LEMMA SummedGrows ==
  ASSUME NEW s \in Seq(Nat), NEW m \in 0..Len(s), NEW k \in m..Len(s)
  PROVE  Summed(SubSeq(s, 1, m)) <= Summed(SubSeq(s, 1, k))
<1> DEFINE upTo(i) == Summed(SubSeq(s, 1, i))
           S == {i \in Nat : i \in m..Len(s) => upTo(m) <= upTo(i)}
<1>1. \A i \in 0..Len(s) : upTo(i) \in Nat
  BY SummedStep
<1>2. \A i \in 1..Len(s) : upTo(i) = upTo(i - 1) + s[i]
  BY SummedStep
<1>3. Len(s) \in Nat /\ \A i \in 1..Len(s) : s[i] \in Nat
  OBVIOUS
<1> HIDE DEF upTo
<1>4. 0 \in S
  BY <1>1, <1>3
<1>5. ASSUME NEW i \in Nat \ {0}, i - 1 \in S PROVE i \in S
  <2> SUFFICES ASSUME i \in m..Len(s), i # m PROVE upTo(m) <= upTo(i)
    BY <1>1
  <2>1. i - 1 \in m..Len(s) /\ i - 1 \in 0..Len(s) /\ i \in 1..Len(s)
    BY <1>3
  <2>2. upTo(m) <= upTo(i - 1)
    BY <1>5, <2>1
  <2>3. upTo(i) = upTo(i - 1) + s[i]
    BY <1>2, <2>1
  <2>4. upTo(m) \in Nat /\ upTo(i - 1) \in Nat /\ s[i] \in Nat
    BY <1>1, <1>3, <2>1
  <2> HIDE DEF S
  <2> QED BY <2>2, <2>3, <2>4
<1>6. k \in S
  <2> HIDE DEF S
  <2> QED BY <1>3, <1>4, <1>5, SetInduction
<1> QED
  BY <1>6 DEF upTo

(* A concatenation is as long as its parts together.                        *)
LEMMA FlatLengths ==
  ASSUME NEW T, NEW ss \in Seq(Seq(T)), NEW lengths \in Seq(Nat),
         Len(lengths) = Len(ss), \A i \in 1..Len(ss) : lengths[i] = Len(ss[i])
  PROVE  \A k \in 0..Len(ss) : Len(Flat(ss, k)) = Summed(SubSeq(lengths, 1, k))
<1> DEFINE S == {k \in Nat : k <= Len(ss) => Len(Flat(ss, k)) = Summed(SubSeq(lengths, 1, k))}
<1>1. 0 \in S
  <2>1. Len(Flat(ss, 0)) = 0
    <3>1. Flat(ss, 0) = <<>>
      BY FlatStep
    <3> QED BY <3>1
  <2>2. Summed(SubSeq(lengths, 1, 0)) = 0
    BY SummedStep
  <2>3. Len(Flat(ss, 0)) = Summed(SubSeq(lengths, 1, 0))
    BY <2>1, <2>2, Zenon
  <2> QED BY <2>3
<1>2. ASSUME NEW k \in Nat \ {0}, k - 1 \in S PROVE k \in S
  <2> SUFFICES ASSUME k <= Len(ss) PROVE Len(Flat(ss, k)) = Summed(SubSeq(lengths, 1, k))
    OBVIOUS
  <2>1. k \in 1..Len(ss) /\ k \in 1..Len(lengths)
    OBVIOUS
  <2>2. Len(Flat(ss, k)) = Len(Flat(ss, k - 1)) + Len(ss[k])
    BY <2>1, FlatStepLength
  <2>3. Summed(SubSeq(lengths, 1, k)) = Summed(SubSeq(lengths, 1, k - 1)) + lengths[k]
    BY <2>1, SummedStep
  <2>4. Len(Flat(ss, k - 1)) = Summed(SubSeq(lengths, 1, k - 1)) /\ lengths[k] = Len(ss[k])
    BY <1>2, <2>1
  <2> HIDE DEF S
  <2> QED BY <2>2, <2>3, <2>4
<1>3. ASSUME NEW k \in 0..Len(ss) PROVE k \in S
  <2>1. k \in Nat
    OBVIOUS
  <2> HIDE DEF S
  <2> QED BY <2>1, <1>1, <1>2, SetInduction
<1> QED
  BY <1>3

-----------------------------------------------------------------------------
(* Counting                                                                 *)

\* How often x is among the first k elements.
Occurrences(s, k, x) == Cardinality({i \in 1..k : s[i] = x})

(* From one element to the next.                                            *)
LEMMA OccurrencesStep ==
  ASSUME NEW s, NEW x
  PROVE  /\ Occurrences(s, 0, x) = 0
         /\ \A k \in Nat : Occurrences(s, k, x) \in Nat /\ IsFiniteSet({i \in 1..k : s[i] = x})
         /\ \A k \in Nat \ {0} :
              Occurrences(s, k, x)
                = IF s[k] = x THEN Occurrences(s, k - 1, x) + 1 ELSE Occurrences(s, k - 1, x)
<1> DEFINE at(k) == {i \in 1..k : s[i] = x}
<1>1. ASSUME NEW k \in Nat PROVE IsFiniteSet(at(k)) /\ Cardinality(at(k)) \in Nat
  <2>1. IsFiniteSet(1..k)
    BY FS_Interval
  <2>2. at(k) \in SUBSET (1..k)
    OBVIOUS
  <2> HIDE DEF at
  <2>3. IsFiniteSet(at(k))
    BY <2>1, <2>2, FS_Subset
  <2> QED BY <2>3, FS_CardinalityType
<1>2. Cardinality(at(0)) = 0
  <2>1. at(0) = {}
    OBVIOUS
  <2> QED BY <2>1, FS_EmptySet
<1>3. ASSUME NEW k \in Nat \ {0}
      PROVE  Cardinality(at(k))
               = IF s[k] = x THEN Cardinality(at(k - 1)) + 1 ELSE Cardinality(at(k - 1))
  <2>1. CASE s[k] # x
    <3>1. at(k) = at(k - 1)
      BY <2>1
    <3> HIDE DEF at
    <3> QED BY <2>1, <3>1
  <2>2. CASE s[k] = x
    <3> DEFINE before == at(k - 1)
    <3>1. at(k) = before \cup {k} /\ k \notin before
      BY <2>2
    <3>2. IsFiniteSet(before)
      BY <1>1
    <3> HIDE DEF before, at
    <3>3. Cardinality(before \cup {k}) = Cardinality(before) + 1
      BY <3>1, <3>2, FS_AddElement
    <3> QED BY <2>2, <3>1, <3>3 DEF before
  <2> QED BY <2>1, <2>2
<1> QED
  BY <1>1, <1>2, <1>3 DEF Occurrences

(* Sequences that agree have the same occurrences.                          *)
LEMMA OccurrencesSame ==
  ASSUME NEW s, NEW t, NEW k \in Nat, NEW x, \A i \in 1..k : s[i] = t[i]
  PROVE  Occurrences(s, k, x) = Occurrences(t, k, x)
<1>1. {i \in 1..k : s[i] = x} = {i \in 1..k : t[i] = x}
  OBVIOUS
<1> QED
  BY <1>1 DEF Occurrences

(* Those of a concatenation are those of its two parts.                     *)
LEMMA OccurrencesConcat ==
  ASSUME NEW T, NEW a \in Seq(T), NEW b \in Seq(T), NEW x
  PROVE  Occurrences(a \o b, Len(a \o b), x)
           = Occurrences(a, Len(a), x) + Occurrences(b, Len(b), x)
<1> DEFINE t == a \o b
           m == Len(a)
           S == {k \in Nat : k <= Len(b) =>
                   Occurrences(t, m + k, x) = Occurrences(a, m, x) + Occurrences(b, k, x)}
<1>1. /\ m \in Nat /\ Len(b) \in Nat /\ Len(t) = m + Len(b)
      /\ \A i \in 1..m : t[i] = a[i]
      /\ \A k \in 1..Len(b) : t[m + k] = b[k]
  OBVIOUS
<1> HIDE DEF t, m
<1>2. 0 \in S
  <2>1. Occurrences(t, m, x) = Occurrences(a, m, x)
    BY <1>1, OccurrencesSame
  <2>2. Occurrences(a, m, x) \in Nat
    BY <1>1, OccurrencesStep
  <2>3. Occurrences(b, 0, x) = 0
    BY OccurrencesStep
  <2>4. m + 0 = m
    BY <1>1
  <2> QED BY <2>1, <2>2, <2>3, <2>4
<1>3. ASSUME NEW k \in Nat \ {0}, k - 1 \in S PROVE k \in S
  <2> SUFFICES ASSUME k <= Len(b)
               PROVE  Occurrences(t, m + k, x)
                        = Occurrences(a, m, x) + Occurrences(b, k, x)
    OBVIOUS
  <2>1. /\ k - 1 \in Nat /\ k - 1 <= Len(b) /\ m + k \in Nat \ {0} /\ (m + k) - 1 = m + (k - 1)
        /\ t[m + k] = b[k]
    BY <1>1
  <2>2. Occurrences(t, m + (k - 1), x) = Occurrences(a, m, x) + Occurrences(b, k - 1, x)
    BY <1>3, <2>1
  <2>3. /\ Occurrences(a, m, x) \in Nat /\ Occurrences(b, k - 1, x) \in Nat
        /\ Occurrences(b, k, x)
             = IF b[k] = x THEN Occurrences(b, k - 1, x) + 1 ELSE Occurrences(b, k - 1, x)
    BY <1>1, <2>1, OccurrencesStep
  <2>4. Occurrences(t, m + k, x)
          = IF b[k] = x THEN Occurrences(t, m + (k - 1), x) + 1
            ELSE Occurrences(t, m + (k - 1), x)
    <3>1. Occurrences(t, m + k, x)
            = IF t[m + k] = x THEN Occurrences(t, (m + k) - 1, x) + 1
              ELSE Occurrences(t, (m + k) - 1, x)
      BY <2>1, OccurrencesStep
    <3> QED BY <2>1, <3>1
  <2> HIDE DEF S
  <2> QED BY <2>2, <2>3, <2>4
<1>4. Len(b) \in S
  <2> HIDE DEF S
  <2> QED BY <1>1, <1>2, <1>3, SetInduction
<1> QED
  BY <1>1, <1>4 DEF t, m

(* A function of finitely many numbers to numbers has a bound.              *)
LEMMA Bounded ==
  ASSUME NEW n \in Nat, NEW f, \A i \in 1..n : f[i] \in Nat
  PROVE  \E b \in Nat : \A i \in 1..n : f[i] <= b
<1> DEFINE S == {k \in Nat : k <= n => \E b \in Nat : \A i \in 1..k : f[i] <= b}
<1>1. 0 \in S
  OBVIOUS
<1>2. ASSUME NEW k \in Nat \ {0}, k - 1 \in S PROVE k \in S
  <2> SUFFICES ASSUME k <= n PROVE \E b \in Nat : \A i \in 1..k : f[i] <= b
    OBVIOUS
  <2>1. PICK b \in Nat : \A i \in 1..(k - 1) : f[i] <= b
    BY <1>2
  <2>2. f[k] \in Nat /\ b + f[k] \in Nat
    BY <2>1
  <2>3. \A i \in 1..k : f[i] <= b + f[k]
    BY <2>1, <2>2
  <2> QED BY <2>2, <2>3
<1>3. n \in S
  <2> HIDE DEF S
  <2> QED BY <1>1, <1>2, SetInduction
<1> QED
  BY <1>3

(* No sequences give none.                                                  *)
LEMMA EmptyFlat ==
  ASSUME NEW T, NEW ss \in Seq(Seq(T)), Len(ss) = 0
  PROVE  FlattenSeq(ss) = <<>>
<1>1. Flat(ss, 0) = <<>>
  BY FlatStep
<1>2. Flat(ss, Len(ss)) = FlattenSeq(ss)
  BY FlatWhole
<1> QED
  BY <1>1, <1>2

(* One sequence is itself.                                                  *)
LEMMA SingleFlat ==
  ASSUME NEW T, NEW ss \in Seq(Seq(T)), Len(ss) = 1
  PROVE  FlattenSeq(ss) = ss[1]
<1>1. Flat(ss, 0) = <<>>
  BY FlatStep
<1>2. Flat(ss, 1) = Flat(ss, 0) \o ss[1]
  <2>1. 1 \in 1..Len(ss) /\ 1 - 1 = 0
    OBVIOUS
  <2>2. Flat(ss, 1) = Flat(ss, 1 - 1) \o ss[1]
    BY <2>1, FlatStep
  <2> QED BY <2>1, <2>2
<1>3. Flat(ss, Len(ss)) = FlattenSeq(ss)
  BY FlatWhole
<1>4. ss[1] \in Seq(T)
  OBVIOUS
<1>5. <<>> \o ss[1] = ss[1]
  BY <1>4
<1> QED
  BY <1>1, <1>2, <1>3, <1>5

=============================================================================
