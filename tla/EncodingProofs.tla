--------------------------- MODULE EncodingProofs ---------------------------
(***************************************************************************)
(* Proofs about Encoding, for any widths of numbers, of a byte and of a    *)
(* word, any pipelines that are stated and any values: what a pipeline     *)
(* accepts it gives back, and a HEC0 buffer that is cut off is refused.    *)
(* From the bottom up: arithmetic; for each coder that decoding inverts    *)
(* encoding, and that it refuses data without their end or reads values    *)
(* without their end; the same for one stage; for a pipeline, from the     *)
(* last stage to the first; for HEC0, whose header names the stages and    *)
(* which counts the values; and for a behaviour of Encoding.               *)
(***************************************************************************)
EXTENDS Encoding, SequenceLemmas

-----------------------------------------------------------------------------
(* Numbers                                                                  *)

(* A number is its quotient and its remainder.                              *)
LEMMA Division ==
  ASSUME NEW a \in Int, NEW m \in Nat \ {0}
  PROVE  /\ a = m * (a \div m) + (a % m)
         /\ a % m \in 0..(m - 1) /\ a \div m \in Int
OBVIOUS

(* No other quotient and remainder are those of a number.                   *)
LEMMA DivisionUnique ==
  ASSUME NEW a \in Int, NEW m \in Nat \ {0}, NEW q \in Int, NEW r \in 0..(m - 1),
         a = m * q + r
  PROVE  a \div m = q /\ a % m = r
OBVIOUS

(* Numbers that differ by a multiple of m have the same remainder.          *)
LEMMA SameRemainder ==
  ASSUME NEW a \in Int, NEW b \in Int, NEW m \in Nat \ {0}, NEW k \in Int, a = b + m * k
  PROVE  a % m = b % m
<1> DEFINE q == b \div m
           r == b % m
<1>1. b = m * q + r /\ r \in 0..(m - 1) /\ q \in Int
  BY Division
<1> HIDE DEF q, r
<1>2. a = m * (q + k) + r /\ q + k \in Int
  BY <1>1
<1>3. a % m = r
  BY <1>1, <1>2, DivisionUnique
<1> QED
  BY <1>3 DEF r

(* A quotient is at least 0, and less than what bounds the number.          *)
LEMMA QuotientBounds ==
  ASSUME NEW a \in Nat, NEW m \in Nat \ {0}, NEW b \in Nat, a < m * b
  PROVE  a \div m \in 0..(b - 1)
<1> DEFINE q == a \div m
           r == a % m
<1>1. a = m * q + r /\ r \in 0..(m - 1) /\ q \in Int
  BY Division
<1> HIDE DEF q, r
<1>2. q >= 0
  <2> SUFFICES ASSUME q <= -1 PROVE FALSE
    BY <1>1
  <2>1. m * q <= -m
    BY <1>1
  <2> QED BY <1>1, <2>1
<1>3. q < b
  <2> SUFFICES ASSUME q >= b PROVE FALSE
    BY <1>1
  <2>1. m * q >= m * b
    BY <1>1
  <2> QED BY <1>1, <2>1
<1> QED
  BY <1>1, <1>2, <1>3 DEF q

(* Dividing twice.                                                          *)
LEMMA DivideTwice ==
  ASSUME NEW a \in Nat, NEW m \in Nat \ {0}, NEW p \in Nat \ {0}
  PROVE  (a \div m) \div p = a \div (m * p)
<1> DEFINE q == a \div m
           r == a % m
           s == q \div p
           u == q % p
           n == m * p
<1>1. a = m * q + r /\ r \in 0..(m - 1) /\ q \in Int
  BY Division
<1>2. q = p * s + u /\ u \in 0..(p - 1) /\ s \in Int
  <2> HIDE DEF q
  <2> QED BY <1>1, Division
<1> HIDE DEF q, r, s, u
<1>3. n \in Nat \ {0}
  OBVIOUS
<1>4. a = n * s + (m * u + r)
  <2>1. m * q = m * (p * s) + m * u
    BY <1>2
  <2>2. m * (p * s) = n * s
    BY <1>2
  <2> QED BY <1>1, <2>1, <2>2, <1>2
<1>5. m * u + r \in 0..(n - 1)
  <2>1. m * u <= m * (p - 1)
    BY <1>2
  <2>2. m * (p - 1) = n - m
    OBVIOUS
  <2>3. m * u >= 0
    BY <1>2
  <2> HIDE DEF n
  <2> QED BY <1>1, <1>2, <1>3, <2>1, <2>2, <2>3
<1> HIDE DEF n
<1>6. a \div n = s
  BY <1>2, <1>3, <1>4, <1>5, DivisionUnique
<1> QED
  BY <1>6 DEF n, s, q

\* f holds the values after every number of steps.
Endless(f, T, base, step) ==
  /\ f \in [Nat -> T] /\ f[0] = base
  /\ \A k \in Nat \ {0} : f[k] = step[k][f[k - 1]]

(* A recursive function on the natural numbers exists.                      *)
LEMMA NaturalRecursion ==
  ASSUME NEW T, NEW base \in T, NEW step \in [Nat -> [T -> T]]
  PROVE  \E f : Endless(f, T, base, step)
<1> DEFINE upto(n) == [k \in 1..n |-> step[k]]
           part(n) == CHOOSE f : Recursion(f, T, base, n, upto(n))
           S(n) == {k \in Nat : k <= n => part(n + 1)[k] = part(n)[k]}
<1>1. ASSUME NEW n \in Nat PROVE Recursion(part(n), T, base, n, upto(n))
  <2> DEFINE u == upto(n)
  <2>1. u \in [1..n -> [T -> T]]
    OBVIOUS
  <2> HIDE DEF u
  <2>2. \E f : Recursion(f, T, base, n, u)
    BY <2>1, RecursiveFunction
  <2> QED BY <2>2 DEF u
<1>2. ASSUME NEW n \in Nat
      PROVE  /\ part(n) \in [0..n -> T] /\ part(n)[0] = base
             /\ \A k \in 1..n : part(n)[k] = step[k][part(n)[k - 1]]
  <2> HIDE DEF part
  <2> QED BY <1>1 DEF Recursion
<1> HIDE DEF part, upto
<1>3. ASSUME NEW n \in Nat PROVE Nat \subseteq S(n)
  <2> DEFINE s == S(n)
  <2>1. 0 \in s
    BY <1>2
  <2>2. ASSUME NEW k \in Nat \ {0}, k - 1 \in s PROVE k \in s
    <3> SUFFICES ASSUME k <= n PROVE part(n + 1)[k] = part(n)[k]
      OBVIOUS
    <3>1. k \in 1..n /\ k \in 1..(n + 1) /\ n + 1 \in Nat
      OBVIOUS
    <3>2. part(n + 1)[k - 1] = part(n)[k - 1]
      BY <2>2
    <3>3. part(n)[k] = step[k][part(n)[k - 1]]
      BY <1>2, <3>1
    <3>4. part(n + 1)[k] = step[k][part(n + 1)[k - 1]]
      BY <1>2, <3>1
    <3> QED BY <3>2, <3>3, <3>4
  <2> HIDE DEF s
  <2>3. Nat \subseteq s
    BY <2>1, <2>2, SetInduction
  <2> QED BY <2>3 DEF s
<1> DEFINE whole == [n \in Nat |-> part(n)[n]]
<1>4. whole \in [Nat -> T]
  BY <1>2
<1>5. whole[0] = base
  BY <1>2
<1>6. ASSUME NEW k \in Nat \ {0} PROVE whole[k] = step[k][whole[k - 1]]
  <2>1. k - 1 \in Nat /\ (k - 1) + 1 = k
    OBVIOUS
  <2>2. part((k - 1) + 1)[k - 1] = part(k - 1)[k - 1]
    BY <1>3, <2>1
  <2>3. part(k)[k] = step[k][part(k)[k - 1]]
    BY <1>2
  <2> QED BY <2>1, <2>2, <2>3
<1> HIDE DEF whole
<1> QED
  BY <1>4, <1>5, <1>6 DEF Endless

(* The recursive function of Coders is the powers of two.                   *)
LEMMA PowersOfTwoIs ==
  /\ PowersOfTwo \in [Nat -> Nat \ {0}]
  /\ PowersOfTwo[0] = 1 /\ \A k \in Nat \ {0} : PowersOfTwo[k] = 2 * PowersOfTwo[k - 1]
<1> DEFINE T == Nat \ {0}
           step == [k \in Nat |-> [x \in T |-> 2 * x]]
           body(f) == [n \in Nat |-> IF n = 0 THEN 1 ELSE 2 * f[n - 1]]
<1>1. step \in [Nat -> [T -> T]] /\ 1 \in T
  OBVIOUS
<1> HIDE DEF step, T
<1>2. PICK f : Endless(f, T, 1, step)
  BY <1>1, NaturalRecursion
<1>3. f \in [Nat -> T] /\ f[0] = 1
  BY <1>2 DEF Endless
<1>31. ASSUME NEW k \in Nat \ {0} PROVE f[k] = 2 * f[k - 1]
  <2>1. f[k] = step[k][f[k - 1]]
    BY <1>2 DEF Endless
  <2>2. k \in Nat /\ k - 1 \in Nat /\ f[k - 1] \in T
    BY <1>3
  <2> QED BY <2>1, <2>2 DEF step
<1>4. f = body(f)
  BY <1>3, <1>31
<1> USE DEF T
<1>5. PowersOfTwo = CHOOSE g : g = body(g)
  BY DEF PowersOfTwo
<1>6. PowersOfTwo = body(PowersOfTwo)
  <2> HIDE DEF body
  <2> QED BY <1>4, <1>5
<1> DEFINE S == {k \in Nat : PowersOfTwo[k] \in T}
<1>7. 0 \in S
  BY <1>6
<1>8. ASSUME NEW k \in Nat \ {0}, k - 1 \in S PROVE k \in S
  <2>1. PowersOfTwo[k] = 2 * PowersOfTwo[k - 1]
    BY <1>6
  <2>2. PowersOfTwo[k - 1] \in T
    BY <1>8
  <2>3. PowersOfTwo[k] \in T
    BY <2>1, <2>2
  <2> QED BY <2>3
<1>9. Nat \subseteq S
  <2> HIDE DEF S
  <2> QED BY <1>7, <1>8, SetInduction
<1>10. \A k \in Nat : PowersOfTwo[k] \in T
  BY <1>9
<1>11. PowersOfTwo[0] = 1 /\ \A k \in Nat \ {0} : PowersOfTwo[k] = 2 * PowersOfTwo[k - 1]
  BY <1>6
<1>12. PowersOfTwo \in [Nat -> T]
  <2>1. PowersOfTwo = [n \in Nat |-> PowersOfTwo[n]]
    BY <1>6
  <2> QED BY <1>10, <2>1
<1> QED
  BY <1>11, <1>12

(* Pow(n) is 2 to the n.                                                    *)
LEMMA PowIs ==
  /\ Pow(0) = 1
  /\ \A n \in Nat : Pow(n) \in Nat \ {0} /\ Pow(n + 1) = 2 * Pow(n)
<1>1. \A n \in Nat : n + 1 \in Nat \ {0} /\ (n + 1) - 1 = n
  OBVIOUS
<1> QED
  BY <1>1, PowersOfTwoIs DEF Pow

(* Exponents add up.                                                        *)
LEMMA PowAdd ==
  ASSUME NEW a \in Nat, NEW b \in Nat
  PROVE  Pow(a + b) = Pow(a) * Pow(b)
<1> DEFINE S == {k \in Nat : Pow(a + k) = Pow(a) * Pow(k)}
<1>1. 0 \in S
  <2>1. Pow(0) = 1 /\ Pow(a) \in Nat /\ a + 0 = a
    BY PowIs
  <2> QED BY <2>1
<1>2. ASSUME NEW k \in Nat \ {0}, k - 1 \in S PROVE k \in S
  <2>1. k - 1 \in Nat /\ (k - 1) + 1 = k /\ a + (k - 1) \in Nat /\ (a + (k - 1)) + 1 = a + k
    OBVIOUS
  <2>2. Pow(k) = 2 * Pow(k - 1) /\ Pow(a + k) = 2 * Pow(a + (k - 1))
    BY <2>1, PowIs
  <2>3. Pow(a + (k - 1)) = Pow(a) * Pow(k - 1)
    BY <1>2
  <2>4. Pow(a) \in Nat /\ Pow(k - 1) \in Nat
    BY <2>1, PowIs
  <2>5. Pow(a) * (2 * Pow(k - 1)) = 2 * (Pow(a) * Pow(k - 1))
    BY <2>4
  <2>6. Pow(a + k) = Pow(a) * Pow(k)
    BY <2>2, <2>3, <2>5
  <2> QED BY <2>6
<1>3. b \in S
  <2> HIDE DEF S
  <2> QED BY <1>1, <1>2, SetInduction
<1> QED
  BY <1>3

(* A larger exponent is a larger power.                                     *)
LEMMA PowGrows ==
  ASSUME NEW a \in Nat, NEW b \in Nat, a <= b
  PROVE  Pow(a) <= Pow(b)
<1>1. b - a \in Nat /\ a + (b - a) = b
  OBVIOUS
<1>2. Pow(b) = Pow(a) * Pow(b - a) /\ Pow(a) \in Nat \ {0} /\ Pow(b - a) \in Nat \ {0}
  BY <1>1, PowAdd, PowIs
<1> QED
  BY <1>2

-----------------------------------------------------------------------------
(* Numbers of a type                                                        *)

\* The types that hold numbers.
Numeric == Integral \cup Floats

\* The least number of a type, and how many there are.
Least(t) == IF t \in Signed THEN -Pow(Width[t] - 1) ELSE 0
Count(t) == Pow(Width[t])

(* A type has 2 to its width numbers, half of them below 0 if it is signed. *)
LEMMA CountIs ==
  ASSUME NEW t \in Numeric
  PROVE  /\ Width[t] \in Nat /\ Width[t] >= 2 /\ Width[t] <= WordBits
         /\ Count(t) \in Nat \ {0}
         /\ Count(t) = 2 * Pow(Width[t] - 1) /\ Count(t) \div 2 = Pow(Width[t] - 1)
         /\ Pow(Width[t] - 1) \in Nat /\ Pow(Width[t] - 1) >= 2
         /\ Least(t) \in Int
<1> DEFINE w == Width[t]
           h == Pow(w - 1)
<1>1. w \in 2..WordBits /\ WordBits \in Nat
  BY CodersAssumption DEF Numeric
<1> HIDE DEF w
<1>2. w - 2 \in Nat /\ w - 1 \in Nat /\ w \in Nat /\ w >= 2 /\ w <= WordBits
  BY <1>1
<1>3. Pow((w - 2) + 1) = 2 * Pow(w - 2) /\ Pow((w - 1) + 1) = 2 * h /\ Pow(w - 2) \in Nat \ {0}
      /\ h \in Nat
  BY <1>2, PowIs
<1>4. (w - 2) + 1 = w - 1 /\ (w - 1) + 1 = w
  BY <1>2
<1>5. h = 2 * Pow(w - 2) /\ Pow(w) = 2 * h
  BY <1>3, <1>4
<1> HIDE DEF h
<1>6. h >= 2 /\ -h \in Int /\ 2 * h \in Nat \ {0}
  BY <1>3, <1>5
<1>7. (2 * h) \div 2 = h
  BY <1>3
<1>8. Count(t) = 2 * h
  BY <1>5 DEF Count, w
<1>9. Count(t) \in Nat \ {0} /\ Count(t) \div 2 = h
  BY <1>6, <1>7, <1>8
<1>10. Least(t) \in Int
  BY <1>6 DEF Least, h, w
<1> QED
  BY <1>2, <1>3, <1>6, <1>8, <1>9, <1>10 DEF w, h

(* Wrapping adds a multiple of the modulus, and gives a number of the type. *)
LEMMA WrapIs ==
  ASSUME NEW t \in Numeric, NEW n \in Int
  PROVE  /\ Wrap(n, t) \in Int
         /\ \E k \in Int : Wrap(n, t) = n + Count(t) * k
         /\ Least(t) <= Wrap(n, t) /\ Wrap(n, t) < Least(t) + Count(t)
<1> DEFINE m == Count(t)
           h == Pow(Width[t] - 1)
<1>1. m \in Nat \ {0} /\ m = 2 * h /\ m \div 2 = h /\ h \in Nat /\ Pow(Width[t]) = m
      /\ Least(t) = (IF t \in Signed THEN -h ELSE 0)
  BY CountIs DEF Count, Least
<1> HIDE DEF m, h
<1>2. CASE t \in Signed
  <2>1. Wrap(n, t) = ((n + h) % m) - h
    BY <1>1, <1>2 DEF Wrap
  <2> DEFINE q == (n + h) \div m
             r == (n + h) % m
  <2>0. n + h \in Int
    BY <1>1
  <2>2. n + h = m * q + r /\ r \in 0..(m - 1) /\ q \in Int
    BY <1>1, <2>0, Division
  <2> HIDE DEF q, r
  <2>3. Wrap(n, t) = r - h
    BY <2>1 DEF r
  <2>4. r - h = n + m * (-q) /\ -q \in Int
    BY <2>2, <1>1
  <2>5. \E k \in Int : Wrap(n, t) = n + m * k
    BY <2>3, <2>4
  <2>6. Wrap(n, t) \in Int /\ -h <= Wrap(n, t) /\ Wrap(n, t) < m - h
    <3>1. r \in Int /\ h \in Int /\ m \in Int /\ 0 <= r /\ r < m
      BY <2>2, <1>1
    <3> QED BY <2>3, <3>1
  <2> QED
    BY <2>5, <2>6, <1>1, <1>2 DEF m
<1>3. CASE t \notin Signed
  <2> DEFINE q == n \div m
             r == n % m
  <2>1. n = m * q + r /\ r \in 0..(m - 1) /\ q \in Int
    BY <1>1, Division
  <2>2. Wrap(n, t) = r
    BY <1>1, <1>3 DEF Wrap
  <2> HIDE DEF q, r
  <2>3. r = n + m * (-q) /\ -q \in Int
    BY <2>1, <1>1
  <2>4. \E k \in Int : Wrap(n, t) = n + m * k
    BY <2>2, <2>3
  <2> QED
    BY <2>1, <2>2, <2>4, <1>1, <1>3 DEF m
<1> QED
  BY <1>2, <1>3

(* Two numbers of a type that differ by a multiple of the modulus are equal. *)
LEMMA OneInRange ==
  ASSUME NEW low \in Int, NEW m \in Nat \ {0}, NEW a \in Int, NEW b \in Int, NEW k \in Int,
         low <= a, a < low + m, low <= b, b < low + m, a = b + m * k
  PROVE  a = b
<1>1. CASE k >= 1
  <2>1. m * k >= m
    BY <1>1
  <2> QED BY <2>1
<1>2. CASE k <= -1
  <2>1. m * k <= -m
    BY <1>2
  <2> QED BY <2>1
<1>3. CASE k = 0
  BY <1>3
<1> QED
  BY <1>1, <1>2, <1>3

\* n is a number of type t.
Within(n, t) == n \in Int /\ Least(t) <= n /\ n < Least(t) + Count(t)

(* Arithmetic that wraps stays inside the type.                             *)
LEMMA WrapWithin ==
  ASSUME NEW t \in Numeric, NEW n \in Int
  PROVE  Within(Wrap(n, t), t)
BY WrapIs DEF Within

(* Wrapping what differs from a number of the type by a multiple of the     *)
(* modulus gives that number.                                               *)
LEMMA WrapTo ==
  ASSUME NEW t \in Numeric, NEW n \in Int, NEW y, Within(y, t), NEW k \in Int,
         n = y + Count(t) * k
  PROVE  Wrap(n, t) = y
<1>1. y \in Int /\ Least(t) <= y /\ y < Least(t) + Count(t) /\ Count(t) \in Nat \ {0}
      /\ Least(t) \in Int
  BY CountIs DEF Within
<1>2. PICK j \in Int : Wrap(n, t) = n + Count(t) * j
  BY WrapIs
<1>3. Wrap(n, t) \in Int /\ Least(t) <= Wrap(n, t) /\ Wrap(n, t) < Least(t) + Count(t)
  BY WrapIs
<1>4. Wrap(n, t) = y + Count(t) * (k + j) /\ k + j \in Int
  BY <1>1, <1>2
<1> HIDE DEF Wrap, Count, Least
<1> QED
  BY <1>1, <1>3, <1>4, OneInRange

(* A number of the type is left alone.                                      *)
LEMMA WrapKeeps ==
  ASSUME NEW t \in Numeric, NEW y, Within(y, t)
  PROVE  Wrap(y, t) = y
<1>1. y \in Int /\ y = y + Count(t) * 0
  BY CountIs DEF Within
<1> QED
  BY <1>1, WrapTo

(* InRange says that a number is one of the type.                           *)
LEMMA InRangeIs ==
  ASSUME NEW t \in Numeric, NEW n \in Int
  PROVE  InRange(n, t) <=> Within(n, t)
BY WrapKeeps, WrapWithin DEF InRange

(* A difference that wraps is undone by a sum that wraps.                   *)
LEMMA DifferenceUndone ==
  ASSUME NEW t \in Numeric, NEW a \in Int, NEW y, Within(y, t)
  PROVE  Wrap(a + Wrap(y - a, t), t) = y
<1>1. y \in Int /\ y - a \in Int
  BY DEF Within
<1>2. PICK k \in Int : Wrap(y - a, t) = (y - a) + Count(t) * k
  BY <1>1, WrapIs
<1> DEFINE m == Count(t)
<1>3. m \in Int
  BY CountIs
<1> HIDE DEF m
<1>4. a + ((y - a) + m * k) = y + m * k /\ a + ((y - a) + m * k) \in Int
  BY <1>1, <1>3
<1>5. a + Wrap(y - a, t) = y + Count(t) * k /\ a + Wrap(y - a, t) \in Int
  BY <1>2, <1>4 DEF m
<1> HIDE DEF Wrap, Within
<1> QED
  BY <1>5, WrapTo

-----------------------------------------------------------------------------
(* delta, delta_of_delta, deltamin                                          *)

\* xs are values of type t; the cells of an output of bytes are any integers.
Fits(xs, t) ==
  /\ xs \in Seq(Int)
  /\ t # "bytes" => \A i \in 1..Len(xs) : Within(xs[i], t)

(* Differences that wrap are numbers of the type, one for every value.      *)
LEMMA DeltasFit ==
  ASSUME NEW t \in Numeric, NEW xs, Fits(xs, t)
  PROVE  Fits(Deltas(xs, t), t) /\ Len(Deltas(xs, t)) = Len(xs)
<1>1. xs \in Seq(Int) /\ DOMAIN xs = 1..Len(xs) /\ Len(xs) \in Nat
  BY DEF Fits
<1>2. ASSUME NEW i \in 1..Len(xs)
      PROVE  Within(Wrap(xs[i] - (IF i = 1 THEN 0 ELSE xs[i - 1]), t), t)
  <2>1. xs[i] - (IF i = 1 THEN 0 ELSE xs[i - 1]) \in Int
    BY <1>1
  <2> QED BY <2>1, WrapWithin
<1> DEFINE f == [i \in 1..Len(xs) |-> Wrap(xs[i] - (IF i = 1 THEN 0 ELSE xs[i - 1]), t)]
<1>3. Deltas(xs, t) = f
  BY <1>1 DEF Deltas
<1>4. f \in Seq(Int) /\ Len(f) = Len(xs)
  BY <1>1, <1>2 DEF Within
<1>5. \A i \in 1..Len(xs) : Within(f[i], t)
  BY <1>2
<1> QED
  BY <1>3, <1>4, <1>5 DEF Fits

\* The sums of the first numbers.
SumsAre(f, xs, t) ==
  /\ f \in [0..Len(xs) -> Int] /\ f[0] = 0
  /\ \A i \in 1..Len(xs) : f[i] = Wrap(f[i - 1] + xs[i], t)

(* RunningSums holds those sums.                                            *)
LEMMA RunningSumsIs ==
  ASSUME NEW t \in Numeric, NEW xs \in Seq(Int)
  PROVE  \E f : SumsAre(f, xs, t) /\ RunningSums(xs, t) = [i \in 1..Len(xs) |-> f[i]]
<1> DEFINE n == Len(xs)
           step == [i \in 1..n |-> [x \in Int |-> Wrap(x + xs[i], t)]]
           body(g) == [i \in 0..n |-> IF i = 0 THEN 0 ELSE Wrap(g[i - 1] + xs[i], t)]
           sum == CHOOSE g : g = body(g)
<1>1. n \in Nat /\ \A i \in 1..n : xs[i] \in Int
  OBVIOUS
<1>2. step \in [1..n -> [Int -> Int]]
  <2> SUFFICES ASSUME NEW i \in 1..n, NEW x \in Int PROVE Wrap(x + xs[i], t) \in Int
    OBVIOUS
  <2>1. x + xs[i] \in Int
    BY <1>1
  <2> QED BY <2>1, WrapIs
<1>3. PICK f : Recursion(f, Int, 0, n, step)
  <2> HIDE DEF step, n
  <2> DEFINE T == Int
  <2>1. step \in [1..n -> [T -> T]] /\ 0 \in T /\ n \in Nat
    BY <1>1, <1>2
  <2> HIDE DEF T
  <2>2. \E f : Recursion(f, T, 0, n, step)
    BY <2>1, RecursiveFunction
  <2> QED BY <2>2 DEF T
<1>4. f \in [0..n -> Int] /\ f[0] = 0
  BY <1>3 DEF Recursion
<1>5. ASSUME NEW i \in 1..n PROVE f[i] = Wrap(f[i - 1] + xs[i], t)
  <2>1. f[i] = step[i][f[i - 1]]
    BY <1>3 DEF Recursion
  <2>2. f[i - 1] \in Int
    BY <1>4, <1>1
  <2> QED BY <2>1, <2>2
<1>6. f = body(f)
  BY <1>4, <1>5, <1>1
<1>7. sum = body(sum)
  <2> HIDE DEF body
  <2> QED BY <1>6
<1>8. RunningSums(xs, t) = [i \in 1..n |-> sum[i]]
  BY DEF RunningSums
<1> HIDE DEF sum
<1>9. \A i \in 0..n : sum[i] = f[i]
  <2> DEFINE S == {i \in Nat : i <= n => sum[i] = f[i]}
  <2>1. 0 \in S
    BY <1>7, <1>4, <1>1
  <2>2. ASSUME NEW k \in Nat \ {0}, k - 1 \in S PROVE k \in S
    <3> SUFFICES ASSUME k <= n PROVE sum[k] = f[k]
      OBVIOUS
    <3>1. k \in 1..n /\ sum[k - 1] = f[k - 1]
      BY <2>2, <1>1
    <3>2. sum[k] = Wrap(sum[k - 1] + xs[k], t)
      BY <1>7, <3>1
    <3> QED BY <3>1, <3>2, <1>5
  <2>3. Nat \subseteq S
    <3> HIDE DEF S
    <3> QED BY <2>1, <2>2, SetInduction
  <2> QED BY <2>3, <1>1
<1>10. RunningSums(xs, t) = [i \in 1..n |-> f[i]]
  BY <1>8, <1>9, <1>1
<1> QED
  BY <1>4, <1>5, <1>10 DEF SumsAre

(* delta: the sums of the differences are the values.                       *)
LEMMA DeltaRoundTrip ==
  ASSUME NEW t \in Numeric, NEW xs, Fits(xs, t)
  PROVE  RunningSums(Deltas(xs, t), t) = xs
<1> DEFINE n == Len(xs)
           ds == Deltas(xs, t)
<1>1. t # "bytes"
  BY CodersAssumption DEF Numeric
<1>2. xs \in Seq(Int) /\ n \in Nat /\ \A i \in 1..n : xs[i] \in Int /\ Within(xs[i], t)
  BY <1>1 DEF Fits
<1>3. ds \in Seq(Int) /\ Len(ds) = n
  BY DeltasFit DEF Fits
<1>4. ASSUME NEW i \in 1..n
      PROVE  ds[i] = Wrap(xs[i] - (IF i = 1 THEN 0 ELSE xs[i - 1]), t)
  BY <1>2 DEF Deltas
<1> HIDE DEF ds
<1>5. PICK f : SumsAre(f, ds, t) /\ RunningSums(ds, t) = [i \in 1..Len(ds) |-> f[i]]
  BY <1>3, RunningSumsIs
<1>6. f[0] = 0 /\ \A i \in 1..n : f[i] = Wrap(f[i - 1] + ds[i], t)
  BY <1>5, <1>3 DEF SumsAre
<1> DEFINE S == {i \in Nat : i \in 1..n => f[i] = xs[i]}
<1>7. 0 \in S
  OBVIOUS
<1>8. ASSUME NEW k \in Nat \ {0}, k - 1 \in S PROVE k \in S
  <2> SUFFICES ASSUME k \in 1..n PROVE f[k] = xs[k]
    OBVIOUS
  <2> DEFINE a == IF k = 1 THEN 0 ELSE xs[k - 1]
  <2>1. a \in Int /\ f[k - 1] = a
    BY <1>8, <1>6, <1>2
  <2>2. f[k] = Wrap(a + Wrap(xs[k] - a, t), t)
    BY <2>1, <1>4, <1>6
  <2> HIDE DEF a
  <2>3. Within(xs[k], t)
    BY <1>2
  <2>4. Wrap(a + Wrap(xs[k] - a, t), t) = xs[k]
    BY <2>1, <2>3, DifferenceUndone
  <2> QED BY <2>2, <2>4
<1>9. Nat \subseteq S
  <2> HIDE DEF S
  <2> QED BY <1>7, <1>8, SetInduction
<1>10. \A i \in 1..n : f[i] = xs[i]
  BY <1>9
<1>11. RunningSums(ds, t) = [i \in 1..n |-> xs[i]]
  BY <1>5, <1>3, <1>10
<1>12. xs = [i \in 1..n |-> xs[i]]
  BY <1>2
<1> QED
  BY <1>11, <1>12 DEF ds

(* delta_of_delta is delta twice, and so is its inverse.                    *)
LEMMA DeltaOfDeltaRoundTrip ==
  ASSUME NEW t \in Numeric, NEW xs, Fits(xs, t)
  PROVE  Fits(DeltasOfDeltas(xs, t), t) /\ SumsOfSums(DeltasOfDeltas(xs, t), t) = xs
BY DeltasFit, DeltaRoundTrip DEF DeltasOfDeltas, SumsOfSums

(* Values have a least one: the minimum that deltamin writes first.         *)
LEMMA LeastOf ==
  ASSUME NEW xs \in Seq(Int), xs # <<>>
  PROVE  \E m \in ToSet(xs) : \A x \in ToSet(xs) : m <= x
<1> DEFINE T(k) == \E m \in 1..k : \A j \in 1..k : xs[m] <= xs[j]
           S == {k \in Nat : k \in 1..Len(xs) => T(k)}
<1>1. Len(xs) \in Nat \ {0} /\ \A i \in 1..Len(xs) : xs[i] \in Int
  OBVIOUS
<1>2. 0 \in S
  OBVIOUS
<1>3. ASSUME NEW k \in Nat \ {0}, k - 1 \in S PROVE k \in S
  <2> SUFFICES ASSUME k \in 1..Len(xs) PROVE T(k)
    OBVIOUS
  <2>1. CASE k = 1
    BY <2>1, <1>1
  <2>2. CASE k # 1
    <3>1. k - 1 \in 1..Len(xs) /\ k - 1 \in Nat
      BY <2>2, <1>1
    <3>2. PICK m \in 1..(k - 1) : \A j \in 1..(k - 1) : xs[m] <= xs[j]
      BY <3>1, <1>3
    <3>3. xs[m] \in Int /\ xs[k] \in Int /\ \A j \in 1..(k - 1) : xs[j] \in Int
      BY <1>1, <3>1
    <3>4. CASE xs[m] <= xs[k]
      <4>1. m \in 1..k /\ \A j \in 1..k : xs[m] <= xs[j]
        BY <3>1, <3>2, <3>4
      <4> QED BY <4>1
    <3>5. CASE xs[k] < xs[m]
      <4>1. ASSUME NEW j \in 1..k PROVE xs[k] <= xs[j]
        <5>1. CASE j = k
          BY <5>1, <3>3
        <5>2. CASE j # k
          <6>1. j \in 1..(k - 1)
            BY <5>2
          <6>2. xs[m] <= xs[j] /\ xs[j] \in Int
            BY <6>1, <3>2, <3>3
          <6> QED BY <6>2, <3>3, <3>5
        <5> QED BY <5>1, <5>2
      <4> QED BY <4>1
    <3>6. xs[m] <= xs[k] \/ xs[k] < xs[m]
      BY <3>3
    <3> QED BY <3>4, <3>5, <3>6
  <2> QED BY <2>1, <2>2
<1>4. Nat \subseteq S
  <2> HIDE DEF S
  <2> QED BY <1>2, <1>3, SetInduction
<1>5. T(Len(xs))
  <2> HIDE DEF T
  <2> QED BY <1>1, <1>4
<1>6. ToSet(xs) = {xs[i] : i \in 1..Len(xs)}
  BY DEF ToSet
<1> QED
  BY <1>5, <1>6

(* deltamin: the values are the minimum plus what is above it.              *)
LEMMA DeltaMinRoundTrip ==
  ASSUME NEW t \in Numeric, NEW xs, Fits(xs, t)
  PROVE  Fits(AboveMin(xs, t), t) /\ MinAdded(AboveMin(xs, t), t) = xs
<1>0. t # "bytes"
  BY CodersAssumption DEF Numeric
<1>1. xs \in Seq(Int) /\ Len(xs) \in Nat /\ DOMAIN xs = 1..Len(xs)
      /\ \A i \in 1..Len(xs) : xs[i] \in Int /\ Within(xs[i], t)
  BY <1>0 DEF Fits
<1>2. CASE xs = <<>>
  BY <1>2 DEF AboveMin, MinAdded, Fits
<1>3. CASE xs # <<>>
  <2> DEFINE least == CHOOSE m \in ToSet(xs) : \A x \in ToSet(xs) : m <= x
             n == Len(xs)
             f == [i \in 1..n |-> Wrap(xs[i] - least, t)]
             above == << least >> \o f
  <2>1. least \in ToSet(xs)
    BY <1>1, <1>3, LeastOf
  <2> HIDE DEF least
  <2>2. least \in Int /\ Within(least, t)
    BY <2>1, <1>1 DEF ToSet
  <2>3. ASSUME NEW i \in 1..n PROVE Within(f[i], t) /\ f[i] \in Int
    <3>1. xs[i] - least \in Int
      BY <1>1, <2>2
    <3>2. Within(Wrap(xs[i] - least, t), t)
      BY <3>1, WrapWithin
    <3> QED BY <3>2 DEF Within
  <2>4. f \in Seq(Int) /\ Len(f) = n
    BY <1>1, <2>3
  <2>5. AboveMin(xs, t) = above
    BY <1>1, <1>3 DEF AboveMin, least
  <2>6. ASSUME NEW i \in 1..n PROVE Wrap(least + f[i], t) = xs[i]
    BY <1>1, <2>2, DifferenceUndone
  <2> HIDE DEF f
  <2>7. above \in Seq(Int) /\ Len(above) = n + 1 /\ above[1] = least
        /\ \A i \in 1..n : above[i + 1] = f[i]
    BY <2>2, <2>4, <1>1
  <2> HIDE DEF above
  <2>8. ASSUME NEW i \in 1..(n + 1) PROVE Within(above[i], t)
    <3>1. CASE i = 1
      BY <3>1, <2>7, <2>2
    <3>2. CASE i # 1
      <4>1. i - 1 \in 1..n /\ (i - 1) + 1 = i
        BY <3>2, <1>1
      <4> QED BY <4>1, <2>7, <2>3
    <3> QED BY <3>1, <3>2
  <2>9. Fits(above, t)
    BY <2>7, <2>8 DEF Fits
  <2>10. above # <<>> /\ Len(above) - 1 = n
    BY <2>7, <1>1
  <2>11. MinAdded(above, t) = [i \in 1..n |-> Wrap(above[1] + above[i + 1], t)]
    BY <2>10 DEF MinAdded
  <2>12. MinAdded(above, t) = [i \in 1..n |-> xs[i]]
    BY <2>11, <2>7, <2>6
  <2>13. xs = [i \in 1..n |-> xs[i]]
    BY <1>1
  <2> QED BY <2>5, <2>9, <2>12, <2>13
<1> QED
  BY <1>2, <1>3

-----------------------------------------------------------------------------
(* rle                                                                      *)

\* The runs that pairs of a value and a count stand for.
RunsOf(out) == [j \in 1..Len(out) \div 2 |-> [k \in 1..out[2 * j] |-> out[2 * j - 1]]]

\* out is k pairs, each with a value and a count of the type.
Pairs(out, k, t) ==
  /\ Fits(out, t)
  /\ k \in Nat /\ Len(out) = 2 * k
  /\ \A j \in 1..k : out[2 * j] > 0

(* Half of an even number.                                                  *)
LEMMA HalfIs ==
  ASSUME NEW k \in Nat
  PROVE  (2 * k) \div 2 = k /\ (2 * k) % 2 = 0
OBVIOUS

(* Two sequences with the same elements are the same.                       *)
LEMMA SameSeq ==
  ASSUME NEW T, NEW a \in Seq(T), NEW b \in Seq(T), Len(a) = Len(b),
         \A i \in 1..Len(a) : a[i] = b[i]
  PROVE  a = b
OBVIOUS

\* t is s with two elements appended.
TwoAppended(t, s, x, y) ==
  /\ t \in Seq(Int) /\ Len(t) = Len(s) + 2
  /\ t[Len(s) + 1] = x /\ t[Len(s) + 2] = y
  /\ \A i \in 1..Len(s) : t[i] = s[i]

(* A sequence with two more elements.                                       *)
LEMMA AppendTwo ==
  ASSUME NEW s \in Seq(Int), NEW x \in Int, NEW y \in Int
  PROVE  TwoAppended(s \o <<x, y>>, s, x, y)
BY DEF TwoAppended

\* The runs of k pairs.
RunsAre(out, k) ==
  /\ out \in Seq(Int) /\ Len(out) = 2 * k /\ Len(out) \div 2 = k
  /\ \A j \in 1..k : /\ 2 * j \in 1..Len(out) /\ 2 * j - 1 \in 1..Len(out)
                     /\ out[2 * j] \in Nat /\ out[2 * j - 1] \in Int
                     /\ out[2 * j] > 0
  /\ RunsOf(out) = [j \in 1..k |-> [i \in 1..out[2 * j] |-> out[2 * j - 1]]]
  /\ RunsOf(out) \in Seq(Seq(Int)) /\ Len(RunsOf(out)) = k

(* Pairs of a value and a count are as many runs.                           *)
LEMMA PairsAre ==
  ASSUME NEW t \in Numeric, NEW k \in Nat, NEW out, Pairs(out, k, t)
  PROVE  RunsAre(out, k)
<1>1. out \in Seq(Int) /\ Len(out) = 2 * k
  BY DEF Pairs, Fits
<1>2. Len(out) \div 2 = k
  BY <1>1, HalfIs
<1>3. ASSUME NEW j \in 1..k
      PROVE  /\ 2 * j \in 1..Len(out) /\ 2 * j - 1 \in 1..Len(out)
             /\ out[2 * j] \in Nat /\ out[2 * j - 1] \in Int
             /\ out[2 * j] > 0
  <2>1. 2 * j \in 1..Len(out) /\ 2 * j - 1 \in 1..Len(out)
    BY <1>1
  <2>2. out[2 * j] > 0
    BY DEF Pairs
  <2>3. out[2 * j] \in Int /\ out[2 * j - 1] \in Int
    BY <1>1, <2>1
  <2> QED BY <2>1, <2>2, <2>3
<1> DEFINE rs == [j \in 1..k |-> [i \in 1..out[2 * j] |-> out[2 * j - 1]]]
<1>4. RunsOf(out) = rs
  BY <1>2 DEF RunsOf
<1>5. ASSUME NEW j \in 1..k PROVE rs[j] \in Seq(Int)
  <2>1. out[2 * j] \in Nat /\ out[2 * j - 1] \in Int
    BY <1>3
  <2>2. [i \in 1..out[2 * j] |-> out[2 * j - 1]] \in Seq(Int)
    BY <2>1
  <2> QED BY <2>2
<1>6. rs \in Seq(Seq(Int)) /\ Len(rs) = k
  <2>1. rs = [j \in 1..k |-> rs[j]]
    OBVIOUS
  <2> HIDE DEF rs
  <2> QED BY <2>1, <1>5
<1> QED
  BY <1>1, <1>2, <1>3, <1>4, <1>6 DEF RunsAre

\* With c times x appended, out is k pairs, and one more run.
RunAppended(out, x, c, k, t) ==
  /\ Pairs(out \o <<x, c>>, k, t)
  /\ FlattenSeq(RunsOf(out \o <<x, c>>)) = FlattenSeq(RunsOf(out)) \o [i \in 1..c |-> x]

(* A pair appended is a run appended.                                       *)
LEMMA PairAppended ==
  ASSUME NEW t \in Numeric, NEW k \in Nat, NEW out, Pairs(out, k, t),
         NEW x, Within(x, t), NEW c, Within(c, t), c > 0
  PROVE  RunAppended(out, x, c, k + 1, t)
<1> DEFINE both == out \o <<x, c>>
<1>0. x \in Int /\ c \in Nat /\ c \in Int /\ t # "bytes"
  BY CodersAssumption DEF Within, Numeric
<1>1. /\ out \in Seq(Int) /\ Len(out) = 2 * k
      /\ \A i \in 1..Len(out) : Within(out[i], t)
  BY <1>0 DEF Pairs, Fits
<1>2. /\ both \in Seq(Int) /\ Len(both) = 2 * k + 2
      /\ \A i \in 1..(2 * k) : both[i] = out[i]
      /\ both[2 * k + 1] = x /\ both[2 * k + 2] = c
  BY <1>0, <1>1
<1> HIDE DEF both
<1>3. Pairs(both, k + 1, t)
  <2>1. ASSUME NEW i \in 1..Len(both) PROVE Within(both[i], t)
    <3>1. i \in 1..(2 * k) \/ i = 2 * k + 1 \/ i = 2 * k + 2
      BY <1>2
    <3> QED BY <3>1, <1>1, <1>2
  <2>2. ASSUME NEW j \in 1..(k + 1) PROVE both[2 * j] > 0
    <3>1. CASE j \in 1..k
      <4>1. 2 * j \in 1..(2 * k)
        BY <3>1
      <4>2. out[2 * j] > 0
        BY <3>1 DEF Pairs
      <4> QED BY <4>1, <4>2, <1>2
    <3>2. CASE j = k + 1
      <4>1. 2 * j = 2 * k + 2
        BY <3>2
      <4> QED BY <4>1, <1>2
    <3> QED BY <3>1, <3>2
  <2>3. Len(both) = 2 * (k + 1)
    BY <1>2
  <2> QED BY <1>2, <2>1, <2>2, <2>3 DEF Pairs, Fits
<1> DEFINE rs == RunsOf(both)
           qs == RunsOf(out)
<1>4. /\ rs = [j \in 1..(k + 1) |-> [i \in 1..both[2 * j] |-> both[2 * j - 1]]]
      /\ rs \in Seq(Seq(Int)) /\ Len(rs) = k + 1
  <2>1. RunsAre(both, k + 1)
    BY <1>3, PairsAre
  <2> QED BY <2>1 DEF RunsAre
<1>5. /\ qs = [j \in 1..k |-> [i \in 1..out[2 * j] |-> out[2 * j - 1]]]
      /\ qs \in Seq(Seq(Int)) /\ Len(qs) = k
  <2>1. RunsAre(out, k)
    BY PairsAre
  <2> QED BY <2>1 DEF RunsAre
<1> HIDE DEF rs, qs
<1>6. rs[k + 1] = [i \in 1..c |-> x]
  <2>1. 2 * (k + 1) = 2 * k + 2 /\ 2 * (k + 1) - 1 = 2 * k + 1 /\ k + 1 \in 1..(k + 1)
    OBVIOUS
  <2>2. both[2 * (k + 1)] = c /\ both[2 * (k + 1) - 1] = x
    BY <2>1, <1>2
  <2> QED BY <2>1, <2>2, <1>4
<1>7. ASSUME NEW j \in 1..k PROVE rs[j] = qs[j]
  <2>1. 2 * j \in 1..(2 * k) /\ 2 * j - 1 \in 1..(2 * k) /\ j \in 1..(k + 1)
    OBVIOUS
  <2>2. both[2 * j] = out[2 * j] /\ both[2 * j - 1] = out[2 * j - 1]
    BY <2>1, <1>2
  <2> QED BY <2>1, <2>2, <1>4, <1>5
<1>8. SubSeq(rs, 1, k) = SubSeq(qs, 1, k)
  <2> DEFINE a == SubSeq(rs, 1, k)
             b == SubSeq(qs, 1, k)
             T == Seq(Int)
  <2>1. rs \in Seq(T) /\ qs \in Seq(T) /\ Len(rs) = k + 1 /\ Len(qs) = k
    BY <1>4, <1>5
  <2> HIDE DEF T
  <2>2. a \in Seq(T) /\ b \in Seq(T) /\ Len(a) = k /\ Len(b) = k
    BY <2>1
  <2>3. \A i \in 1..k : a[i] = rs[i] /\ b[i] = qs[i]
    BY <2>1
  <2> HIDE DEF a, b
  <2>4. a = b
    BY <2>2, <2>3, <1>7, SameSeq
  <2> QED BY <2>4 DEF a, b
<1>9. Flat(rs, k) = Flat(qs, k)
  BY <1>8 DEF Flat
<1>10. Flat(rs, k + 1) = Flat(rs, k) \o rs[k + 1]
  <2>1. k + 1 \in 1..Len(rs) /\ (k + 1) - 1 = k
    BY <1>4
  <2>2. Flat(rs, k + 1) = Flat(rs, (k + 1) - 1) \o rs[k + 1]
    BY <1>4, <2>1, FlatStep
  <2> QED BY <2>1, <2>2
<1>11. FlattenSeq(rs) = Flat(rs, k + 1) /\ FlattenSeq(qs) = Flat(qs, k)
  BY <1>4, <1>5, FlatWhole
<1> QED
  BY <1>3, <1>6, <1>9, <1>10, <1>11 DEF rs, qs, both, RunAppended

(* The count of a run is a number of the type up to the largest of them.    *)
LEMMA LargestIs ==
  ASSUME NEW t \in Integral
  PROVE  /\ t \in Numeric /\ t # "bytes"
         /\ Largest(t) \in Nat /\ Largest(t) >= 1
         /\ Largest(t) = Least(t) + Count(t) - 1
         /\ \A n \in Nat : n <= Largest(t) => Within(n, t)
<1> DEFINE h == Pow(Width[t] - 1)
<1>1. t \in Numeric /\ t # "bytes"
  BY CodersAssumption DEF Numeric
<1>2. h \in Nat /\ h >= 2 /\ Count(t) = 2 * h /\ Count(t) = Pow(Width[t])
  BY <1>1, CountIs DEF Count
<1> HIDE DEF h
<1>3. Least(t) = (IF t \in Signed THEN -h ELSE 0)
      /\ Largest(t) = (IF t \in Signed THEN h - 1 ELSE 2 * h - 1)
  BY <1>2 DEF Least, Largest, h
<1>4. Largest(t) \in Nat /\ Largest(t) >= 1 /\ Largest(t) = Least(t) + Count(t) - 1
      /\ Least(t) \in Int /\ Least(t) <= 0
  BY <1>2, <1>3
<1>5. \A n \in Nat : n <= Largest(t) => Within(n, t)
  BY <1>2, <1>4 DEF Within
<1> QED
  BY <1>1, <1>4, <1>5

\* out stands for the values ys.
StandsFor(out, ys, t) ==
  /\ \E k \in Nat : Pairs(out, k, t)
  /\ FlattenSeq(RunsOf(out)) = ys

(* One more value is one more value in the runs.                            *)
LEMMA AddToRunsAdds ==
  ASSUME NEW t \in Integral, NEW out, NEW ys \in Seq(Int), StandsFor(out, ys, t),
         NEW x, Within(x, t)
  PROVE  StandsFor(AddToRuns(out, x, t), ys \o <<x>>, t)
<1>1. t \in Numeric /\ Within(1, t) /\ x \in Int /\ t # "bytes"
  BY LargestIs DEF Within
<1>2. PICK k \in Nat : Pairs(out, k, t)
  BY DEF StandsFor
<1>3. out \in Seq(Int) /\ Len(out) = 2 * k
      /\ \A i \in 1..Len(out) : Within(out[i], t)
  BY <1>1, <1>2 DEF Pairs, Fits
<1>4. CASE AddToRuns(out, x, t) = out \o <<x, 1>>
  <2>1. RunAppended(out, x, 1, k + 1, t)
    BY <1>1, <1>2, PairAppended
  <2>2. [i \in 1..1 |-> x] = <<x>>
    OBVIOUS
  <2>3. /\ Pairs(out \o <<x, 1>>, k + 1, t)
        /\ FlattenSeq(RunsOf(out \o <<x, 1>>)) = FlattenSeq(RunsOf(out)) \o <<x>>
    BY <2>1, <2>2 DEF RunAppended
  <2>4. k + 1 \in Nat /\ FlattenSeq(RunsOf(out)) = ys
    BY DEF StandsFor
  <2> QED BY <1>4, <2>3, <2>4 DEF StandsFor
<1>5. CASE AddToRuns(out, x, t) # out \o <<x, 1>>
  <2> DEFINE n == Len(out)
             c == out[n]
             base == SubSeq(out, 1, n - 2)
  <2>1. /\ out # <<>> /\ out[Len(out) - 1] = x /\ c < Largest(t)
        /\ AddToRuns(out, x, t) = [out EXCEPT ![Len(out)] = Wrap(out[Len(out)] + 1, t)]
    BY <1>5 DEF AddToRuns, RoomInRun
  <2>2. k \in Nat \ {0} /\ n = 2 * k /\ n \in Nat /\ n >= 2 /\ k - 1 \in Nat
    BY <1>3, <2>1
  <2>3. c > 0 /\ c \in Nat /\ Within(c, t)
    <3>1. k \in 1..k /\ 2 * k = n /\ n \in 1..Len(out)
      BY <2>2
    <3>2. out[2 * k] > 0
      BY <3>1, <1>2 DEF Pairs
    <3>3. Within(c, t) /\ c \in Int
      BY <3>1, <1>3
    <3> QED BY <3>1, <3>2, <3>3
  <2>4. c + 1 \in Nat /\ c + 1 > 0 /\ Within(c + 1, t)
    <3>1. Largest(t) \in Nat /\ c + 1 \in Nat /\ c + 1 <= Largest(t)
      BY <2>1, <2>3, LargestIs
    <3> HIDE DEF c
    <3> QED BY <3>1, <2>3, LargestIs
  <2>5. Wrap(c + 1, t) = c + 1
    BY <1>1, <2>4, WrapKeeps
  <2>6. base \in Seq(Int) /\ Len(base) = 2 * (k - 1) /\ \A i \in 1..(n - 2) : base[i] = out[i]
    BY <1>3, <2>2
  <2>7. out[n - 1] = x
    BY <2>1
  <2>71. out \in Seq(Int) /\ Len(out) = n /\ out[n] = c
         /\ \A i \in 1..n : Within(out[i], t)
    BY <1>3
  <2>72. n \in Nat /\ n - 2 \in Nat /\ Len(base) = n - 2 /\ c \in Int /\ c + 1 \in Int
    BY <2>2, <2>3, <2>6
  <2> HIDE DEF base, c, n
  <2>73. /\ Len(base \o <<x, c>>) = n /\ base \o <<x, c>> \in Seq(Int)
         /\ (base \o <<x, c>>)[n - 1] = x /\ (base \o <<x, c>>)[n] = c
         /\ \A i \in 1..(n - 2) : (base \o <<x, c>>)[i] = base[i]
    <3>1. TwoAppended(base \o <<x, c>>, base, x, c)
      BY <2>6, <2>72, <1>1, AppendTwo
    <3>2. Len(base) + 1 = n - 1 /\ Len(base) + 2 = n
      BY <2>72
    <3> QED BY <3>1, <3>2, <2>72 DEF TwoAppended
  <2>74. /\ Len(base \o <<x, c + 1>>) = n /\ base \o <<x, c + 1>> \in Seq(Int)
         /\ (base \o <<x, c + 1>>)[n - 1] = x /\ (base \o <<x, c + 1>>)[n] = c + 1
         /\ \A i \in 1..(n - 2) : (base \o <<x, c + 1>>)[i] = base[i]
    <3>1. TwoAppended(base \o <<x, c + 1>>, base, x, c + 1)
      BY <2>6, <2>72, <1>1, AppendTwo
    <3>2. Len(base) + 1 = n - 1 /\ Len(base) + 2 = n
      BY <2>72
    <3> QED BY <3>1, <3>2, <2>72 DEF TwoAppended
  <2>8. out = base \o <<x, c>>
    <3> DEFINE both == base \o <<x, c>>
    <3>1. both \in Seq(Int) /\ Len(both) = n
      BY <2>73
    <3>2. ASSUME NEW i \in 1..n PROVE out[i] = both[i]
      <4>1. CASE i \in 1..(n - 2)
        BY <4>1, <2>73, <2>6
      <4>2. CASE i = n - 1
        BY <4>2, <2>73, <2>7
      <4>3. CASE i = n
        BY <4>3, <2>73, <2>71
      <4> QED BY <4>1, <4>2, <4>3, <2>72
    <3> HIDE DEF both
    <3> QED BY <2>71, <3>1, <3>2, SameSeq DEF both
  <2>9. [out EXCEPT ![Len(out)] = c + 1] = base \o <<x, c + 1>>
    <3> DEFINE both == base \o <<x, c + 1>>
               more == [out EXCEPT ![Len(out)] = c + 1]
    <3>1. both \in Seq(Int) /\ Len(both) = n
      BY <2>74
    <3>2. more \in Seq(Int) /\ Len(more) = n
      BY <2>71, <2>72
    <3>3. more[n] = c + 1 /\ \A i \in 1..(n - 1) : more[i] = out[i]
      BY <2>71, <2>72, <2>2
    <3>4. ASSUME NEW i \in 1..n PROVE more[i] = both[i]
      <4>1. CASE i \in 1..(n - 2)
        <5>1. both[i] = base[i]
          BY <4>1, <2>74
        <5>2. more[i] = out[i]
          BY <4>1, <3>3, <2>72
        <5> QED BY <5>1, <5>2, <4>1, <2>6
      <4>2. CASE i = n - 1
        <5>1. both[i] = x
          BY <4>2, <2>74
        <5>2. more[i] = out[i]
          BY <4>2, <3>3, <2>2
        <5> QED BY <5>1, <5>2, <4>2, <2>7
      <4>3. CASE i = n
        <5>1. both[i] = c + 1
          BY <4>3, <2>74
        <5> QED BY <5>1, <4>3, <3>3
      <4> QED BY <4>1, <4>2, <4>3, <2>72
    <3> HIDE DEF both, more
    <3>5. more = both
      BY <3>1, <3>2, <3>4, SameSeq
    <3> QED BY <3>5 DEF both, more
  <2>10. AddToRuns(out, x, t) = base \o <<x, c + 1>>
    <3>1. out[Len(out)] = c
      BY <2>71
    <3>2. AddToRuns(out, x, t) = [out EXCEPT ![Len(out)] = Wrap(out[Len(out)] + 1, t)]
      BY <2>1
    <3> QED BY <3>1, <3>2, <2>5, <2>9
  <2>11. Pairs(base, k - 1, t)
    <3>1. ASSUME NEW i \in 1..Len(base) PROVE Within(base[i], t)
      <4>1. i \in 1..(n - 2) /\ i \in 1..Len(out)
        BY <2>71, <2>72
      <4>2. i \in 1..n
        BY <4>1, <2>72
      <4> QED BY <4>1, <4>2, <2>6, <2>71
    <3>2. ASSUME NEW j \in 1..(k - 1) PROVE base[2 * j] > 0
      <4>1. 2 * j \in 1..(n - 2) /\ j \in 1..k
        BY <2>2
      <4>2. out[2 * j] > 0
        BY <4>1, <1>2 DEF Pairs
      <4> QED BY <4>1, <4>2, <2>6
    <3> HIDE DEF base
    <3> QED BY <2>2, <2>6, <3>1, <3>2 DEF Pairs, Fits
  <2> HIDE DEF base, c, n
  <2>12. RunAppended(base, x, c, (k - 1) + 1, t)
    BY <1>1, <2>2, <2>3, <2>11, PairAppended
  <2>13. RunAppended(base, x, c + 1, (k - 1) + 1, t)
    BY <1>1, <2>2, <2>4, <2>11, PairAppended
  <2> DEFINE head == FlattenSeq(RunsOf(base))
  <2>14. head \in Seq(Int)
    <3>1. RunsOf(base) \in Seq(Seq(Int))
      BY <1>1, <2>2, <2>11, PairsAre DEF RunsAre
    <3> QED BY <3>1, FlattenType
  <2> HIDE DEF head
  <2>15. head \o [i \in 1..(c + 1) |-> x] = (head \o [i \in 1..c |-> x]) \o <<x>>
    <3> DEFINE a == [i \in 1..(c + 1) |-> x]
               b == [i \in 1..c |-> x]
    <3>1. a \in Seq(Int) /\ b \in Seq(Int) /\ Len(a) = c + 1 /\ Len(b) = c
      BY <1>1, <2>3, <2>4
    <3>2. a = b \o <<x>>
      BY <1>1, <2>3
    <3> HIDE DEF a, b
    <3>3. head \o (b \o <<x>>) = (head \o b) \o <<x>>
      BY <2>14, <3>1, <1>1
    <3> QED BY <3>2, <3>3 DEF a, b
  <2>16. FlattenSeq(RunsOf(out)) = ys
    BY DEF StandsFor
  <2>17. FlattenSeq(RunsOf(base \o <<x, c + 1>>)) = ys \o <<x>>
    <3>1. FlattenSeq(RunsOf(base \o <<x, c + 1>>)) = head \o [i \in 1..(c + 1) |-> x]
      BY <2>13 DEF RunAppended, head
    <3>2. FlattenSeq(RunsOf(base \o <<x, c>>)) = head \o [i \in 1..c |-> x]
      BY <2>12 DEF RunAppended, head
    <3>3. FlattenSeq(RunsOf(base \o <<x, c>>)) = ys
      BY <2>8, <2>16
    <3> QED BY <3>1, <3>2, <3>3, <2>15
  <2>18. (k - 1) + 1 \in Nat
    BY <2>2
  <2>19. Pairs(base \o <<x, c + 1>>, (k - 1) + 1, t)
    BY <2>13 DEF RunAppended
  <2> QED BY <2>10, <2>17, <2>18, <2>19 DEF StandsFor
<1> QED
  BY <1>4, <1>5

(* One more value leaves a sequence of numbers.                             *)
LEMMA AddToRunsType ==
  ASSUME NEW t \in Numeric, NEW out \in Seq(Int), NEW x \in Int
  PROVE  AddToRuns(out, x, t) \in Seq(Int)
<1>1. out \o <<x, 1>> \in Seq(Int)
  OBVIOUS
<1>2. CASE out # <<>>
  <2> DEFINE c == out[Len(out)]
  <2>1. c \in Int /\ c + 1 \in Int
    BY <1>2
  <2>2. Wrap(c + 1, t) \in Int
    BY <2>1, WrapIs
  <2> DEFINE y == Wrap(c + 1, t)
  <2>3. [out EXCEPT ![Len(out)] = y] \in Seq(Int)
    <3> HIDE DEF y
    <3>1. y \in Int
      BY <2>2 DEF y
    <3> DEFINE more == [i \in 1..Len(out) |-> IF i = Len(out) THEN y ELSE out[i]]
    <3>2. more \in Seq(Int)
      BY <3>1
    <3>3. [out EXCEPT ![Len(out)] = y] = more
      <4>1. DOMAIN out = 1..Len(out) /\ out = [i \in 1..Len(out) |-> out[i]]
        OBVIOUS
      <4> QED BY <4>1
    <3> QED BY <3>2, <3>3
  <2> QED BY <1>1, <2>3 DEF AddToRuns
<1> QED
  BY <1>1, <1>2 DEF AddToRuns

\* The runs after each value.
RunsAfter(f, xs, t) ==
  /\ f \in [0..Len(xs) -> Seq(Int)] /\ f[0] = <<>>
  /\ \A i \in 1..Len(xs) : f[i] = AddToRuns(f[i - 1], xs[i], t)

(* RunLengths is what the last of them is.                                  *)
LEMMA RunLengthsIs ==
  ASSUME NEW t \in Numeric, NEW xs \in Seq(Int)
  PROVE  \E f : RunsAfter(f, xs, t) /\ RunLengths(xs, t) = f[Len(xs)]
<1> DEFINE n == Len(xs)
           T == Seq(Int)
           step == [i \in 1..n |-> [out \in T |-> AddToRuns(out, xs[i], t)]]
           body(g) == [i \in 0..n |-> IF i = 0 THEN <<>> ELSE AddToRuns(g[i - 1], xs[i], t)]
           runs == CHOOSE g : g = body(g)
<1>1. n \in Nat /\ \A i \in 1..n : xs[i] \in Int
  OBVIOUS
<1>2. step \in [1..n -> [T -> T]]
  BY <1>1, AddToRunsType
<1>3. PICK f : Recursion(f, T, <<>>, n, step)
  <2> HIDE DEF step, n
  <2>1. <<>> \in T
    OBVIOUS
  <2> HIDE DEF T
  <2> QED BY <1>1, <1>2, <2>1, RecursiveFunction
<1>4. f \in [0..n -> T] /\ f[0] = <<>>
  BY <1>3 DEF Recursion
<1>5. ASSUME NEW i \in 1..n PROVE f[i] = AddToRuns(f[i - 1], xs[i], t)
  <2>1. f[i] = step[i][f[i - 1]]
    BY <1>3 DEF Recursion
  <2>2. f[i - 1] \in T
    BY <1>4, <1>1
  <2> QED BY <2>1, <2>2
<1>6. f = body(f)
  BY <1>4, <1>5, <1>1
<1>7. runs = body(runs)
  <2> HIDE DEF body
  <2> QED BY <1>6
<1>8. RunLengths(xs, t) = runs[n]
  BY DEF RunLengths
<1> HIDE DEF runs
<1>9. \A i \in 0..n : runs[i] = f[i]
  <2> DEFINE S == {i \in Nat : i <= n => runs[i] = f[i]}
  <2>1. 0 \in S
    BY <1>7, <1>4, <1>1
  <2>2. ASSUME NEW k \in Nat \ {0}, k - 1 \in S PROVE k \in S
    <3> SUFFICES ASSUME k <= n PROVE runs[k] = f[k]
      OBVIOUS
    <3>1. k \in 1..n /\ runs[k - 1] = f[k - 1]
      BY <2>2, <1>1
    <3>2. runs[k] = AddToRuns(runs[k - 1], xs[k], t)
      BY <1>7, <3>1
    <3> QED BY <3>1, <3>2, <1>5
  <2>3. Nat \subseteq S
    <3> HIDE DEF S
    <3> QED BY <2>1, <2>2, SetInduction
  <2> QED BY <2>3, <1>1
<1>10. RunsAfter(f, xs, t)
  BY <1>4, <1>5 DEF RunsAfter
<1>11. RunLengths(xs, t) = f[n]
  BY <1>1, <1>8, <1>9
<1> QED
  BY <1>10, <1>11

(* What is written stands for the values.                                   *)
LEMMA RunLengthsStand ==
  ASSUME NEW t \in Integral, NEW xs, Fits(xs, t)
  PROVE  StandsFor(RunLengths(xs, t), xs, t)
<1> DEFINE n == Len(xs)
           out == RunLengths(xs, t)
<1>1. t \in Numeric /\ t # "bytes"
  BY LargestIs
<1>2. xs \in Seq(Int) /\ n \in Nat /\ \A i \in 1..n : Within(xs[i], t)
  BY <1>1 DEF Fits
<1>3. PICK f : RunsAfter(f, xs, t) /\ out = f[n]
  BY <1>1, <1>2, RunLengthsIs
<1>4. f[0] = <<>> /\ \A i \in 1..n : f[i] = AddToRuns(f[i - 1], xs[i], t)
  BY <1>3 DEF RunsAfter
<1> HIDE DEF out
<1> DEFINE S == {i \in Nat : i <= n => StandsFor(f[i], SubSeq(xs, 1, i), t)}
<1>5. 0 \in S
  <2>1. SubSeq(xs, 1, 0) = <<>>
    BY <1>2
  <2>2. Pairs(<<>>, 0, t)
    BY DEF Pairs, Fits
  <2>3. FlattenSeq(RunsOf(<<>>)) = <<>>
    <3>1. RunsAre(<<>>, 0)
      BY <1>1, <2>2, PairsAre
    <3>2. RunsOf(<<>>) = <<>>
      BY <3>1 DEF RunsAre
    <3> QED BY <3>2 DEF FlattenSeq
  <2>4. StandsFor(<<>>, <<>>, t)
    BY <2>2, <2>3 DEF StandsFor
  <2> QED BY <2>1, <2>4, <1>4
<1>6. ASSUME NEW k \in Nat \ {0}, k - 1 \in S PROVE k \in S
  <2> SUFFICES ASSUME k <= n PROVE StandsFor(f[k], SubSeq(xs, 1, k), t)
    OBVIOUS
  <2> DEFINE ys == SubSeq(xs, 1, k - 1)
             o == f[k - 1]
             x == xs[k]
  <2>1. k \in 1..n /\ StandsFor(o, ys, t)
    BY <1>6, <1>2
  <2>2. ys \in Seq(Int) /\ Within(x, t) /\ f[k] = AddToRuns(o, x, t)
    BY <1>2, <1>4, <2>1
  <2>3. SubSeq(xs, 1, k) = ys \o <<x>>
    BY <1>2, <2>1
  <2> HIDE DEF ys, o, x
  <2>4. StandsFor(AddToRuns(o, x, t), ys \o <<x>>, t)
    BY <2>1, <2>2, AddToRunsAdds
  <2> QED BY <2>2, <2>3, <2>4
<1>7. Nat \subseteq S
  <2> HIDE DEF S
  <2> QED BY <1>5, <1>6, SetInduction
<1>8. StandsFor(out, xs, t)
  <2>1. SubSeq(xs, 1, n) = xs
    BY <1>2
  <2>2. StandsFor(f[n], SubSeq(xs, 1, n), t)
    BY <1>2, <1>7
  <2> QED BY <2>1, <2>2, <1>3
<1> QED
  BY <1>8 DEF out

(* Pairs are read as their runs.                                            *)
LEMMA PairsAreRead ==
  ASSUME NEW t \in Numeric, NEW k \in Nat, NEW out, Pairs(out, k, t)
  PROVE  RunsToValues(out) = FlattenSeq(RunsOf(out))
<1>1. RunsAre(out, k)
  BY PairsAre
<1>2. Len(out) % 2 = 0 /\ Len(out) \div 2 = k
  BY <1>1, HalfIs DEF RunsAre
<1>3. \A i \in 1..Len(out) \div 2 : out[2 * i] > 0 /\ out[2 * i] \in Int
  BY <1>1, <1>2 DEF RunsAre
<1>4. ~(Len(out) % 2 = 1 \/ \E i \in 1..Len(out) \div 2 : out[2 * i] <= 0)
  BY <1>2, <1>3
<1> QED
  BY <1>4 DEF RunsToValues, RunsOf

(* rle: the runs of the values, one after the other, are the values.        *)
LEMMA RunsRoundTrip ==
  ASSUME NEW t \in Integral, NEW xs, Fits(xs, t)
  PROVE  Fits(RunLengths(xs, t), t) /\ RunsToValues(RunLengths(xs, t)) = xs
<1>1. t \in Numeric
  BY LargestIs
<1>2. StandsFor(RunLengths(xs, t), xs, t)
  BY RunLengthsStand
<1> DEFINE out == RunLengths(xs, t)
<1> HIDE DEF out
<1>3. StandsFor(out, xs, t)
  BY <1>2 DEF out
<1>4. PICK k \in Nat : Pairs(out, k, t)
  BY <1>3 DEF StandsFor
<1>5. RunsToValues(out) = FlattenSeq(RunsOf(out))
  BY <1>1, <1>4, PairsAreRead
<1> QED
  BY <1>3, <1>4, <1>5 DEF StandsFor, Pairs, out

-----------------------------------------------------------------------------
(* The byte compressors and pcodec, by their frames                         *)

(* A block of a byte compressor or of pcodec is read as what is in it.      *)
LEMMA FrameRoundTrip ==
  ASSUME NEW id \in ByteCoders \cup {"pcodec"}, NEW xs \in Seq(Int)
  PROVE  Framed(id, xs) \in Seq(Int) /\ Unframed(id, Framed(id, xs)) = xs
<1> DEFINE tag == Tag(id)
           out == << tag, Len(xs) >> \o xs
<1>1. tag \in Int
  BY DEF Tag, ByteCoders
<1> HIDE DEF tag
<1>2. out \in Seq(Int) /\ Len(out) = 2 + Len(xs) /\ Len(xs) \in Nat
      /\ out[1] = tag /\ out[2] = Len(xs) /\ \A i \in 1..Len(xs) : out[i + 2] = xs[i]
  BY <1>1
<1>3. Framed(id, xs) = out
  BY DEF Framed, tag
<1> HIDE DEF out
<1>4. Unframed(id, out) = SubSeq(out, 3, Len(out))
  BY <1>2 DEF Unframed, tag
<1>5. SubSeq(out, 3, Len(out)) = xs
  <2> DEFINE s == SubSeq(out, 3, Len(out))
  <2>1. s \in Seq(Int) /\ Len(s) = Len(xs)
    BY <1>2
  <2>2. \A i \in 1..Len(s) : s[i] = xs[i]
    BY <1>2, <2>1
  <2> HIDE DEF s
  <2> QED BY <2>1, <2>2, SameSeq DEF s
<1> QED
  BY <1>2, <1>3, <1>4, <1>5

-----------------------------------------------------------------------------
(* leb128                                                                   *)

(* The place of a group is worth 2 to the bits that go before it.           *)
LEMMA PlaceIs ==
  /\ ByteBits - 1 \in Nat \ {0} /\ WordBits \in Nat
  /\ Group \in Nat \ {0} /\ Group >= 2
  /\ Place(1) = 1
  /\ \A i \in Nat \ {0} : /\ Place(i) \in Nat \ {0}
                          /\ Place(i + 1) = Place(i) * Group
                          /\ i * (ByteBits - 1) \in Nat
                          /\ Place(i + 1) = Pow(i * (ByteBits - 1))
<1> DEFINE g == ByteBits - 1
<1>1. g \in Nat \ {0} /\ g - 1 \in Nat /\ (g - 1) + 1 = g /\ WordBits \in Nat
  BY CodersAssumption
<1> HIDE DEF g
<1>2. Pow(g) = 2 * Pow(g - 1) /\ Pow(g - 1) \in Nat \ {0} /\ Pow(g) \in Nat \ {0}
  <2>1. Pow((g - 1) + 1) = 2 * Pow(g - 1) /\ Pow(g - 1) \in Nat \ {0}
    BY <1>1, PowIs
  <2>2. Pow((g - 1) + 1) = Pow(g)
    BY <1>1
  <2> QED BY <2>1, <2>2
<1>3. Group \in Nat \ {0} /\ Group >= 2 /\ Group = Pow(g)
  BY <1>2 DEF Group, g
<1>4. Place(1) = 1
  <2>1. g * (1 - 1) = 0
    BY <1>1
  <2>2. Pow(g * (1 - 1)) = 1
    BY <2>1, PowIs
  <2> QED BY <2>2 DEF Place, g
<1>5. ASSUME NEW i \in Nat \ {0}
      PROVE  /\ Place(i) \in Nat \ {0}
             /\ Place(i + 1) = Place(i) * Group
             /\ i * g \in Nat
             /\ Place(i + 1) = Pow(i * g)
  <2> DEFINE a == g * (i - 1)
             b == g * i
  <2>1. a \in Nat /\ b \in Nat /\ b = a + g /\ b = i * g /\ g * ((i + 1) - 1) = b
    <3>1. i - 1 \in Nat
      OBVIOUS
    <3>2. a \in Nat /\ b \in Nat
      BY <1>1, <3>1
    <3>3. b = a + g /\ b = i * g
      BY <1>1
    <3>4. (i + 1) - 1 = i
      OBVIOUS
    <3> QED BY <3>2, <3>3, <3>4
  <2> HIDE DEF a, b
  <2>2. Pow(a + g) = Pow(a) * Pow(g) /\ Pow(a) \in Nat \ {0}
    BY <2>1, <1>1, PowAdd, PowIs
  <2>3. Place(i) = Pow(a)
    BY DEF Place, a, g
  <2>4. Place(i + 1) = Pow(b)
    <3>1. Place(i + 1) = Pow(g * ((i + 1) - 1))
      BY DEF Place, g
    <3> QED BY <3>1, <2>1
  <2> QED BY <2>1, <2>2, <2>3, <2>4, <1>3
<1> QED
  BY <1>1, <1>3, <1>4, <1>5 DEF g

\* The n-th group of a number.
Cell(n, i) == (n \div Place(i)) % Group

(* The first i groups of a number are the first i - 1 and its cell i.       *)
LEMMA CellIs ==
  ASSUME NEW n \in Nat, NEW i \in Nat \ {0}
  PROVE  /\ Cell(n, i) \in 0..(Group - 1)
         /\ n % Place(i) \in Nat
         /\ n % Place(i + 1) = (n % Place(i)) + Cell(n, i) * Place(i)
<1> DEFINE p == Place(i)
           g == Group
           q == n \div p
           r == n % p
           s == q \div g
           c == q % g
<1>1. p \in Nat \ {0} /\ g \in Nat \ {0} /\ Place(i + 1) = p * g
  BY PlaceIs
<1> HIDE DEF p, g
<1>2. n = p * q + r /\ r \in 0..(p - 1) /\ q \in Int
  <2>1. p \in Nat \ {0} /\ n \in Int
    BY <1>1
  <2> QED BY <2>1, Division
<1> HIDE DEF q, r
<1>3. q = g * s + c /\ c \in 0..(g - 1) /\ s \in Int
  <2>1. g \in Nat \ {0} /\ q \in Int
    BY <1>1, <1>2
  <2> QED BY <2>1, Division
<1> HIDE DEF s, c
<1> DEFINE m == p * g
           z == r + c * p
<1>4. m \in Nat \ {0}
  BY <1>1
<1>5. n = m * s + z
  <2>1. p * q = p * (g * s) + p * c
    BY <1>1, <1>3
  <2>2. p * (g * s) = m * s /\ p * c = c * p
    BY <1>1, <1>3
  <2>3. p * q \in Int /\ m * s \in Int /\ c * p \in Int
    BY <1>1, <1>2, <1>3
  <2> HIDE DEF m
  <2> QED BY <1>2, <2>1, <2>2, <2>3
<1>6. z \in 0..(m - 1)
  <2>1. c * p <= (g - 1) * p
    BY <1>1, <1>3
  <2>2. (g - 1) * p = m - p /\ c * p >= 0 /\ c * p \in Int
    BY <1>1, <1>3
  <2> HIDE DEF m
  <2> QED BY <1>1, <1>2, <1>4, <2>1, <2>2
<1> HIDE DEF m, z
<1>7. n % m = z
  BY <1>3, <1>4, <1>5, <1>6, DivisionUnique
<1>8. Cell(n, i) = c /\ n % Place(i) = r
  BY DEF Cell, c, q, p, g, r
<1> QED
  BY <1>1, <1>2, <1>3, <1>7, <1>8 DEF m, z, p, g

\* The numbers that the first groups stand for.
PartsAre(f, groups) ==
  /\ f \in [0..Len(groups) -> Int] /\ f[0] = 0
  /\ \A i \in 1..Len(groups) : f[i] = f[i - 1] + (groups[i] % Group) * Place(i)

(* What leb128 reads is the sum over its groups, cut to a word.             *)
LEMMA LebNumberIs ==
  ASSUME NEW groups \in Seq(Int)
  PROVE  \E f : PartsAre(f, groups) /\ LebNumber(groups) = f[Len(groups)] % Pow(WordBits)
<1> DEFINE n == Len(groups)
           step == [i \in 1..n |-> [x \in Int |-> x + (groups[i] % Group) * Place(i)]]
           body(g) == [i \in 0..n |->
                         IF i = 0 THEN 0 ELSE g[i - 1] + (groups[i] % Group) * Place(i)]
           value == CHOOSE g : g = body(g)
<1>1. n \in Nat /\ \A i \in 1..n : groups[i] \in Int
  OBVIOUS
<1>2. step \in [1..n -> [Int -> Int]]
  <2> SUFFICES ASSUME NEW i \in 1..n, NEW x \in Int
               PROVE  x + (groups[i] % Group) * Place(i) \in Int
    OBVIOUS
  <2>1. groups[i] % Group \in Int
    <3>1. groups[i] \in Int /\ Group \in Nat \ {0}
      BY <1>1, PlaceIs
    <3> QED BY <3>1
  <2>2. Place(i) \in Int
    BY <1>1, PlaceIs
  <2> QED BY <2>1, <2>2
<1>3. PICK f : Recursion(f, Int, 0, n, step)
  <2> HIDE DEF step, n
  <2> DEFINE T == Int
  <2>1. step \in [1..n -> [T -> T]] /\ 0 \in T /\ n \in Nat
    BY <1>1, <1>2
  <2> HIDE DEF T
  <2>2. \E f : Recursion(f, T, 0, n, step)
    BY <2>1, RecursiveFunction
  <2> QED BY <2>2 DEF T
<1>4. f \in [0..n -> Int] /\ f[0] = 0
  BY <1>3 DEF Recursion
<1>5. ASSUME NEW i \in 1..n PROVE f[i] = f[i - 1] + (groups[i] % Group) * Place(i)
  <2>1. f[i] = step[i][f[i - 1]]
    BY <1>3 DEF Recursion
  <2>2. f[i - 1] \in Int
    BY <1>4, <1>1
  <2> QED BY <2>1, <2>2
<1>6. f = body(f)
  BY <1>4, <1>5, <1>1
<1>7. value = body(value)
  <2> HIDE DEF body
  <2> QED BY <1>6
<1>8. LebNumber(groups) = value[n] % Pow(WordBits)
  BY DEF LebNumber
<1> HIDE DEF value
<1>9. \A i \in 0..n : value[i] = f[i]
  <2> DEFINE S == {i \in Nat : i <= n => value[i] = f[i]}
  <2>1. 0 \in S
    BY <1>7, <1>4, <1>1
  <2>2. ASSUME NEW k \in Nat \ {0}, k - 1 \in S PROVE k \in S
    <3> SUFFICES ASSUME k <= n PROVE value[k] = f[k]
      OBVIOUS
    <3>1. k \in 1..n /\ value[k - 1] = f[k - 1]
      BY <2>2, <1>1
    <3>2. value[k] = value[k - 1] + (groups[k] % Group) * Place(k)
      BY <1>7, <3>1
    <3> QED BY <3>1, <3>2, <1>5
  <2>3. Nat \subseteq S
    <3> HIDE DEF S
    <3> QED BY <2>1, <2>2, SetInduction
  <2> QED BY <2>3, <1>1
<1>10. PartsAre(f, groups)
  BY <1>4, <1>5 DEF PartsAre
<1>11. LebNumber(groups) = f[n] % Pow(WordBits)
  BY <1>1, <1>8, <1>9
<1> QED
  BY <1>10, <1>11

\* The numbers that a coder of words can take.
Words == 0..(Pow(WordBits) - 1)

\* How many groups a number takes.
LebLength(n) == CHOOSE k \in 1..WordBits : n < Place(k + 1) /\ (k = 1 \/ n >= Place(k))

(* leb128 writes as many groups as the number needs, and at least one.      *)
LEMMA LebLengthIs ==
  ASSUME NEW n \in Words
  PROVE  /\ LebLength(n) \in Nat \ {0} /\ n < Place(LebLength(n) + 1)
         /\ LebLength(n) = 1 \/ n >= Place(LebLength(n))
<1> DEFINE W == WordBits
           g == ByteBits - 1
           T == {k \in Nat \ {0} : n < Place(k + 1)}
           Shortest(k) == n < Place(k + 1) /\ (k = 1 \/ n >= Place(k))
<1>1. W \in Nat \ {0} /\ g \in Nat \ {0} /\ W * g \in Nat /\ Place(W + 1) = Pow(W * g)
  BY PlaceIs, CodersAssumption
<1>2. n \in Nat /\ n < Pow(W) /\ Pow(W) \in Nat
  BY PowIs, <1>1 DEF Words
<1> HIDE DEF W, g
<1>3. W <= W * g
  BY <1>1
<1>4. Pow(W) <= Pow(W * g) /\ Pow(W * g) \in Nat
  BY <1>1, <1>3, PowGrows, PowIs
<1>5. W \in T
  BY <1>1, <1>2, <1>4
<1>6. PICK k \in T : \A j \in T : k <= j
  <2>1. T \subseteq Nat /\ T # {}
    BY <1>5
  <2> HIDE DEF T
  <2> QED BY <2>1, LeastNatural
<1>7. k \in Nat \ {0} /\ n < Place(k + 1) /\ k <= W
  BY <1>5, <1>6
<1>8. k \in 1..W
  BY <1>1, <1>7
<1>9. k = 1 \/ n >= Place(k)
  <2> SUFFICES ASSUME k # 1, n < Place(k) PROVE FALSE
    <3>1. Place(k) \in Nat
      BY <1>7, PlaceIs
    <3> QED BY <3>1, <1>2
  <2>1. k - 1 \in Nat \ {0} /\ (k - 1) + 1 = k
    BY <1>7
  <2>2. k - 1 \in T
    BY <2>1
  <2>3. k <= k - 1
    BY <2>2, <1>6
  <2> QED BY <2>3, <1>7
<1>10. Shortest(k)
  BY <1>7, <1>9
<1>11. LebLength(n) = CHOOSE j \in 1..W : Shortest(j)
  BY DEF LebLength, W
<1> HIDE DEF Shortest
<1>12. LebLength(n) \in 1..W /\ Shortest(LebLength(n))
  BY <1>8, <1>10, <1>11
<1> QED
  BY <1>1, <1>12 DEF Shortest

\* What the bytes of a number are: all but the last say that another follows.
LebCells(bytes, n, k) ==
  /\ bytes \in Seq(Int) /\ Len(bytes) = k
  /\ \A i \in 1..(k - 1) : bytes[i] >= Group /\ i * (ByteBits - 1) < WordBits
  /\ bytes[k] \in 0..(Group - 1)
  /\ LebNumber(bytes) = n

(* All groups but the last say that another one follows.                    *)
LEMMA LebBytesAre ==
  ASSUME NEW n \in Words
  PROVE  LebCells(LebBytes(n), n, LebLength(n)) /\ LebLength(n) \in Nat \ {0}
<1> DEFINE k == LebLength(n)
           G == Group
           bytes == LebBytes(n)
<1>1. k \in Nat \ {0} /\ n < Place(k + 1) /\ (k = 1 \/ n >= Place(k))
  BY LebLengthIs
<1>2. G \in Nat \ {0} /\ G >= 2 /\ G = Group
  BY PlaceIs
<1>3. n \in Nat /\ n < Pow(WordBits) /\ Pow(WordBits) \in Nat \ {0}
  BY PowIs, CodersAssumption DEF Words
<1>4. bytes = [i \in 1..k |-> Cell(n, i) + (IF i < k THEN G ELSE 0)]
  BY DEF LebBytes, LebLength, Cell
<1> HIDE DEF k, G, bytes
<1>5. ASSUME NEW i \in 1..k
      PROVE  /\ Cell(n, i) \in 0..(G - 1)
             /\ bytes[i] = Cell(n, i) + (IF i < k THEN G ELSE 0)
             /\ bytes[i] \in Int /\ bytes[i] % G = Cell(n, i)
  <2>1. Cell(n, i) \in 0..(G - 1)
    <3>1. i \in Nat \ {0}
      BY <1>1
    <3>2. Cell(n, i) \in 0..(Group - 1)
      BY <3>1, <1>3, CellIs
    <3> QED BY <3>2, <1>2
  <2>2. bytes[i] = Cell(n, i) + (IF i < k THEN G ELSE 0)
    BY <1>4
  <2> DEFINE c == Cell(n, i)
             b == bytes[i]
  <2> HIDE DEF c, b
  <2>3. c \in 0..(G - 1) /\ (b = c \/ b = c + G)
    BY <2>1, <2>2, <1>2 DEF c, b
  <2>4. b \in Int /\ (b = G * 0 + c \/ b = G * 1 + c)
    BY <2>3, <1>2
  <2>5. b % G = c
    BY <2>3, <2>4, <1>2, DivisionUnique
  <2> QED BY <2>1, <2>2, <2>4, <2>5 DEF c, b
<1>6. bytes \in Seq(Int) /\ Len(bytes) = k
  <2>1. bytes = [i \in 1..k |-> bytes[i]]
    BY <1>4
  <2> QED BY <2>1, <1>1, <1>5
<1>7. ASSUME NEW i \in 1..(k - 1) PROVE bytes[i] >= G /\ i * (ByteBits - 1) < WordBits
  <2>1. i \in 1..k /\ i < k /\ i \in Nat \ {0}
    BY <1>1
  <2>2. bytes[i] >= G
    BY <2>1, <1>2, <1>5
  <2> DEFINE a == i * (ByteBits - 1)
             b == (k - 1) * (ByteBits - 1)
  <2>3. k - 1 \in Nat \ {0} /\ (k - 1) + 1 = k /\ i <= k - 1
    BY <2>1, <1>1
  <2>4. Place((k - 1) + 1) = Pow(b) /\ b \in Nat /\ a \in Nat
    BY <2>1, <2>3, PlaceIs
  <2>5. n >= Pow(b)
    <3>1. k # 1
      BY <2>1
    <3> QED BY <3>1, <1>1, <2>3, <2>4
  <2>6. a <= b
    <3> DEFINE g == ByteBits - 1
    <3>1. g \in Nat
      BY PlaceIs
    <3> HIDE DEF g
    <3>2. i * g <= (k - 1) * g
      BY <2>1, <2>3, <3>1
    <3> QED BY <3>2 DEF g
  <2> HIDE DEF a, b
  <2>7. a < WordBits
    <3> SUFFICES ASSUME ~(a < WordBits) PROVE FALSE
      OBVIOUS
    <3>1. WordBits \in Nat /\ WordBits <= b
      BY <2>4, <2>6, CodersAssumption
    <3>2. Pow(WordBits) <= Pow(b) /\ Pow(b) \in Nat
      BY <3>1, <2>4, PowGrows, PowIs
    <3> QED BY <3>2, <2>5, <1>3
  <2> QED BY <2>2, <2>7 DEF a
<1>8. bytes[k] \in 0..(G - 1)
  <2>1. k \in 1..k
    BY <1>1
  <2> QED BY <2>1, <1>5
<1>9. LebNumber(bytes) = n
  <2>1. PICK f : PartsAre(f, bytes) /\ LebNumber(bytes) = f[Len(bytes)] % Pow(WordBits)
    BY <1>6, LebNumberIs
  <2>2. f[0] = 0 /\ \A i \in 1..k : f[i] = f[i - 1] + (bytes[i] % G) * Place(i)
    BY <2>1, <1>2, <1>6 DEF PartsAre
  <2> DEFINE S == {i \in Nat : i <= k => f[i] = n % Place(i + 1)}
  <2>3. 0 \in S
    <3>1. n % 1 = 0
      BY <1>3, Division
    <3>2. n % Place(0 + 1) = 0
      BY <3>1, PlaceIs
    <3> QED BY <3>2, <2>2
  <2>4. ASSUME NEW j \in Nat \ {0}, j - 1 \in S PROVE j \in S
    <3> SUFFICES ASSUME j <= k PROVE f[j] = n % Place(j + 1)
      OBVIOUS
    <3>1. j \in 1..k /\ (j - 1) + 1 = j
      OBVIOUS
    <3>2. f[j - 1] = n % Place(j)
      BY <2>4, <3>1, <1>1
    <3>3. f[j] = f[j - 1] + Cell(n, j) * Place(j)
      BY <3>1, <2>2, <1>5
    <3>4. n % Place(j + 1) = (n % Place(j)) + Cell(n, j) * Place(j)
      BY <1>3, CellIs
    <3> QED BY <3>2, <3>3, <3>4
  <2>5. Nat \subseteq S
    <3> HIDE DEF S
    <3> QED BY <2>3, <2>4, SetInduction
  <2>6. f[k] = n % Place(k + 1)
    BY <2>5, <1>1
  <2>7. n % Place(k + 1) = n
    <3> DEFINE p == Place(k + 1)
    <3>1. k + 1 \in Nat \ {0}
      BY <1>1
    <3>2. p \in Nat \ {0} /\ n < p /\ n = p * 0 + n
      BY <1>1, <1>3, <3>1, PlaceIs
    <3> HIDE DEF p
    <3>3. n % p = n
      BY <3>2, <1>3
    <3> QED BY <3>3 DEF p
  <2>8. n % Pow(WordBits) = n
    <3> DEFINE p == Pow(WordBits)
    <3> HIDE DEF p
    <3>1. p \in Nat \ {0} /\ n < p
      BY <1>3 DEF p
    <3>2. n % p = n
      BY <3>1, <1>3
    <3> QED BY <3>2 DEF p
  <2> QED BY <2>1, <2>6, <2>7, <2>8, <1>6
<1>10. LebCells(bytes, n, k)
  BY <1>2, <1>6, <1>7, <1>8, <1>9 DEF LebCells
<1> QED
  BY <1>1, <1>10 DEF bytes, k

\* What leb128 writes for a value, and the value it reads from that.
Coded(x, t) == IF t \in Signed THEN ZigZag(x) ELSE x
Decoded(u, t) == IF t \in Signed THEN UnZigZag(u) ELSE u

(* Zigzag maps the numbers of a signed type to natural numbers, and back.   *)
LEMMA ZigZagIs ==
  ASSUME NEW h \in Nat, NEW x \in Int, -h <= x, x < h
  PROVE  ZigZag(x) \in 0..(2 * h - 1) /\ UnZigZag(ZigZag(x)) = x
<1>1. CASE x >= 0
  <2>1. ZigZag(x) = 2 * x
    BY <1>1 DEF ZigZag
  <2>2. (2 * x) % 2 = 0 /\ (2 * x) \div 2 = x
    BY <1>1
  <2> QED BY <1>1, <2>1, <2>2 DEF UnZigZag
<1>2. CASE x < 0
  <2> DEFINE u == -2 * x - 1
  <2>1. ZigZag(x) = u
    BY <1>2 DEF ZigZag
  <2>2. u = 2 * (-x - 1) + 1 /\ u + 1 = 2 * (-x) /\ u \in Int
    OBVIOUS
  <2>3. u % 2 = 1 /\ (u + 1) \div 2 = -x
    BY <2>2
  <2>4. UnZigZag(u) = -((u + 1) \div 2)
    BY <2>3 DEF UnZigZag
  <2>5. u \in 0..(2 * h - 1)
    BY <1>2
  <2> HIDE DEF u
  <2> QED BY <2>1, <2>3, <2>4, <2>5
<1> QED
  BY <1>1, <1>2

(* What leb128 writes for a value is a word, and stands for that value.     *)
LEMMA CodedIs ==
  ASSUME NEW t \in Integral, NEW x, Within(x, t)
  PROVE  Coded(x, t) \in Words /\ Decoded(Coded(x, t), t) = x /\ Coded(x, t) \in Int
<1> DEFINE h == Pow(Width[t] - 1)
           w == Width[t]
<1>1. t \in Numeric
  BY LargestIs
<1>2. /\ w \in Nat /\ w <= WordBits /\ h \in Nat
      /\ Count(t) = 2 * h /\ Count(t) = Pow(w)
      /\ Least(t) = (IF t \in Signed THEN -h ELSE 0)
  BY <1>1, CountIs DEF Count, Least
<1>3. x \in Int /\ Least(t) <= x /\ x < Least(t) + Count(t)
  BY DEF Within
<1>4. Pow(w) <= Pow(WordBits) /\ Pow(WordBits) \in Nat /\ Pow(w) \in Nat
  BY <1>2, PowGrows, PowIs, CodersAssumption
<1> HIDE DEF h, w
<1>5. CASE t \in Signed
  <2>1. -h <= x /\ x < h
    BY <1>2, <1>3, <1>5
  <2>2. ZigZag(x) \in 0..(2 * h - 1) /\ UnZigZag(ZigZag(x)) = x
    BY <1>2, <1>3, <2>1, ZigZagIs
  <2>3. ZigZag(x) \in Words
    <3> DEFINE z == ZigZag(x)
    <3>1. z \in 0..(2 * h - 1)
      BY <2>2
    <3> HIDE DEF z
    <3>2. z \in Words
      BY <3>1, <1>2, <1>4 DEF Words
    <3> QED BY <3>2 DEF z
  <2>4. Coded(x, t) = ZigZag(x) /\ Decoded(ZigZag(x), t) = UnZigZag(ZigZag(x))
    BY <1>5 DEF Coded, Decoded
  <2>5. ZigZag(x) \in Int
    BY <2>2, <1>2
  <2> QED BY <2>2, <2>3, <2>4, <2>5
<1>6. CASE t \notin Signed
  <2>1. Coded(x, t) = x /\ Decoded(x, t) = x
    BY <1>6 DEF Coded, Decoded
  <2>2. x \in Words
    BY <1>2, <1>3, <1>4, <1>6 DEF Words
  <2> QED BY <2>1, <2>2, <1>3
<1> QED
  BY <1>5, <1>6

\* What the reader of leb128 keeps: values, the groups of an open number, an error.
LebState == [out : Seq(Int), open : Seq(Int), bad : BOOLEAN]
LebStart == [out |-> <<>>, open |-> <<>>, bad |-> FALSE]

(* Reading one byte leads from a state of the reader to another.            *)
LEMMA ReadLebType ==
  ASSUME NEW s \in LebState, NEW b \in Int
  PROVE  ReadLeb(s, b) \in LebState
<1> DEFINE groups == Append(s.open, b)
           number == LebNumber(groups)
           long == s.bad \/ TooLong(groups)
<1>1. /\ groups \in Seq(Int) /\ s.out \in Seq(Int) /\ long \in BOOLEAN
      /\ s.bad \in BOOLEAN
      /\ s = [out |-> s.out, open |-> s.open, bad |-> s.bad]
  BY DEF LebState, TooLong
<1>2. number \in Int
  <2> HIDE DEF groups
  <2>1. PICK f : PartsAre(f, groups) /\ number = f[Len(groups)] % Pow(WordBits)
    BY <1>1, LebNumberIs
  <2>2. f[Len(groups)] \in Int
    <3>1. f \in [0..Len(groups) -> Int] /\ Len(groups) \in 0..Len(groups)
      BY <1>1, <2>1 DEF PartsAre
    <3> QED BY <3>1
  <2>3. Pow(WordBits) \in Nat \ {0}
    BY PowIs, CodersAssumption
  <2> QED BY <2>1, <2>2, <2>3
<1>3. ReadLeb(s, b) = IF b < Group THEN [s EXCEPT !.out = Append(s.out, number), !.open = <<>>]
                      ELSE [s EXCEPT !.open = groups, !.bad = long]
  BY DEF ReadLeb
<1> HIDE DEF groups, number, long
<1> DEFINE more == Append(s.out, number)
<1>4. more \in Seq(Int)
  BY <1>1, <1>2
<1>5. [s EXCEPT !.out = more, !.open = <<>>] \in LebState
  <2> HIDE DEF more
  <2>1. <<>> \in Seq(Int)
    OBVIOUS
  <2> QED BY <1>4, <2>1 DEF LebState
<1>6. [s EXCEPT !.open = groups, !.bad = long] \in LebState
  BY <1>1 DEF LebState
<1> QED
  BY <1>3, <1>5, <1>6

\* The states of the reader after each byte.
LebStates(f, bytes) ==
  /\ f \in [0..Len(bytes) -> LebState] /\ f[0] = LebStart
  /\ \A i \in 1..Len(bytes) : f[i] = ReadLeb(f[i - 1], bytes[i])

\* What is returned after the last.
LebValues(read, t) == [i \in DOMAIN read.out |-> Decoded(read.out[i], t)]
\* What is read in the end.
LebResult(read, t) ==
  IF \/ read.open # <<>> \/ read.bad
     \/ \E i \in DOMAIN LebValues(read, t) : ~InRange(LebValues(read, t)[i], t)
  THEN Fail ELSE LebValues(read, t)

(* Reading is a state after every byte.                                     *)
LEMMA FromLebIs ==
  ASSUME NEW bytes \in Seq(Int), NEW t
  PROVE  \E f : LebStates(f, bytes) /\ FromLeb(bytes, t) = LebResult(f[Len(bytes)], t)
<1> DEFINE n == Len(bytes)
           T == LebState
           start == LebStart
           step == [i \in 1..n |-> [s \in T |-> ReadLeb(s, bytes[i])]]
           body(g) == [i \in 0..n |-> IF i = 0 THEN start ELSE ReadLeb(g[i - 1], bytes[i])]
           state == CHOOSE g : g = body(g)
<1>1. n \in Nat /\ (\A i \in 1..n : bytes[i] \in Int) /\ start \in T
  BY DEF LebState, LebStart
<1>2. step \in [1..n -> [T -> T]]
  BY <1>1, ReadLebType
<1> HIDE DEF start
<1>3. PICK f : Recursion(f, T, start, n, step)
  <2> HIDE DEF step, n, T
  <2> QED BY <1>1, <1>2, RecursiveFunction
<1>4. f \in [0..n -> T] /\ f[0] = start
  BY <1>3 DEF Recursion
<1>5. ASSUME NEW i \in 1..n PROVE f[i] = ReadLeb(f[i - 1], bytes[i])
  <2>1. f[i] = step[i][f[i - 1]]
    BY <1>3 DEF Recursion
  <2>2. f[i - 1] \in T
    BY <1>4, <1>1
  <2> QED BY <2>1, <2>2
<1>6. f = body(f)
  BY <1>4, <1>5, <1>1
<1>7. state = body(state)
  <2> HIDE DEF body
  <2> QED BY <1>6
<1>8. FromLeb(bytes, t) = LebResult(state[n], t)
  BY DEF FromLeb, LebResult, LebValues, Decoded, start, LebStart
<1> HIDE DEF state
<1>9. \A i \in 0..n : state[i] = f[i]
  <2> DEFINE S == {i \in Nat : i <= n => state[i] = f[i]}
  <2>1. 0 \in S
    BY <1>7, <1>4, <1>1
  <2>2. ASSUME NEW k \in Nat \ {0}, k - 1 \in S PROVE k \in S
    <3> SUFFICES ASSUME k <= n PROVE state[k] = f[k]
      OBVIOUS
    <3>1. k \in 1..n /\ state[k - 1] = f[k - 1]
      BY <2>2, <1>1
    <3>2. state[k] = ReadLeb(state[k - 1], bytes[k])
      BY <1>7, <3>1
    <3> QED BY <3>1, <3>2, <1>5
  <2>3. Nat \subseteq S
    <3> HIDE DEF S
    <3> QED BY <2>1, <2>2, SetInduction
  <2> QED BY <2>3, <1>1
<1>10. LebStates(f, bytes)
  BY <1>4, <1>5 DEF LebStates, start
<1>11. FromLeb(bytes, t) = LebResult(f[n], t)
  BY <1>1, <1>8, <1>9
<1> QED
  BY <1>10, <1>11

\* The bytes from p on are those of cells.
Holds(bytes, p, cells) ==
  /\ p \in Nat /\ p + Len(cells) <= Len(bytes)
  /\ \A j \in 1..Len(cells) : bytes[p + j] = cells[j]

\* A reader without an error.
Reading(out, open) == [out |-> out, open |-> open, bad |-> FALSE]

(* The bytes of a number are read as that number.                           *)
LEMMA NumberRead ==
  ASSUME NEW bytes \in Seq(Int), NEW f, LebStates(f, bytes),
         NEW p \in Nat, NEW cells, NEW n \in Nat, NEW k \in Nat \ {0}, LebCells(cells, n, k),
         Holds(bytes, p, cells), NEW out \in Seq(Int), f[p] = Reading(out, <<>>)
  PROVE  f[p + k] = Reading(Append(out, n), <<>>)
<1>1. /\ cells \in Seq(Int) /\ Len(cells) = k
      /\ \A i \in 1..(k - 1) : cells[i] >= Group /\ i * (ByteBits - 1) < WordBits
      /\ cells[k] \in 0..(Group - 1)
      /\ LebNumber(cells) = n
  BY DEF LebCells
<1>2. p + k <= Len(bytes) /\ \A j \in 1..k : bytes[p + j] = cells[j]
  BY <1>1 DEF Holds
<1>3. Group \in Nat \ {0} /\ ByteBits - 1 \in Nat /\ WordBits \in Nat
  BY PlaceIs
<1>4. ASSUME NEW j \in 1..k PROVE f[p + j] = ReadLeb(f[p + j - 1], cells[j])
  <2>1. p + j \in 1..Len(bytes) /\ bytes[p + j] = cells[j]
    BY <1>2
  <2> QED BY <2>1 DEF LebStates
<1> DEFINE S == {j \in Nat : j <= k - 1 => f[p + j] = Reading(out, SubSeq(cells, 1, j))}
<1>5. 0 \in S
  <2>1. SubSeq(cells, 1, 0) = <<>> /\ p + 0 = p
    BY <1>1
  <2> QED BY <2>1
<1>6. ASSUME NEW j \in Nat \ {0}, j - 1 \in S PROVE j \in S
  <2> SUFFICES ASSUME j <= k - 1 PROVE f[p + j] = Reading(out, SubSeq(cells, 1, j))
    OBVIOUS
  <2> DEFINE open == SubSeq(cells, 1, j - 1)
             b == cells[j]
             groups == SubSeq(cells, 1, j)
  <2>1. j \in 1..k /\ j \in 1..(k - 1) /\ p + j - 1 = p + (j - 1)
    OBVIOUS
  <2>2. f[p + j - 1] = Reading(out, open)
    BY <1>6, <2>1
  <2>3. Append(open, b) = groups /\ Len(groups) = j
    BY <1>1, <2>1
  <2>4. b >= Group /\ b \in Int
    BY <1>1, <2>1
  <2>5. ~(b < Group)
    BY <2>4, <1>3
  <2>6. ~TooLong(groups)
    <3>1. j * (ByteBits - 1) < WordBits /\ j * (ByteBits - 1) \in Int
      BY <1>1, <1>3, <2>1
    <3> QED BY <3>1, <2>3, <1>3 DEF TooLong
  <2> HIDE DEF open, b, groups
  <2>7. ReadLeb(Reading(out, open), b) = Reading(out, groups)
    BY <2>3, <2>5, <2>6 DEF ReadLeb, Reading
  <2>8. f[p + j] = ReadLeb(f[p + j - 1], b)
    BY <1>4, <2>1 DEF b
  <2> QED BY <2>2, <2>7, <2>8 DEF groups
<1>7. Nat \subseteq S
  <2> HIDE DEF S
  <2> QED BY <1>5, <1>6, SetInduction
<1> DEFINE open == SubSeq(cells, 1, k - 1)
           b == cells[k]
<1>8. f[p + k - 1] = Reading(out, open)
  <2>1. k - 1 \in Nat /\ p + k - 1 = p + (k - 1)
    OBVIOUS
  <2> QED BY <1>7, <2>1
<1>9. Append(open, b) = cells
  <2> DEFINE s == Append(open, b)
  <2>1. s \in Seq(Int) /\ Len(s) = k
    BY <1>1
  <2>2. ASSUME NEW i \in 1..k PROVE s[i] = cells[i]
    BY <1>1
  <2> HIDE DEF s
  <2>3. s = cells
    BY <1>1, <2>1, <2>2, SameSeq
  <2> QED BY <2>3 DEF s
<1>10. b < Group
  BY <1>1, <1>3
<1>11. k \in 1..k
  OBVIOUS
<1>12. f[p + k] = ReadLeb(f[p + k - 1], b)
  BY <1>4, <1>11
<1> HIDE DEF open, b
<1>13. ReadLeb(Reading(out, open), b) = Reading(Append(out, n), <<>>)
  <2>1. LebNumber(Append(open, b)) = n
    BY <1>1, <1>9
  <2> QED BY <1>10, <2>1 DEF ReadLeb, Reading
<1> QED
  BY <1>8, <1>12, <1>13

(* leb128 restores the values of any type of integers.                      *)
LEMMA LebRoundTrip ==
  ASSUME NEW t \in Integral, NEW xs, Fits(xs, t)
  PROVE  ToLeb(xs, t) \in Seq(Int) /\ FromLeb(ToLeb(xs, t), t) = xs
<1> DEFINE n == Len(xs)
           T == Seq(Int)
           ss == [i \in 1..n |-> LebBytes(Coded(xs[i], t))]
           us(m) == [i \in 1..m |-> Coded(xs[i], t)]
           bytes == FlattenSeq(ss)
<1>1. t \in Numeric /\ t # "bytes"
  BY LargestIs
<1>2. xs \in Seq(Int) /\ n \in Nat /\ DOMAIN xs = 1..n
      /\ \A i \in 1..n : xs[i] \in Int /\ Within(xs[i], t)
  BY <1>1 DEF Fits
<1>3. ASSUME NEW i \in 1..n
      PROVE  /\ Coded(xs[i], t) \in Words /\ Coded(xs[i], t) \in Int
             /\ Coded(xs[i], t) \in Nat
             /\ Decoded(Coded(xs[i], t), t) = xs[i]
             /\ LebCells(ss[i], Coded(xs[i], t), LebLength(Coded(xs[i], t)))
             /\ LebLength(Coded(xs[i], t)) \in Nat \ {0}
             /\ ss[i] \in Seq(Int)
  <2>1. Within(xs[i], t)
    BY <1>2
  <2>2. /\ Coded(xs[i], t) \in Words /\ Coded(xs[i], t) \in Int
        /\ Decoded(Coded(xs[i], t), t) = xs[i]
    BY <2>1, CodedIs
  <2> DEFINE u == Coded(xs[i], t)
  <2>3. ss[i] = LebBytes(u)
    OBVIOUS
  <2> HIDE DEF u, ss
  <2>4. u \in Words
    BY <2>2 DEF u
  <2>5. LebCells(LebBytes(u), u, LebLength(u)) /\ LebLength(u) \in Nat \ {0}
    BY <2>4, LebBytesAre
  <2>6. u \in Nat
    BY <2>4, PowIs, CodersAssumption DEF Words
  <2>7. ss[i] \in Seq(Int)
    BY <2>3, <2>5 DEF LebCells
  <2> QED BY <2>2, <2>3, <2>5, <2>6, <2>7 DEF u
<1>4. ss \in Seq(T) /\ Len(ss) = n
  <2>1. ss = [i \in 1..n |-> ss[i]]
    OBVIOUS
  <2> HIDE DEF ss
  <2> QED BY <2>1, <1>2, <1>3
<1>5. ToLeb(xs, t) = bytes
  BY <1>2 DEF ToLeb, Coded
<1> HIDE DEF ss
<1>6. bytes \in Seq(Int) /\ Len(bytes) \in Nat
  <2>1. bytes \in Seq(Int)
    BY <1>4, FlattenType
  <2> HIDE DEF bytes
  <2> QED BY <2>1
<1> HIDE DEF bytes
<1>7. PICK f : LebStates(f, bytes) /\ FromLeb(bytes, t) = LebResult(f[Len(bytes)], t)
  BY <1>6, FromLebIs
<1> DEFINE at(m) == Len(Flat(ss, m))
           S == {m \in Nat : m <= n => f[at(m)] = Reading(us(m), <<>>)}
<1>8. 0 \in S
  <2>1. Flat(ss, 0) = <<>>
    BY <1>4, FlatStep
  <2>2. at(0) = 0
    BY <2>1
  <2>3. f[0] = Reading(<<>>, <<>>)
    BY <1>7 DEF LebStates, LebStart, Reading
  <2>4. us(0) = <<>>
    OBVIOUS
  <2> HIDE DEF at, us
  <2> QED BY <2>2, <2>3, <2>4
<1>9. ASSUME NEW m \in Nat \ {0}, m - 1 \in S PROVE m \in S
  <2> SUFFICES ASSUME m <= n PROVE f[at(m)] = Reading(us(m), <<>>)
    OBVIOUS
  <2> DEFINE cells == ss[m]
             u == Coded(xs[m], t)
             k == LebLength(u)
             p == at(m - 1)
             out == us(m - 1)
  <2>1. m \in 1..n /\ m \in 1..Len(ss) /\ m - 1 \in Nat /\ m - 1 <= n
    BY <1>2, <1>4
  <2>2. LebCells(cells, u, k) /\ k \in Nat \ {0} /\ u \in Nat
    BY <2>1, <1>3
  <2>3. f[p] = Reading(out, <<>>)
    BY <1>9, <2>1
  <2>4. p \in Nat /\ Len(cells) \in Nat /\ at(m) = p + Len(cells)
    BY <1>4, <2>1, FlatStepLength
  <2>5. Holds(bytes, p, cells)
    <3>1. ASSUME NEW j \in 1..Len(cells)
          PROVE  p + j \in 1..Len(bytes) /\ bytes[p + j] = cells[j]
      BY <1>4, <2>1, FlatAt DEF bytes
    <3>2. p + Len(cells) <= Len(bytes)
      <4>1. CASE Len(cells) = 0
        <5>1. k \in 1..Len(cells)
          BY <2>2 DEF LebCells
        <5> QED BY <4>1, <5>1
      <4>2. CASE Len(cells) # 0
        <5>1. Len(cells) \in 1..Len(cells)
          BY <4>2, <2>4
        <5>2. p + Len(cells) \in 1..Len(bytes)
          BY <5>1, <3>1
        <5> DEFINE q == p + Len(cells)
                   l == Len(bytes)
        <5>3. q \in 1..l /\ l \in Nat
          BY <5>2, <1>6
        <5> HIDE DEF q, l
        <5>4. q <= l
          BY <5>3
        <5> QED BY <5>4 DEF q, l
      <4> QED BY <4>1, <4>2
    <3> HIDE DEF p, cells
    <3> QED BY <2>4, <3>1, <3>2 DEF Holds
  <2>6. out \in Seq(Int)
    <3>1. \A i \in 1..(m - 1) : Coded(xs[i], t) \in Int
      BY <2>1, <1>3
    <3> QED BY <2>1, <3>1
  <2>7. Append(out, u) = us(m)
    <3> DEFINE a == Append(out, u)
               b == us(m)
    <3>1. \A i \in 1..m : Coded(xs[i], t) \in Int
      BY <2>1, <1>3
    <3>2. b \in Seq(Int) /\ Len(b) = m
      BY <3>1
    <3>3. a \in Seq(Int) /\ Len(a) = m
      BY <2>6, <2>2
    <3>4. ASSUME NEW i \in 1..m PROVE a[i] = b[i]
      BY <2>6, <2>2
    <3> HIDE DEF a, b
    <3>5. a = b
      BY <3>2, <3>3, <3>4, SameSeq
    <3> QED BY <3>5 DEF a, b
  <2>8. Len(cells) = k
    BY <2>2 DEF LebCells
  <2> HIDE DEF cells, u, k, p, out
  <2>9. f[p + k] = Reading(Append(out, u), <<>>)
    BY <1>6, <1>7, <2>2, <2>3, <2>4, <2>5, <2>6, NumberRead
  <2>10. Append(out, u) = us(m)
    BY <2>7
  <2> HIDE DEF at, us
  <2> QED BY <2>4, <2>8, <2>9, <2>10
<1>10. Nat \subseteq S
  <2> HIDE DEF S
  <2> QED BY <1>8, <1>9, SetInduction
<1>11. f[Len(bytes)] = Reading(us(n), <<>>)
  <2>1. bytes = Flat(ss, n)
    BY <1>4, FlatWhole DEF bytes
  <2> QED BY <2>1, <1>10, <1>2
<1> DEFINE read == Reading(us(n), <<>>)
           values == LebValues(read, t)
<1>12. values = [i \in 1..n |-> Decoded(us(n)[i], t)]
  BY DEF LebValues, Reading
<1>13. \A i \in 1..n : values[i] = xs[i]
  BY <1>12, <1>3
<1>14. values = xs
  <2>1. xs = [i \in 1..n |-> xs[i]]
    BY <1>2
  <2>2. values = [i \in 1..n |-> values[i]]
    BY <1>12
  <2> HIDE DEF values
  <2> QED BY <2>1, <2>2, <1>13
<1>15. \A i \in 1..n : InRange(xs[i], t)
  BY <1>1, <1>2, InRangeIs
<1>16. LebResult(read, t) = values
  <2>1. read.open = <<>> /\ read.bad = FALSE
    BY DEF Reading
  <2>2. DOMAIN values = 1..n
    BY <1>12
  <2> HIDE DEF read, values, us
  <2>3. ~\E i \in DOMAIN values : ~InRange(values[i], t)
    BY <2>2, <1>13, <1>15
  <2> QED BY <2>1, <2>3 DEF LebResult, values
<1> QED
  BY <1>5, <1>6, <1>7, <1>11, <1>14, <1>16

-----------------------------------------------------------------------------
(* Bits                                                                     *)

(* The bits of any number are bits.                                         *)
LEMMA BitsOfAny ==
  ASSUME NEW n \in Int, NEW c \in Nat
  PROVE  Bits(n, c) \in Seq({0, 1}) /\ Bits(n, c) \in Seq(Int) /\ Len(Bits(n, c)) = c
         /\ \A i \in 1..c : Bits(n, c)[i] = (n \div Pow(c - i)) % 2
<1>1. ASSUME NEW i \in 1..c PROVE (n \div Pow(c - i)) % 2 \in {0, 1}
  <2>1. c - i \in Nat
    OBVIOUS
  <2> DEFINE p == Pow(c - i)
  <2>2. p \in Nat \ {0}
    BY <2>1, PowIs
  <2> HIDE DEF p
  <2>3. n \div p \in Int
    BY <2>2
  <2> QED BY <2>3 DEF p
<1> DEFINE f == [i \in 1..c |-> (n \div Pow(c - i)) % 2]
<1>2. \A i \in 1..c : f[i] \in {0, 1} /\ f[i] \in Int
  BY <1>1
<1>3. f \in Seq({0, 1}) /\ f \in Seq(Int) /\ Len(f) = c
  BY <1>2
<1> QED
  BY <1>3 DEF Bits

(* The c lowest bits of a number, the highest first.                        *)
LEMMA BitsAre ==
  ASSUME NEW n \in Nat, NEW c \in Nat
  PROVE  Bits(n, c) \in Seq({0, 1}) /\ Bits(n, c) \in Seq(Int) /\ Len(Bits(n, c)) = c
         /\ \A i \in 1..c : Bits(n, c)[i] = (n \div Pow(c - i)) % 2
<1>1. n \in Int
  OBVIOUS
<1> QED
  BY <1>1, BitsOfAny

\* The numbers that the first bits stand for.
HighAre(f, bits) ==
  /\ f \in [0..Len(bits) -> Nat] /\ f[0] = 0
  /\ \A i \in 1..Len(bits) : f[i] = 2 * f[i - 1] + bits[i]

(* Bits are read as a number bit after bit.                                 *)
LEMMA NumberIs ==
  ASSUME NEW bits \in Seq({0, 1})
  PROVE  \E f : HighAre(f, bits) /\ Number(bits) = f[Len(bits)]
<1> DEFINE n == Len(bits)
           T == Nat
           step == [i \in 1..n |-> [x \in T |-> 2 * x + bits[i]]]
           body(g) == [i \in 0..n |-> IF i = 0 THEN 0 ELSE 2 * g[i - 1] + bits[i]]
           high == CHOOSE g : g = body(g)
<1>1. n \in Nat /\ (\A i \in 1..n : bits[i] \in {0, 1}) /\ 0 \in T
  OBVIOUS
<1>2. step \in [1..n -> [T -> T]]
  BY <1>1
<1>3. PICK f : Recursion(f, T, 0, n, step)
  <2> HIDE DEF step, n, T
  <2> QED BY <1>1, <1>2, RecursiveFunction
<1>4. f \in [0..n -> T] /\ f[0] = 0
  BY <1>3 DEF Recursion
<1>5. ASSUME NEW i \in 1..n PROVE f[i] = 2 * f[i - 1] + bits[i]
  <2>1. f[i] = step[i][f[i - 1]]
    BY <1>3 DEF Recursion
  <2>2. f[i - 1] \in T
    BY <1>4, <1>1
  <2> QED BY <2>1, <2>2
<1>6. f = body(f)
  BY <1>4, <1>5, <1>1
<1>7. high = body(high)
  <2> HIDE DEF body
  <2> QED BY <1>6
<1>8. Number(bits) = high[n]
  BY DEF Number
<1> HIDE DEF high
<1>9. \A i \in 0..n : high[i] = f[i]
  <2> DEFINE S == {i \in Nat : i <= n => high[i] = f[i]}
  <2>1. 0 \in S
    BY <1>7, <1>4, <1>1
  <2>2. ASSUME NEW k \in Nat \ {0}, k - 1 \in S PROVE k \in S
    <3> SUFFICES ASSUME k <= n PROVE high[k] = f[k]
      OBVIOUS
    <3>1. k \in 1..n /\ high[k - 1] = f[k - 1]
      BY <2>2, <1>1
    <3>2. high[k] = 2 * high[k - 1] + bits[k]
      BY <1>7, <3>1
    <3> QED BY <3>1, <3>2, <1>5
  <2>3. Nat \subseteq S
    <3> HIDE DEF S
    <3> QED BY <2>1, <2>2, SetInduction
  <2> QED BY <2>3, <1>1
<1>10. HighAre(f, bits)
  BY <1>4, <1>5 DEF HighAre
<1>11. Number(bits) = f[n]
  BY <1>1, <1>8, <1>9
<1> QED
  BY <1>10, <1>11

\* n has at most c bits.
FitsIn(n, c) == n \in 0..(Pow(c) - 1)

(* The bits of a number are that number.                                    *)
LEMMA NumberOfBits ==
  ASSUME NEW c \in Nat, NEW n, FitsIn(n, c)
  PROVE  Number(Bits(n, c)) = n
<1> DEFINE bits == Bits(n, c)
<1>1. n \in Nat /\ n < Pow(c) /\ Pow(c) \in Nat \ {0}
  BY PowIs DEF FitsIn
<1>2. bits \in Seq({0, 1}) /\ Len(bits) = c /\ \A i \in 1..c : bits[i] = (n \div Pow(c - i)) % 2
  BY <1>1, BitsAre
<1> HIDE DEF bits
<1>3. PICK f : HighAre(f, bits) /\ Number(bits) = f[Len(bits)]
  BY <1>2, NumberIs
<1>4. f[0] = 0 /\ \A i \in 1..c : f[i] = 2 * f[i - 1] + bits[i]
  BY <1>2, <1>3 DEF HighAre
<1> DEFINE S == {i \in Nat : i <= c => f[i] = n \div Pow(c - i)}
<1>5. 0 \in S
  <2> DEFINE p == Pow(c)
  <2>1. c - 0 = c
    OBVIOUS
  <2>2. n = p * 0 + n /\ n \in 0..(p - 1) /\ p \in Nat \ {0}
    BY <1>1
  <2> HIDE DEF p
  <2>3. n \div p = 0
    BY <2>2, <1>1
  <2> QED BY <2>1, <2>3, <1>4 DEF p
<1>6. ASSUME NEW k \in Nat \ {0}, k - 1 \in S PROVE k \in S
  <2> SUFFICES ASSUME k <= c PROVE f[k] = n \div Pow(c - k)
    OBVIOUS
  <2> DEFINE p == Pow(c - k)
             q == n \div p
  <2>1. k \in 1..c /\ c - k \in Nat /\ (c - k) + 1 = c - (k - 1)
    OBVIOUS
  <2>2. p \in Nat \ {0} /\ Pow((c - k) + 1) = 2 * p
    BY <2>1, PowIs
  <2>3. Pow(c - (k - 1)) = p * 2
    <3>1. Pow((c - k) + 1) = Pow(c - (k - 1))
      BY <2>1
    <3> HIDE DEF p
    <3> QED BY <2>2, <3>1
  <2>4. f[k - 1] = n \div Pow(c - (k - 1))
    BY <1>6, <2>1
  <2> HIDE DEF p
  <2>5. (n \div p) \div 2 = n \div (p * 2)
    <3>1. 2 \in Nat \ {0}
      OBVIOUS
    <3> QED BY <1>1, <2>2, <3>1, DivideTwice
  <2>6. q \in Int
    BY <1>1, <2>2
  <2>7. f[k - 1] = q \div 2 /\ bits[k] = q % 2
    BY <2>1, <2>3, <2>4, <2>5, <1>2 DEF p
  <2> HIDE DEF q
  <2>8. q = 2 * (q \div 2) + (q % 2)
    BY <2>6
  <2>9. f[k] = q
    BY <2>1, <2>7, <2>8, <1>4
  <2> QED BY <2>9 DEF q, p
<1>7. Nat \subseteq S
  <2> HIDE DEF S
  <2> QED BY <1>5, <1>6, SetInduction
<1>8. f[c] = n \div Pow(c - c)
  BY <1>7
<1>9. Pow(c - c) = 1
  <2>1. c - c = 0
    OBVIOUS
  <2> QED BY <2>1, PowIs
<1> QED
  BY <1>1, <1>2, <1>3, <1>8, <1>9 DEF bits

(* The number of bits has those bits, and no more.                          *)
LEMMA BitsOfNumber ==
  ASSUME NEW bits \in Seq({0, 1})
  PROVE  FitsIn(Number(bits), Len(bits)) /\ Bits(Number(bits), Len(bits)) = bits
<1> DEFINE c == Len(bits)
           N == Number(bits)
<1>1. c \in Nat /\ \A i \in 1..c : bits[i] \in {0, 1}
  OBVIOUS
<1>2. PICK f : HighAre(f, bits) /\ N = f[c]
  BY NumberIs
<1>3. f \in [0..c -> Nat] /\ f[0] = 0 /\ \A i \in 1..c : f[i] = 2 * f[i - 1] + bits[i]
  BY <1>2 DEF HighAre
<1> HIDE DEF c, N
<1> DEFINE S == {i \in Nat : i <= c => f[i] < Pow(i)}
<1>4. 0 \in S
  BY <1>3, PowIs
<1>5. ASSUME NEW k \in Nat \ {0}, k - 1 \in S PROVE k \in S
  <2> SUFFICES ASSUME k <= c PROVE f[k] < Pow(k)
    OBVIOUS
  <2>1. k - 1 \in Nat /\ (k - 1) + 1 = k /\ k \in 1..c /\ k - 1 \in 0..c
    BY <1>1
  <2>2. Pow((k - 1) + 1) = 2 * Pow(k - 1) /\ Pow(k - 1) \in Nat
    BY <2>1, PowIs
  <2>3. f[k - 1] < Pow(k - 1) /\ f[k - 1] \in Nat
    BY <1>5, <2>1, <1>3
  <2>4. f[k] = 2 * f[k - 1] + bits[k] /\ bits[k] \in {0, 1}
    BY <1>1, <1>3, <2>1
  <2>5. Pow(k) = 2 * Pow(k - 1)
    BY <2>1, <2>2
  <2> QED BY <2>2, <2>3, <2>4, <2>5
<1>6. Nat \subseteq S
  <2> HIDE DEF S
  <2> QED BY <1>4, <1>5, SetInduction
<1>7. FitsIn(N, c)
  <2>1. c \in 0..c /\ f[c] < Pow(c) /\ f[c] \in Nat /\ Pow(c) \in Nat
    BY <1>1, <1>3, <1>6, PowIs
  <2> QED BY <1>2, <2>1 DEF FitsIn
<1> DEFINE U == {j \in Nat : j <= c => N \div Pow(j) = f[c - j]}
<1>8. 0 \in U
  <2>1. N \in Nat /\ c - 0 = c
    BY <1>1, <1>2, <1>3
  <2>2. N \div 1 = N
    BY <2>1
  <2> QED BY <2>1, <2>2, <1>2, PowIs
<1>9. ASSUME NEW k \in Nat \ {0}, k - 1 \in U PROVE k \in U
  <2> SUFFICES ASSUME k <= c PROVE N \div Pow(k) = f[c - k]
    OBVIOUS
  <2> DEFINE p == Pow(k - 1)
             i == c - (k - 1)
  <2>1. k - 1 \in Nat /\ (k - 1) + 1 = k /\ i \in 1..c /\ i - 1 = c - k /\ i - 1 \in 0..c
    BY <1>1
  <2>2. N \div p = f[i]
    <3>1. k - 1 <= c
      BY <1>1
    <3>2. N \div Pow(k - 1) = f[c - (k - 1)]
      BY <1>9, <3>1
    <3> QED BY <3>2
  <2>3. p \in Nat \ {0} /\ Pow(k) = p * 2
    <3>1. Pow((k - 1) + 1) = 2 * p /\ p \in Nat \ {0}
      BY <2>1, PowIs
    <3>2. Pow((k - 1) + 1) = Pow(k)
      BY <2>1
    <3> HIDE DEF p
    <3> QED BY <3>1, <3>2
  <2>4. N \in Nat /\ f[i - 1] \in Nat
    BY <1>1, <1>2, <1>3, <2>1
  <2>5. f[i] = 2 * f[i - 1] + bits[i] /\ bits[i] \in {0, 1}
    BY <1>1, <1>3, <2>1
  <2> HIDE DEF p, i
  <2>6. (N \div p) \div 2 = N \div (p * 2)
    <3>1. 2 \in Nat \ {0}
      OBVIOUS
    <3> QED BY <2>3, <2>4, <3>1, DivideTwice
  <2>7. f[i] \div 2 = f[i - 1]
    <3> DEFINE a == f[i - 1]
               b == bits[i]
    <3>1. a \in Nat /\ b \in {0, 1}
      BY <2>4, <2>5
    <3> HIDE DEF a, b
    <3>2. (2 * a + b) \div 2 = a
      BY <3>1
    <3> QED BY <3>2, <2>5 DEF a, b
  <2> QED BY <2>1, <2>2, <2>3, <2>6, <2>7
<1>10. Nat \subseteq U
  <2> HIDE DEF U
  <2> QED BY <1>8, <1>9, SetInduction
<1>11. ASSUME NEW i \in 1..c PROVE (N \div Pow(c - i)) % 2 = bits[i]
  <2>1. c - i \in Nat /\ c - i <= c /\ c - (c - i) = i /\ i - 1 \in 0..c
    BY <1>1
  <2>2. N \div Pow(c - i) = f[i]
    BY <1>10, <2>1
  <2> DEFINE a == f[i - 1]
             b == bits[i]
  <2>3. f[i] = 2 * a + b /\ a \in Nat /\ b \in {0, 1}
    BY <1>1, <1>3, <2>1
  <2> HIDE DEF a, b
  <2>4. (2 * a + b) % 2 = b
    BY <2>3
  <2> QED BY <2>2, <2>3, <2>4 DEF b
<1>12. Bits(N, c) = bits
  <2> DEFINE g == Bits(N, c)
  <2>1. N \in Nat
    BY <1>7, PowIs, <1>1 DEF FitsIn
  <2>2. g \in Seq({0, 1}) /\ Len(g) = c /\ \A i \in 1..c : g[i] = (N \div Pow(c - i)) % 2
    BY <1>1, <2>1, BitsAre
  <2> HIDE DEF g
  <2>3. \A i \in 1..c : g[i] = bits[i]
    BY <2>2, <1>11
  <2>4. Len(bits) = c
    BY DEF c
  <2>5. g = bits
    BY <2>2, <2>3, <2>4, SameSeq
  <2> QED BY <2>5 DEF g
<1> QED
  BY <1>7, <1>12 DEF N, c

-----------------------------------------------------------------------------
(* Bytes                                                                    *)

(* A quotient that is rounded up.                                           *)
LEMMA CeilDivIs ==
  ASSUME NEW a \in Nat, NEW b \in Nat \ {0}
  PROVE  /\ CeilDiv(a, b) \in Nat
         /\ a <= CeilDiv(a, b) * b /\ CeilDiv(a, b) * b < a + b
<1> DEFINE n == a + b - 1
           q == n \div b
           r == n % b
<1>1. n \in Nat /\ n \in Int
  OBVIOUS
<1> HIDE DEF n
<1>2. n = b * q + r /\ r \in 0..(b - 1) /\ q \in Int
  BY <1>1, Division
<1>3. CeilDiv(a, b) = q
  BY DEF CeilDiv, n
<1> HIDE DEF q, r
<1> DEFINE m == b * q
<1>4. m \in Int /\ q * b = m
  BY <1>2
<1>5. q >= 0
  <2> SUFFICES ASSUME q <= -1 PROVE FALSE
    BY <1>2
  <2>1. b * q <= -b
    BY <1>2
  <2> QED BY <1>1, <1>2, <2>1
<1> HIDE DEF m
<1>6. n = m + r
  BY <1>2 DEF m
<1>7. a <= m /\ m < a + b
  BY <1>2, <1>4, <1>6 DEF n
<1> QED
  BY <1>2, <1>3, <1>4, <1>5, <1>7

\* All of the sequences have length w, and are found w apart.
Regular(ss, w) ==
  /\ Len(FlattenSeq(ss)) = Len(ss) * w
  /\ \A i \in 1..Len(ss) : \A j \in 1..w :
       /\ (i - 1) * w + j \in 1..Len(FlattenSeq(ss))
       /\ FlattenSeq(ss)[(i - 1) * w + j] = ss[i][j]

(* The place of an element in sequences of one length that are joined.      *)
LEMMA RegularFlat ==
  ASSUME NEW T, NEW ss \in Seq(Seq(T)), NEW w \in Nat, \A i \in 1..Len(ss) : Len(ss[i]) = w
  PROVE  Regular(ss, w)
<1> DEFINE n == Len(ss)
           at(k) == Len(Flat(ss, k))
           S == {k \in Nat : k <= n => at(k) = k * w}
<1>1. n \in Nat
  OBVIOUS
<1>2. 0 \in S
  <2>1. Flat(ss, 0) = <<>>
    BY FlatStep
  <2>2. at(0) = 0 /\ 0 * w = 0
    BY <2>1
  <2> QED BY <2>2
<1>3. ASSUME NEW k \in Nat \ {0}, k - 1 \in S PROVE k \in S
  <2> SUFFICES ASSUME k <= n PROVE at(k) = k * w
    OBVIOUS
  <2>1. k \in 1..Len(ss) /\ k - 1 \in Nat /\ k - 1 <= n
    BY <1>1
  <2>2. at(k - 1) \in Nat /\ at(k) = at(k - 1) + w
    BY <2>1, FlatStepLength
  <2>3. at(k - 1) = (k - 1) * w
    BY <1>3, <2>1
  <2> HIDE DEF at
  <2>4. (k - 1) * w + w = k * w
    BY <2>1
  <2> QED BY <2>2, <2>3, <2>4
<1>4. Nat \subseteq S
  <2> HIDE DEF S
  <2> QED BY <1>2, <1>3, SetInduction
<1>5. \A k \in 0..n : at(k) = k * w
  <2> HIDE DEF at
  <2> QED BY <1>1, <1>4
<1>6. Len(FlattenSeq(ss)) = n * w
  <2>1. Flat(ss, n) = FlattenSeq(ss)
    BY FlatWhole
  <2>2. at(n) = n * w
    BY <1>1, <1>5
  <2> QED BY <2>1, <2>2
<1>7. ASSUME NEW i \in 1..n, NEW j \in 1..w
      PROVE  /\ (i - 1) * w + j \in 1..Len(FlattenSeq(ss))
             /\ FlattenSeq(ss)[(i - 1) * w + j] = ss[i][j]
  <2>1. i \in 1..Len(ss) /\ j \in 1..Len(ss[i]) /\ i - 1 \in 0..n
    BY <1>1
  <2>2. /\ at(i - 1) + j \in 1..Len(FlattenSeq(ss))
        /\ FlattenSeq(ss)[at(i - 1) + j] = ss[i][j]
    BY <2>1, FlatAt
  <2>3. at(i - 1) = (i - 1) * w
    BY <2>1, <1>5
  <2> HIDE DEF at
  <2> QED BY <2>2, <2>3
<1> QED
  BY <1>6, <1>7 DEF Regular

\* The place of the at-th bit: the j-th of the i-th byte.
LEMMA BitPlace ==
  ASSUME NEW at \in Nat \ {0}, NEW b \in Nat \ {0}, NEW n \in Nat, at <= n * b
  PROVE  \E i \in 1..n : \E j \in 1..b : at = (i - 1) * b + j
<1> DEFINE a == at - 1
           q == a \div b
           r == a % b
<1>1. a \in Nat /\ a \in Int /\ a < b * n
  BY n * b = b * n
<1>2. q \in 0..(n - 1)
  <2> HIDE DEF a
  <2> QED BY <1>1, QuotientBounds
<1>3. a = b * q + r /\ r \in 0..(b - 1) /\ q \in Int
  <2> HIDE DEF a
  <2> QED BY <1>1, Division
<1> HIDE DEF q, r
<1>4. at = ((q + 1) - 1) * b + (r + 1)
  <2>1. ((q + 1) - 1) * b = b * q
    BY <1>3
  <2> QED BY <1>3, <2>1
<1>5. q + 1 \in 1..n /\ r + 1 \in 1..b
  BY <1>2, <1>3
<1> QED
  BY <1>4, <1>5

\* out begins with the bits.
Restores(out, bits) ==
  /\ out \in Seq({0, 1}) /\ Len(bits) <= Len(out)
  /\ \A i \in 1..Len(bits) : out[i] = bits[i]

(* A byte holds the next bits; the last byte is filled up.                  *)
LEMMA ChunkIs ==
  ASSUME NEW bits \in Seq({0, 1}), NEW i \in Nat \ {0}
  PROVE  /\ Chunk(bits, i) \in Seq({0, 1}) /\ Len(Chunk(bits, i)) = ByteBits
         /\ \A j \in 1..ByteBits : (i - 1) * ByteBits + j <= Len(bits)
              => Chunk(bits, i)[j] = bits[(i - 1) * ByteBits + j]
<1>1. ByteBits \in Nat
  BY CodersAssumption
<1> DEFINE f == Chunk(bits, i)
<1>2. ASSUME NEW j \in 1..ByteBits
      PROVE  f[j] \in {0, 1} /\ ((i - 1) * ByteBits + j <= Len(bits)
                                   => f[j] = bits[(i - 1) * ByteBits + j])
  <2> DEFINE at == (i - 1) * ByteBits + j
  <2>1. at \in Nat \ {0}
    <3>1. i - 1 \in Nat
      OBVIOUS
    <3>2. (i - 1) * ByteBits \in Nat
      BY <1>1, <3>1
    <3> QED BY <3>2
  <2>2. f[j] = IF at <= Len(bits) THEN bits[at] ELSE 0
    BY DEF Chunk
  <2> HIDE DEF at, f
  <2>3. at <= Len(bits) => bits[at] \in {0, 1}
    BY <2>1
  <2> QED BY <2>2, <2>3 DEF at
<1>3. f = [j \in 1..ByteBits |-> f[j]]
  BY DEF Chunk
<1> HIDE DEF f
<1>4. f \in Seq({0, 1}) /\ Len(f) = ByteBits
  BY <1>1, <1>2, <1>3
<1> QED
  BY <1>2, <1>4 DEF f

(* The chunks, one after the other, begin with the bits.                    *)
LEMMA ChunksRestore ==
  ASSUME NEW bits \in Seq({0, 1}), NEW ss \in Seq(Seq({0, 1})),
         NEW n \in Nat, n = CeilDiv(Len(bits), ByteBits), Len(ss) = n,
         \A i \in 1..n : ss[i] = Chunk(bits, i)
  PROVE  Restores(FlattenSeq(ss), bits) /\ Len(FlattenSeq(ss)) = n * ByteBits
<1> DEFINE B == ByteBits
           out == FlattenSeq(ss)
           l == Len(bits)
<1>1. B \in Nat \ {0} /\ l \in Nat
  BY CodersAssumption
<1>2. l <= n * B
  BY <1>1, CeilDivIs
<1>3. ASSUME NEW i \in 1..n PROVE Len(ss[i]) = B
  BY ChunkIs
<1>4. Regular(ss, B)
  <2>1. \A i \in 1..Len(ss) : Len(ss[i]) = B
    BY <1>3
  <2> HIDE DEF B
  <2> QED BY <1>1, <2>1, RegularFlat
<1>5. out \in Seq({0, 1}) /\ Len(out) = n * B
  BY <1>4, FlattenType DEF Regular
<1>6. ASSUME NEW at \in 1..l PROVE out[at] = bits[at]
  <2>1. at \in Nat \ {0} /\ at <= n * B
    <3>1. n * B \in Nat
      BY <1>1
    <3> HIDE DEF B, l
    <3> QED BY <1>1, <1>2, <3>1
  <2>2. PICK i \in 1..n : \E j \in 1..B : at = (i - 1) * B + j
    <3> HIDE DEF B
    <3> QED BY <1>1, <2>1, BitPlace
  <2>3. PICK j \in 1..B : at = (i - 1) * B + j
    BY <2>2
  <2>4. out[at] = ss[i][j]
    BY <1>4, <2>3 DEF Regular
  <2>5. ss[i] = Chunk(bits, i) /\ i \in Nat \ {0}
    OBVIOUS
  <2>6. (i - 1) * B + j <= l
    BY <2>3
  <2>7. Chunk(bits, i)[j] = bits[(i - 1) * B + j]
    BY <2>5, <2>6, ChunkIs
  <2> QED BY <2>3, <2>4, <2>5, <2>7
<1> QED
  BY <1>2, <1>5, <1>6 DEF Restores

\* bytes hold the bits, and reading them as out gives the bits back.
HeldIn(bytes, out, bits) ==
  /\ bytes \in Seq(Int) /\ Len(bytes) = CeilDiv(Len(bits), ByteBits)
  /\ Restores(out, bits)

(* The highest bit first.                                                   *)
LEMMA BytesRestore ==
  ASSUME NEW bits \in Seq({0, 1})
  PROVE  HeldIn(ToBytes(bits), FromBytes(ToBytes(bits)), bits)
<1> DEFINE n == CeilDiv(Len(bits), ByteBits)
           bytes == [i \in 1..n |-> Number(Chunk(bits, i))]
           ss == [i \in 1..n |-> Bits(bytes[i], ByteBits)]
           T == Seq({0, 1})
<1>1. ByteBits \in Nat \ {0} /\ n \in Nat
  <2>1. ByteBits \in Nat \ {0} /\ Len(bits) \in Nat
    BY CodersAssumption
  <2> QED BY <2>1, CeilDivIs
<1> HIDE DEF n
<1>2. ASSUME NEW i \in 1..n
      PROVE  bytes[i] \in Int /\ ss[i] \in T /\ ss[i] = Chunk(bits, i)
  <2> DEFINE c == Chunk(bits, i)
             N == Number(c)
  <2>1. c \in Seq({0, 1}) /\ Len(c) = ByteBits
    BY <1>1, ChunkIs
  <2> HIDE DEF c
  <2>2. FitsIn(N, Len(c)) /\ Bits(N, Len(c)) = c
    BY <2>1, BitsOfNumber
  <2>3. N \in Int
    BY <2>2, <2>1, <1>1, PowIs DEF FitsIn
  <2>4. bytes[i] = N /\ ss[i] = Bits(N, ByteBits)
    BY DEF c
  <2> HIDE DEF bytes, ss, N
  <2> QED BY <2>1, <2>2, <2>3, <2>4 DEF c
<1>3. bytes \in Seq(Int) /\ Len(bytes) = n /\ DOMAIN bytes = 1..n
  <2>1. bytes = [i \in 1..n |-> bytes[i]]
    OBVIOUS
  <2> HIDE DEF bytes
  <2> QED BY <1>1, <1>2, <2>1
<1>4. ss \in Seq(T) /\ Len(ss) = n
  <2>1. ss = [i \in 1..n |-> ss[i]]
    OBVIOUS
  <2> HIDE DEF ss, T
  <2> QED BY <1>1, <1>2, <2>1
<1>5. ToBytes(bits) = bytes
  BY DEF ToBytes, n
<1>6. FromBytes(bytes) = FlattenSeq(ss)
  BY <1>3 DEF FromBytes
<1> HIDE DEF bytes, ss
<1>7. Restores(FlattenSeq(ss), bits)
  BY <1>1, <1>2, <1>4, ChunksRestore DEF n
<1> QED
  BY <1>3, <1>5, <1>6, <1>7 DEF HeldIn, n

(* Reversing twice changes nothing.                                         *)
LEMMA ReverseIs ==
  ASSUME NEW T, NEW s \in Seq(T)
  PROVE  /\ Reverse(s) \in Seq(T) /\ Len(Reverse(s)) = Len(s)
         /\ Reverse(Reverse(s)) = s
<1> DEFINE n == Len(s)
           r == Reverse(s)
           z == Reverse(r)
<1>1. n \in Nat /\ \A i \in 1..n : s[i] \in T
  OBVIOUS
<1>2. r \in Seq(T) /\ Len(r) = n /\ \A i \in 1..n : r[i] = s[(n - i) + 1]
  <2>1. r = [i \in 1..n |-> s[(n - i) + 1]]
    BY DEF Reverse
  <2>2. \A i \in 1..n : (n - i) + 1 \in 1..n
    BY <1>1
  <2> HIDE DEF r
  <2>3. \A i \in 1..n : r[i] \in T
    BY <1>1, <2>1, <2>2
  <2> HIDE DEF n
  <2> QED BY <1>1, <2>1, <2>3
<1> HIDE DEF r
<1>3. z = [i \in 1..n |-> r[(n - i) + 1]]
  BY <1>2 DEF Reverse
<1>4. ASSUME NEW i \in 1..n PROVE z[i] = s[i]
  <2>1. (n - i) + 1 \in 1..n /\ (n - ((n - i) + 1)) + 1 = i
    BY <1>1
  <2>2. r[(n - i) + 1] = s[(n - ((n - i) + 1)) + 1]
    BY <1>2, <2>1
  <2> QED BY <1>3, <2>1, <2>2
<1>5. z \in Seq(T) /\ Len(z) = n
  <2> HIDE DEF z
  <2> QED BY <1>1, <1>3, <1>4
<1>6. z = s
  <2> HIDE DEF z
  <2> QED BY <1>4, <1>5, SameSeq
<1> QED
  BY <1>2, <1>6 DEF r, z

(* The lowest bit first.                                                    *)
LEMMA LowBytesRestore ==
  ASSUME NEW bits \in Seq({0, 1})
  PROVE  HeldIn(ToBytesLow(bits), FromBytesLow(ToBytesLow(bits)), bits)
<1> DEFINE n == CeilDiv(Len(bits), ByteBits)
           bytes == [i \in 1..n |-> Number(Reverse(Chunk(bits, i)))]
           ss == [i \in 1..n |-> Reverse(Bits(bytes[i], ByteBits))]
           T == Seq({0, 1})
<1>1. ByteBits \in Nat \ {0} /\ n \in Nat
  <2>1. ByteBits \in Nat \ {0} /\ Len(bits) \in Nat
    BY CodersAssumption
  <2> QED BY <2>1, CeilDivIs
<1> HIDE DEF n
<1>2. ASSUME NEW i \in 1..n
      PROVE  bytes[i] \in Int /\ ss[i] \in T /\ ss[i] = Chunk(bits, i)
  <2> DEFINE c == Chunk(bits, i)
             r == Reverse(c)
             N == Number(r)
  <2>1. c \in Seq({0, 1}) /\ Len(c) = ByteBits
    BY <1>1, ChunkIs
  <2> HIDE DEF c
  <2>2. r \in Seq({0, 1}) /\ Len(r) = ByteBits /\ Reverse(r) = c
    BY <2>1, ReverseIs
  <2>3. bytes[i] = N /\ ss[i] = Reverse(Bits(N, ByteBits))
    BY DEF c
  <2> HIDE DEF r
  <2>4. FitsIn(N, Len(r)) /\ Bits(N, Len(r)) = r
    BY <2>2, BitsOfNumber
  <2>5. N \in Int
    BY <2>2, <2>4, <1>1, PowIs DEF FitsIn
  <2> HIDE DEF bytes, ss, N
  <2> QED BY <2>1, <2>2, <2>3, <2>4, <2>5 DEF c
<1>3. bytes \in Seq(Int) /\ Len(bytes) = n /\ DOMAIN bytes = 1..n
  <2>1. bytes = [i \in 1..n |-> bytes[i]]
    OBVIOUS
  <2> HIDE DEF bytes
  <2> QED BY <1>1, <1>2, <2>1
<1>4. ss \in Seq(T) /\ Len(ss) = n
  <2>1. ss = [i \in 1..n |-> ss[i]]
    OBVIOUS
  <2> HIDE DEF ss, T
  <2> QED BY <1>1, <1>2, <2>1
<1>5. ToBytesLow(bits) = bytes
  BY DEF ToBytesLow, n
<1>6. FromBytesLow(bytes) = FlattenSeq(ss)
  BY <1>3 DEF FromBytesLow
<1> HIDE DEF bytes, ss
<1>7. Restores(FlattenSeq(ss), bits)
  BY <1>1, <1>2, <1>4, ChunksRestore DEF n
<1> QED
  BY <1>3, <1>5, <1>6, <1>7 DEF HeldIn, n

(* Pieces of the same length, concatenated, can be cut out again.           *)
LEMMA Pieces ==
  ASSUME NEW ss \in Seq(Seq({0, 1})), NEW w \in Nat, \A k \in 1..Len(ss) : Len(ss[k]) = w,
         NEW out, Restores(out, FlattenSeq(ss)), NEW i \in 1..Len(ss)
  PROVE  SubSeq(out, (i - 1) * w + 1, i * w) = ss[i]
<1> DEFINE n == Len(ss)
           bits == FlattenSeq(ss)
           p == (i - 1) * w
           q == i * w
           m == n * w
           s == SubSeq(out, p + 1, q)
<1>1. n \in Nat /\ i \in 1..n /\ ss[i] \in Seq({0, 1}) /\ Len(ss[i]) = w
  OBVIOUS
<1>2. Regular(ss, w)
  BY RegularFlat
<1>3. Len(bits) = m /\ \A j \in 1..w : p + j \in 1..Len(bits) /\ bits[p + j] = ss[i][j]
  BY <1>2 DEF Regular
<1>4. out \in Seq({0, 1}) /\ m <= Len(out) /\ \A j \in 1..m : out[j] = bits[j]
  BY <1>3 DEF Restores
<1> HIDE DEF bits, n
<1>5. i - 1 \in Nat /\ p \in Nat /\ q \in Nat /\ m \in Nat /\ q = p + w /\ q <= m
  <2>1. i - 1 \in Nat /\ i \in Nat /\ n - i \in Nat
    BY <1>1
  <2>2. p \in Nat /\ q \in Nat /\ m \in Nat /\ (n - i) * w \in Nat
    BY <2>1, <1>1
  <2>3. q = p + w /\ m = q + (n - i) * w
    BY <2>1, <1>1
  <2> HIDE DEF p, q, m
  <2> QED BY <2>1, <2>2, <2>3
<1>6. ASSUME NEW j \in 1..w PROVE p + j \in 1..m /\ out[p + j] = ss[i][j]
  BY <1>3, <1>4
<1> HIDE DEF p, q, m
<1>7. s \in Seq({0, 1}) /\ Len(s) = w /\ \A j \in 1..w : s[j] = out[p + j]
  <2>1. p + 1 \in Nat /\ q \in Nat /\ q - (p + 1) + 1 = w /\ q <= Len(out) /\ Len(out) \in Nat
    BY <1>5, <1>4
  <2>2. \A j \in (p + 1)..q : out[j] \in {0, 1}
    BY <1>4, <1>5, <2>1
  <2>3. Len(s) = w
    BY <2>1
  <2>4. \A j \in 1..w : s[j] = out[p + j]
    BY <2>1, <1>5
  <2>5. s \in Seq({0, 1})
    BY <2>1, <2>2
  <2> QED BY <2>3, <2>4, <2>5
<1> HIDE DEF s
<1> DEFINE a == ss[i]
<1>8. a \in Seq({0, 1}) /\ Len(a) = w /\ \A j \in 1..w : s[j] = a[j]
  BY <1>1, <1>6, <1>7
<1>9. s = a
  <2> HIDE DEF a
  <2> QED BY <1>7, <1>8, SameSeq
<1> QED
  BY <1>9 DEF s, p, q

-----------------------------------------------------------------------------
(* bitpack_fixed and bitpack_auto                                           *)

(* As many bits as are needed.                                              *)
LEMMA BitsForIs ==
  ASSUME NEW max \in Words
  PROVE  /\ BitsFor(max) \in 0..WordBits /\ FitsIn(max, BitsFor(max))
         /\ max # 0 => BitsFor(max) >= 1 /\ Pow(BitsFor(max) - 1) <= max
<1> DEFINE W == WordBits
           T == {w \in Nat \ {0} : max < Pow(w)}
           Needed(w) == Pow(w - 1) <= max /\ max < Pow(w)
<1>1. W \in Nat \ {0} /\ Pow(W) \in Nat /\ max \in Nat /\ max < Pow(W) /\ Pow(0) = 1
  BY CodersAssumption, PowIs DEF Words
<1>2. CASE max = 0
  <2>1. BitsFor(max) = 0
    BY <1>2 DEF BitsFor
  <2> QED BY <1>1, <1>2, <2>1 DEF FitsIn
<1>3. CASE max # 0
  <2> HIDE DEF W
  <2>1. W \in T
    BY <1>1
  <2>2. PICK w \in T : \A j \in T : w <= j
    <3>1. T \subseteq Nat /\ T # {}
      BY <2>1
    <3> HIDE DEF T
    <3> QED BY <3>1, LeastNatural
  <2>3. w \in 1..W /\ max < Pow(w)
    BY <2>1, <2>2, <1>1
  <2>4. Pow(w - 1) <= max
    <3> SUFFICES ASSUME max < Pow(w - 1) PROVE FALSE
      <4>1. w - 1 \in Nat
        BY <2>3, <1>1
      <4>2. Pow(w - 1) \in Nat
        BY <4>1, PowIs
      <4> QED BY <4>2, <1>1
    <3>1. CASE w = 1
      <4>1. max < 1
        BY <3>1, <1>1
      <4> QED BY <4>1, <1>1, <1>3
    <3>2. CASE w # 1
      <4>1. w - 1 \in Nat \ {0}
        BY <3>2, <2>3, <1>1
      <4>2. w - 1 \in T
        BY <4>1
      <4>3. w <= w - 1
        BY <4>2, <2>2
      <4> QED BY <4>3, <2>3, <1>1
    <3> QED BY <3>1, <3>2
  <2>5. Needed(w)
    BY <2>3, <2>4
  <2>6. BitsFor(max) = CHOOSE v \in 1..W : Needed(v)
    BY <1>3 DEF BitsFor, W
  <2> HIDE DEF Needed
  <2>7. BitsFor(max) \in 1..W /\ Needed(BitsFor(max))
    BY <2>3, <2>5, <2>6
  <2> DEFINE b == BitsFor(max)
  <2>8. b \in 1..W /\ Pow(b - 1) <= max /\ max < Pow(b)
    BY <2>7 DEF Needed
  <2> HIDE DEF b
  <2>9. b \in Nat /\ b \in 0..W /\ b >= 1
    BY <2>8, <1>1
  <2>10. Pow(b) \in Nat
    BY <2>9, PowIs
  <2>11. max \in 0..(Pow(b) - 1)
    BY <1>1, <2>8, <2>10
  <2> QED BY <2>8, <2>9, <2>11 DEF b, W, FitsIn
<1> QED
  BY <1>2, <1>3

(* The maximum is one of the values, and none is above it.                  *)
LEMMA MaxOfIs ==
  ASSUME NEW xs \in Seq(Int), xs # <<>>
  PROVE  /\ \E i \in 1..Len(xs) : MaxOf(xs) = xs[i]
         /\ \A i \in 1..Len(xs) : xs[i] <= MaxOf(xs)
<1> DEFINE ys == [i \in 1..Len(xs) |-> -xs[i]]
           Greatest(m) == \A x \in ToSet(xs) : x <= m
<1>1. Len(xs) \in Nat \ {0} /\ \A i \in 1..Len(xs) : xs[i] \in Int
  OBVIOUS
<1>2. ys \in Seq(Int) /\ ys # <<>> /\ Len(ys) = Len(xs)
  BY <1>1
<1>3. \A i \in 1..Len(xs) : ys[i] = -xs[i]
  OBVIOUS
<1> HIDE DEF ys
<1>4. PICK m \in ToSet(ys) : \A y \in ToSet(ys) : m <= y
  BY <1>2, LeastOf
<1>5. PICK k \in 1..Len(xs) : m = ys[k]
  BY <1>2, <1>4 DEF ToSet
<1>6. ASSUME NEW i \in 1..Len(xs) PROVE xs[i] <= xs[k]
  <2>1. ys[k] <= ys[i]
    BY <1>2, <1>4, <1>5 DEF ToSet
  <2> QED BY <2>1, <1>1, <1>3
<1>7. xs[k] \in ToSet(xs) /\ Greatest(xs[k])
  BY <1>6 DEF ToSet
<1>8. MaxOf(xs) = CHOOSE x \in ToSet(xs) : Greatest(x)
  BY DEF MaxOf
<1> HIDE DEF Greatest
<1>9. MaxOf(xs) \in ToSet(xs) /\ Greatest(MaxOf(xs))
  BY <1>7, <1>8
<1> QED
  BY <1>9 DEF Greatest, ToSet

\* Values that are packed w bits each.
Packable(xs, w, t) ==
  /\ xs \in Seq(Int)
  /\ \A i \in 1..Len(xs) : FitsIn(xs[i], w) /\ InRange(xs[i], t)

\* The bytes of xs with w bits each are read back.
Packs(bytes, xs, w, t) == bytes \in Seq(Int) /\ Unpack(bytes, Len(xs), w, t) = xs

(* Values that fit in w bits are unpacked as they were packed.              *)
LEMMA PackRoundTrip ==
  ASSUME NEW t, NEW w \in Nat, NEW xs, Packable(xs, w, t)
  PROVE  Packs(Pack(xs, w), xs, w, t)
<1> DEFINE n == Len(xs)
           T == Seq({0, 1})
           ss == [i \in 1..n |-> Reverse(Bits(xs[i], w))]
           bits == FlattenSeq(ss)
           bytes == Pack(xs, w)
           out == FromBytesLow(bytes)
<1>1. xs \in Seq(Int) /\ n \in Nat /\ DOMAIN xs = 1..n
      /\ \A i \in 1..n : xs[i] \in Nat /\ FitsIn(xs[i], w) /\ InRange(xs[i], t)
  BY PowIs DEF Packable, FitsIn
<1> HIDE DEF n
<1>2. ASSUME NEW i \in 1..n
      PROVE  ss[i] \in T /\ Len(ss[i]) = w /\ Number(Reverse(ss[i])) = xs[i]
  <2> DEFINE b == Bits(xs[i], w)
  <2>1. b \in Seq({0, 1}) /\ Len(b) = w
    BY <1>1, BitsAre
  <2>2. Number(b) = xs[i]
    BY <1>1, NumberOfBits
  <2>3. ss[i] = Reverse(b)
    OBVIOUS
  <2> HIDE DEF b, ss
  <2>4. Reverse(b) \in T /\ Len(Reverse(b)) = w /\ Reverse(Reverse(b)) = b
    BY <2>1, ReverseIs
  <2> QED BY <2>2, <2>3, <2>4
<1>3. ss \in Seq(T) /\ Len(ss) = n
  <2>1. ss = [i \in 1..n |-> ss[i]]
    OBVIOUS
  <2> HIDE DEF ss, T
  <2> QED BY <1>1, <1>2, <2>1
<1>4. bytes = ToBytesLow(bits)
  BY <1>1 DEF Pack
<1> HIDE DEF ss, bytes, out
<1>5. Regular(ss, w)
  BY <1>2, <1>3, RegularFlat
<1>6. bits \in T /\ Len(bits) = n * w
  BY <1>3, <1>5, FlattenType DEF Regular
<1>7. ASSUME NEW i \in 1..n, NEW j \in 1..w
      PROVE  (i - 1) * w + j \in 1..Len(bits) /\ bits[(i - 1) * w + j] = ss[i][j]
  BY <1>3, <1>5 DEF Regular
<1> HIDE DEF bits
<1>8. HeldIn(bytes, out, bits)
  BY <1>4, <1>6, LowBytesRestore DEF out
<1>9. /\ bytes \in Seq(Int) /\ Len(bytes) = CeilDiv(n * w, ByteBits)
      /\ out \in T /\ n * w <= Len(out) /\ \A i \in 1..(n * w) : out[i] = bits[i]
  BY <1>6, <1>8 DEF HeldIn, Restores
<1>10. ASSUME NEW i \in 1..n PROVE SubSeq(out, (i - 1) * w + 1, i * w) = ss[i]
  <2>1. i \in 1..Len(ss) /\ \A k \in 1..Len(ss) : Len(ss[k]) = w
    BY <1>2, <1>3
  <2>2. Restores(out, FlattenSeq(ss))
    BY <1>8 DEF HeldIn, bits
  <2> QED BY <1>3, <2>1, <2>2, Pieces
<1> DEFINE values == [i \in 1..n |-> Number(Reverse(SubSeq(out, (i - 1) * w + 1, i * w)))]
<1>11. ASSUME NEW i \in 1..n PROVE values[i] = xs[i]
  BY <1>2, <1>10
<1>12. values = xs
  <2>1. xs = [i \in 1..n |-> xs[i]]
    BY <1>1
  <2>2. values = [i \in 1..n |-> values[i]]
    OBVIOUS
  <2> HIDE DEF values
  <2> QED BY <2>1, <2>2, <1>11
<1>13. Unpack(bytes, n, w, t) = values
  <2>1. ~(Len(bytes) < CeilDiv(n * w, ByteBits))
    <3>1. Len(bytes) \in Nat
      BY <1>9
    <3>2. ~(Len(bytes) < Len(bytes))
      BY <3>1
    <3> QED BY <3>2, <1>9
  <2>2. ~\E i \in 1..n : ~InRange(values[i], t)
    <3> HIDE DEF values
    <3> QED BY <1>1, <1>11
  <2> QED BY <2>1, <2>2 DEF Unpack, out
<1> QED
  BY <1>9, <1>12, <1>13 DEF Packs, bytes, n

(* bitpack_fixed, whenever it accepts the values.                           *)
LEMMA PackFixedRoundTrip ==
  ASSUME NEW t \in Integral, NEW w \in Nat, NEW xs, Fits(xs, t), PackFixed(xs, w) # Fail
  PROVE  PackFixed(xs, w) \in Seq(Int) /\ UnpackFixed(PackFixed(xs, w), w, t) = xs
<1>1. t \in Numeric /\ t # "bytes" /\ Pow(w) \in Nat
  BY LargestIs, PowIs
<1>2. xs \in Seq(Int) /\ Len(xs) \in Nat /\ DOMAIN xs = 1..Len(xs)
      /\ \A i \in 1..Len(xs) : xs[i] \in Int /\ InRange(xs[i], t)
  BY <1>1, InRangeIs DEF Fits
<1>3. \A i \in 1..Len(xs) : xs[i] >= 0 /\ xs[i] < Pow(w)
  BY <1>1, <1>2 DEF PackFixed
<1>4. Packable(xs, w, t)
  BY <1>1, <1>2, <1>3 DEF Packable, FitsIn
<1> DEFINE bytes == Pack(xs, w)
           all == << Len(xs) >> \o bytes
<1>5. PackFixed(xs, w) = all
  BY DEF PackFixed
<1> HIDE DEF bytes
<1>6. bytes \in Seq(Int) /\ Unpack(bytes, Len(xs), w, t) = xs
  BY <1>4, PackRoundTrip DEF Packs, bytes
<1>7. all \in Seq(Int) /\ all # <<>> /\ all[1] = Len(xs) /\ Tail(all) = bytes
  <2>1. all \in Seq(Int) /\ all # <<>> /\ all[1] = Len(xs)
    BY <1>2, <1>6
  <2> DEFINE s == Tail(all)
  <2>2. s \in Seq(Int) /\ Len(s) = Len(bytes) /\ \A i \in 1..Len(s) : s[i] = bytes[i]
    BY <1>2, <1>6
  <2> HIDE DEF s
  <2>3. s = bytes
    BY <1>6, <2>2, SameSeq
  <2> QED BY <2>1, <2>3 DEF s
<1> HIDE DEF all
<1>8. UnpackFixed(all, w, t) = xs
  BY <1>6, <1>7 DEF UnpackFixed
<1> QED
  BY <1>5, <1>7, <1>8

\* bitpack_auto wrote xs in w bits each.
PackedTo(xs, w, t) ==
  /\ w \in Nat /\ ~(w > WordBits) /\ Packable(xs, w, t)
  /\ PackAuto(xs) = << Len(xs), w >> \o Pack(xs, w)

(* The width that bitpack_auto chooses holds all of the values.             *)
LEMMA PackAutoIs ==
  ASSUME NEW t \in Integral, NEW xs, Fits(xs, t), \A i \in 1..Len(xs) : xs[i] >= 0
  PROVE  PackedTo(xs, BitsFor(MaxOf(xs)), t)
<1> DEFINE w == BitsFor(MaxOf(xs))
           bytes == Pack(xs, w)
           all == << Len(xs), w >> \o bytes
<1>1. t \in Numeric /\ t # "bytes"
  BY LargestIs
<1>2. xs \in Seq(Int) /\ Len(xs) \in Nat /\ DOMAIN xs = 1..Len(xs)
      /\ \A i \in 1..Len(xs) : xs[i] \in Int /\ InRange(xs[i], t) /\ Within(xs[i], t)
  BY <1>1, InRangeIs DEF Fits
<1>3. \A i \in 1..Len(xs) : xs[i] >= 0
  OBVIOUS
<1>4. \A i \in 1..Len(xs) : xs[i] \in Words
  <2> SUFFICES ASSUME NEW i \in 1..Len(xs) PROVE xs[i] \in Words
    OBVIOUS
  <2>1. Least(t) + Count(t) <= Count(t) /\ Count(t) = Pow(Width[t]) /\ Least(t) \in Int
        /\ Width[t] \in Nat /\ Width[t] <= WordBits /\ Count(t) \in Nat
    <3>1. Least(t) \in Int /\ Pow(Width[t] - 1) \in Nat /\ Count(t) \in Nat
      BY <1>1, CountIs
    <3>2. Least(t) <= 0
      BY <3>1 DEF Least
    <3> QED BY <3>1, <3>2, <1>1, CountIs DEF Count
  <2>2. Pow(Width[t]) <= Pow(WordBits) /\ Pow(WordBits) \in Nat
    BY <2>1, PowGrows, PowIs, CodersAssumption
  <2>3. xs[i] \in Int /\ xs[i] >= 0 /\ xs[i] < Least(t) + Count(t)
    BY <1>2, <1>3 DEF Within
  <2> QED BY <2>1, <2>2, <2>3 DEF Words
<1>5. MaxOf(xs) \in Words /\ \A i \in 1..Len(xs) : xs[i] <= MaxOf(xs)
  <2>1. CASE xs = <<>>
    <3>1. MaxOf(xs) = 0
      BY <2>1 DEF MaxOf
    <3>2. 0 \in Words
      <4>1. WordBits \in Nat
        BY CodersAssumption
      <4>2. Pow(WordBits) \in Nat \ {0}
        BY <4>1, PowIs
      <4> QED BY <4>2 DEF Words
    <3> QED BY <2>1, <3>1, <3>2
  <2>2. CASE xs # <<>>
    BY <2>2, <1>2, <1>4, MaxOfIs
  <2> QED BY <2>1, <2>2
<1>6. w \in 0..WordBits /\ FitsIn(MaxOf(xs), w)
  BY <1>5, BitsForIs
<1>7. w \in Nat /\ ~(w > WordBits) /\ Pow(w) \in Nat
  <2> HIDE DEF w
  <2> QED BY <1>6, PowIs, CodersAssumption
<1>8. PackAuto(xs) = all
  <2>1. ~\E i \in DOMAIN xs : xs[i] < 0
    BY <1>2, <1>3
  <2> HIDE DEF all
  <2> QED BY <2>1 DEF PackAuto, all
<1> HIDE DEF bytes, w
<1>9. Packable(xs, w, t)
  <2> SUFFICES ASSUME NEW i \in 1..Len(xs) PROVE FitsIn(xs[i], w)
    BY <1>2 DEF Packable
  <2> DEFINE m == MaxOf(xs)
  <2>1. m \in 0..(Pow(w) - 1) /\ xs[i] <= m /\ xs[i] >= 0 /\ xs[i] \in Int
    BY <1>2, <1>3, <1>5, <1>6 DEF FitsIn
  <2> HIDE DEF m
  <2> QED BY <2>1, <1>7 DEF FitsIn
<1> QED
  BY <1>7, <1>8, <1>9 DEF PackedTo, bytes, w

(* bitpack_auto accepts what is not negative.                               *)
LEMMA PackAutoAccepts ==
  ASSUME NEW t, NEW xs, Fits(xs, t), PackAuto(xs) # Fail
  PROVE  \A i \in 1..Len(xs) : xs[i] >= 0
<1>1. xs \in Seq(Int) /\ DOMAIN xs = 1..Len(xs)
  BY DEF Fits
<1>2. ~\E i \in DOMAIN xs : xs[i] < 0
  BY DEF PackAuto
<1> QED
  BY <1>1, <1>2

(* bitpack_auto, whenever it accepts the values.                            *)
LEMMA PackAutoRoundTrip ==
  ASSUME NEW t \in Integral, NEW xs, Fits(xs, t), PackAuto(xs) # Fail
  PROVE  PackAuto(xs) \in Seq(Int) /\ UnpackAuto(PackAuto(xs), t) = xs
<1> DEFINE w == BitsFor(MaxOf(xs))
           bytes == Pack(xs, w)
           all == << Len(xs), w >> \o bytes
<1>2. xs \in Seq(Int) /\ Len(xs) \in Nat
  BY DEF Fits
<1>3. PackedTo(xs, w, t)
  BY PackAutoAccepts, PackAutoIs
<1> HIDE DEF w
<1>7. w \in Nat /\ ~(w > WordBits)
  BY <1>3 DEF PackedTo
<1>8. PackAuto(xs) = all
  BY <1>3 DEF PackedTo
<1> HIDE DEF bytes
<1>9. Packable(xs, w, t)
  BY <1>3 DEF PackedTo
<1>10. bytes \in Seq(Int) /\ Unpack(bytes, Len(xs), w, t) = xs
  BY <1>7, <1>9, PackRoundTrip DEF Packs, bytes
<1>11. all \in Seq(Int) /\ Len(all) >= 2 /\ all[1] = Len(xs) /\ all[2] = w
       /\ SubSeq(all, 3, Len(all)) = bytes /\ Len(all) \in Nat
  <2>1. all \in Seq(Int) /\ Len(all) >= 2 /\ all[1] = Len(xs) /\ all[2] = w /\ Len(all) \in Nat
    BY <1>2, <1>7, <1>10
  <2> DEFINE s == SubSeq(all, 3, Len(all))
  <2>2. s \in Seq(Int) /\ Len(s) = Len(bytes) /\ \A i \in 1..Len(s) : s[i] = bytes[i]
    BY <1>2, <1>7, <1>10
  <2> HIDE DEF s
  <2>3. s = bytes
    BY <1>10, <2>2, SameSeq
  <2> QED BY <2>1, <2>3 DEF s
<1> HIDE DEF all
<1>12. UnpackAuto(all, t) = xs
  <2>1. ~(Len(all) < 2)
    BY <1>11
  <2> QED BY <2>1, <1>7, <1>10, <1>11 DEF UnpackAuto
<1> QED
  BY <1>8, <1>11, <1>12

-----------------------------------------------------------------------------
(* elias_fano                                                               *)

\* What the reader of the high parts keeps.
GapState == [high : Nat, out : Seq(Nat)]
GapStart == [high |-> 0, out |-> <<>>]

(* A 1 ends a gap and gives a high part; a 0 makes the gap longer.          *)
LEMMA ReadGapIs ==
  ASSUME NEW s \in GapState, NEW bit
  PROVE  /\ ReadGap(s, bit) \in GapState
         /\ bit = 1 => ReadGap(s, bit) = [high |-> s.high, out |-> Append(s.out, s.high)]
         /\ bit # 1 => ReadGap(s, bit) = [high |-> s.high + 1, out |-> s.out]
<1>1. s.high \in Nat /\ s.out \in Seq(Nat) /\ s = [high |-> s.high, out |-> s.out]
  BY DEF GapState
<1> DEFINE more == Append(s.out, s.high)
           next == s.high + 1
<1>2. more \in Seq(Nat) /\ next \in Nat
  BY <1>1
<1>3. ReadGap(s, bit) = IF bit = 1 THEN [s EXCEPT !.out = more] ELSE [s EXCEPT !.high = next]
  BY DEF ReadGap
<1> HIDE DEF more, next
<1>4. [s EXCEPT !.out = more] = [high |-> s.high, out |-> more]
  BY <1>1
<1>5. [s EXCEPT !.high = next] = [high |-> next, out |-> s.out]
  BY <1>1
<1>6. [high |-> s.high, out |-> more] \in GapState /\ [high |-> next, out |-> s.out] \in GapState
  BY <1>1, <1>2 DEF GapState
<1> QED
  BY <1>3, <1>4, <1>5, <1>6 DEF more, next

\* The states of the reader after every bit.
GapStates(f, bits) ==
  /\ f \in [0..Len(bits) -> GapState] /\ f[0] = GapStart
  /\ \A i \in 1..Len(bits) : f[i] = ReadGap(f[i - 1], bits[i])

(* Reading the high parts is a state after every bit.                       *)
LEMMA HighsIs ==
  ASSUME NEW bits \in Seq({0, 1})
  PROVE  \E f : GapStates(f, bits) /\ Highs(bits) = f[Len(bits)].out
<1> DEFINE n == Len(bits)
           T == GapState
           start == GapStart
           step == [i \in 1..n |-> [s \in T |-> ReadGap(s, bits[i])]]
           body(g) == [i \in 0..n |-> IF i = 0 THEN start ELSE ReadGap(g[i - 1], bits[i])]
           state == CHOOSE g : g = body(g)
<1>1. n \in Nat /\ start \in T
  BY DEF GapState, GapStart
<1>2. step \in [1..n -> [T -> T]]
  BY ReadGapIs
<1> HIDE DEF start
<1>3. PICK f : Recursion(f, T, start, n, step)
  <2> HIDE DEF step, n, T
  <2> QED BY <1>1, <1>2, RecursiveFunction
<1>4. f \in [0..n -> T] /\ f[0] = start
  BY <1>3 DEF Recursion
<1>5. ASSUME NEW i \in 1..n PROVE f[i] = ReadGap(f[i - 1], bits[i])
  <2>1. f[i] = step[i][f[i - 1]]
    BY <1>3 DEF Recursion
  <2>2. f[i - 1] \in T
    BY <1>4, <1>1
  <2> QED BY <2>1, <2>2
<1>6. f = body(f)
  BY <1>4, <1>5, <1>1
<1>7. state = body(state)
  <2> HIDE DEF body
  <2> QED BY <1>6
<1>8. Highs(bits) = state[n].out
  BY DEF Highs, start, GapStart
<1> HIDE DEF state
<1>9. \A i \in 0..n : state[i] = f[i]
  <2> DEFINE S == {i \in Nat : i <= n => state[i] = f[i]}
  <2>1. 0 \in S
    BY <1>7, <1>4, <1>1
  <2>2. ASSUME NEW k \in Nat \ {0}, k - 1 \in S PROVE k \in S
    <3> SUFFICES ASSUME k <= n PROVE state[k] = f[k]
      OBVIOUS
    <3>1. k \in 1..n /\ state[k - 1] = f[k - 1]
      BY <2>2, <1>1
    <3>2. state[k] = ReadGap(state[k - 1], bits[k])
      BY <1>7, <3>1
    <3> QED BY <3>1, <3>2, <1>5
  <2>3. Nat \subseteq S
    <3> HIDE DEF S
    <3> QED BY <2>1, <2>2, SetInduction
  <2> QED BY <2>3, <1>1
<1>10. GapStates(f, bits)
  BY <1>4, <1>5 DEF GapStates, start
<1>11. Highs(bits) = f[n].out
  BY <1>1, <1>8, <1>9
<1> QED
  BY <1>10, <1>11

\* s is the unary code of a gap.
UnaryOf(s, gap) ==
  /\ s \in Seq({0, 1}) /\ Len(s) = gap + 1
  /\ (\A j \in 1..gap : s[j] = 0) /\ s[gap + 1] = 1

(* A gap is as many 0s, and a 1.                                            *)
LEMMA UnaryIs ==
  ASSUME NEW gap \in Nat
  PROVE  UnaryOf(Unary(gap), gap)
<1> DEFINE a == [j \in 1..gap |-> 0]
           s == a \o << 1 >>
<1>1. a \in Seq({0, 1}) /\ Len(a) = gap /\ \A j \in 1..gap : a[j] = 0
  OBVIOUS
<1>2. s = Unary(gap)
  BY DEF Unary
<1> HIDE DEF a
<1>3. s \in Seq({0, 1})
  BY <1>1
<1>4. Len(s) = gap + 1 /\ (\A j \in 1..gap : s[j] = 0) /\ s[gap + 1] = 1
  BY <1>1
<1> QED
  BY <1>2, <1>3, <1>4 DEF UnaryOf

\* A reader of gaps at a high part.
GapAt(high, out) == [high |-> high, out |-> out]

(* A gap in unary is read as that gap.                                      *)
LEMMA GapRead ==
  ASSUME NEW bits \in Seq({0, 1}), NEW f, GapStates(f, bits),
         NEW p \in Nat, NEW gap \in Nat, NEW s, UnaryOf(s, gap), Holds(bits, p, s),
         NEW high \in Nat, NEW out \in Seq(Nat), f[p] = GapAt(high, out)
  PROVE  f[p + gap + 1] = GapAt(high + gap, Append(out, high + gap))
<1>0. p + gap + 1 <= Len(bits) /\ (\A j \in 1..gap : bits[p + j] = 0)
      /\ bits[p + gap + 1] = 1
  <2>1. gap + 1 \in 1..Len(s) /\ p + (gap + 1) = p + gap + 1
        /\ \A j \in 1..gap : j \in 1..Len(s)
    BY DEF UnaryOf
  <2>2. bits[p + (gap + 1)] = 1
    BY <2>1 DEF UnaryOf, Holds
  <2> QED BY <2>1, <2>2 DEF UnaryOf, Holds
<1> DEFINE S == {j \in Nat : j <= gap => f[p + j] = GapAt(high + j, out)}
<1>1. 0 \in S
  OBVIOUS
<1>2. ASSUME NEW j \in Nat \ {0}, j - 1 \in S PROVE j \in S
  <2> SUFFICES ASSUME j <= gap PROVE f[p + j] = GapAt(high + j, out)
    OBVIOUS
  <2> DEFINE r == f[p + (j - 1)]
  <2>1. j - 1 \in Nat /\ j \in 1..gap /\ p + j \in 1..Len(bits) /\ (p + j) - 1 = p + (j - 1)
        /\ p + (j - 1) \in 0..Len(bits)
    BY <1>0
  <2>2. r = GapAt(high + (j - 1), out)
    BY <1>2, <2>1
  <2>3. f[p + j] = ReadGap(r, bits[p + j]) /\ r \in GapState
    BY <2>1 DEF GapStates
  <2>4. bits[p + j] = 0
    BY <1>0, <2>1
  <2> HIDE DEF r
  <2>5. f[p + j] = [high |-> r.high + 1, out |-> r.out]
    BY <2>3, <2>4, ReadGapIs
  <2>6. r.high = high + (j - 1) /\ r.out = out
    BY <2>2 DEF GapAt
  <2>7. (high + (j - 1)) + 1 = high + j
    BY <2>1
  <2> QED BY <2>5, <2>6, <2>7 DEF GapAt
<1>3. Nat \subseteq S
  <2> HIDE DEF S
  <2> QED BY <1>1, <1>2, SetInduction
<1> DEFINE q == p + gap
<1>4. f[q] = GapAt(high + gap, out)
  BY <1>3
<1>5. q + 1 \in 1..Len(bits) /\ (q + 1) - 1 = q /\ q \in 0..Len(bits) /\ q + 1 = p + gap + 1
  BY <1>0
<1> HIDE DEF q
<1>6. f[q + 1] = ReadGap(f[q], bits[q + 1]) /\ f[q] \in GapState
  BY <1>5 DEF GapStates
<1>7. bits[q + 1] = 1
  BY <1>0, <1>5
<1>8. f[q + 1] = [high |-> f[q].high, out |-> Append(f[q].out, f[q].high)]
  BY <1>6, <1>7, ReadGapIs
<1> DEFINE h == high + gap
<1>9. f[q].high = h /\ f[q].out = out
  BY <1>4 DEF GapAt
<1>10. f[q + 1] = GapAt(h, Append(out, h))
  <2> HIDE DEF h
  <2> QED BY <1>8, <1>9 DEF GapAt
<1> HIDE DEF h
<1>11. f[p + gap + 1] = GapAt(h, Append(out, h))
  BY <1>5, <1>10
<1> QED
  BY <1>11 DEF h

(* What has been read stays.                                                *)
LEMMA HighsGrow ==
  ASSUME NEW bits \in Seq({0, 1}), NEW f, GapStates(f, bits),
         NEW p \in 0..Len(bits)
  PROVE  Begins(f[p].out, f[Len(bits)].out)
<1> DEFINE n == Len(bits)
           S == {k \in Nat : k \in p..n => Begins(f[p].out, f[k].out)}
<1>0. n \in Nat /\ \A k \in 0..n : f[k] \in GapState /\ f[k].out \in Seq(Nat)
  <2>1. n \in Nat
    OBVIOUS
  <2>2. ASSUME NEW k \in 0..n PROVE f[k] \in GapState
    BY DEF GapStates
  <2>3. ASSUME NEW s \in GapState PROVE s.out \in Seq(Nat)
    BY DEF GapState
  <2> QED BY <2>1, <2>2, <2>3
<1>1. Begins(f[p].out, f[p].out)
  BY <1>0 DEF Begins
<1>2. 0 \in S
  BY <1>1
<1>3. ASSUME NEW k \in Nat \ {0}, k - 1 \in S PROVE k \in S
  <2> SUFFICES ASSUME k \in p..n, k # p PROVE Begins(f[p].out, f[k].out)
    BY <1>1
  <2> DEFINE s == f[k - 1]
             a == s.out
             b == f[k].out
  <2>1. k - 1 \in p..n /\ k \in 1..n /\ k - 1 \in 0..n /\ k \in 0..n
    BY <1>0
  <2>2. Begins(f[p].out, a)
    BY <1>3, <2>1
  <2>3. f[k] = ReadGap(s, bits[k]) /\ s \in GapState
    BY <2>1 DEF GapStates
  <2>4. s.high \in Nat /\ a \in Seq(Nat) /\ b \in Seq(Nat) /\ f[p].out \in Seq(Nat)
    BY <1>0, <2>1 DEF GapState
  <2>5. Begins(a, b)
    <3> HIDE DEF s
    <3>1. b = a \/ b = Append(a, s.high)
      <4>1. CASE bits[k] = 1
        BY <4>1, <2>3, ReadGapIs
      <4>2. CASE bits[k] # 1
        BY <4>2, <2>3, ReadGapIs
      <4> QED BY <4>1, <4>2
    <3> DEFINE h == s.high
    <3>2. h \in Nat /\ a \in Seq(Nat) /\ (b = a \/ b = Append(a, h))
      BY <2>4, <3>1
    <3> HIDE DEF a, b, h
    <3>3. CASE b = a
      BY <3>2, <3>3 DEF Begins
    <3>4. CASE b = Append(a, h)
      <4>1. Len(b) = Len(a) + 1 /\ \A j \in 1..Len(a) : b[j] = a[j]
        BY <3>2, <3>4
      <4>2. Len(a) \in Nat
        BY <3>2
      <4> QED BY <4>1, <4>2 DEF Begins
    <3> QED BY <3>2, <3>3, <3>4
  <2> DEFINE c == f[p].out
             T == Nat
  <2> HIDE DEF a, b, c
  <2>6. Begins(c, a) /\ c \in Seq(T) /\ a \in Seq(T) /\ b \in Seq(T)
    BY <2>2, <2>4 DEF c
  <2> HIDE DEF T
  <2>7. Begins(c, b)
    BY <2>5, <2>6, BeginsTransitive
  <2> QED BY <2>7 DEF c, b
<1>4. Nat \subseteq S
  <2> HIDE DEF S
  <2> QED BY <1>2, <1>3, SetInduction
<1> QED
  BY <1>0, <1>4

\* The high part before the first is 0.
Up(hs, i) == IF i = 0 THEN 0 ELSE hs[i]

\* ss are the gaps between the numbers hs.
GapsOf(ss, hs) ==
  /\ hs \in Seq(Nat) /\ ss \in Seq(Seq({0, 1})) /\ Len(ss) = Len(hs)
  /\ \A i \in 1..Len(hs) : /\ Up(hs, i - 1) <= Up(hs, i)
                           /\ UnaryOf(ss[i], Up(hs, i) - Up(hs, i - 1))

(* The gaps, followed by anything, are read as the numbers.                 *)
LEMMA GapsRestore ==
  ASSUME NEW hs, NEW ss, GapsOf(ss, hs), NEW bits, Restores(bits, FlattenSeq(ss))
  PROVE  Begins(hs, Highs(bits))
<1> DEFINE n == Len(hs)
           T == Seq({0, 1})
           out(m) == [i \in 1..m |-> hs[i]]
           at(m) == Len(Flat(ss, m))
           U == Nat
<1>1. n \in Nat /\ (\A i \in 1..n : hs[i] \in Nat) /\ ss \in Seq(T) /\ Len(ss) = n
  BY DEF GapsOf
<1>2. bits \in Seq({0, 1}) /\ Len(bits) \in Nat
  BY DEF Restores
<1>3. PICK f : GapStates(f, bits) /\ Highs(bits) = f[Len(bits)].out
  BY <1>2, HighsIs
<1> DEFINE S == {m \in Nat : m <= n => /\ at(m) \in 0..Len(bits)
                                       /\ f[at(m)] = GapAt(Up(hs, m), out(m))}
<1>4. 0 \in S
  <2>1. Flat(ss, 0) = <<>>
    BY <1>1, FlatStep
  <2>2. at(0) = 0
    BY <2>1
  <2>3. f[0] = GapAt(0, <<>>) /\ Up(hs, 0) = 0
    BY <1>3 DEF GapStates, GapStart, GapAt, Up
  <2>4. out(0) = <<>>
    OBVIOUS
  <2> HIDE DEF at, out
  <2> QED BY <2>2, <2>3, <2>4, <1>2
<1>5. ASSUME NEW m \in Nat \ {0}, m - 1 \in S PROVE m \in S
  <2> SUFFICES ASSUME m <= n
               PROVE  at(m) \in 0..Len(bits) /\ f[at(m)] = GapAt(Up(hs, m), out(m))
    OBVIOUS
  <2> DEFINE p == at(m - 1)
             gap == Up(hs, m) - Up(hs, m - 1)
             high == Up(hs, m - 1)
             s == ss[m]
             before == out(m - 1)
  <2>1. m \in 1..n /\ m \in 1..Len(ss) /\ m - 1 \in Nat /\ m - 1 <= n
    BY <1>1
  <2>2. Up(hs, m) = hs[m] /\ hs[m] \in Nat /\ high \in Nat
    <3>1. m # 0 /\ hs[m] \in Nat
      BY <1>1, <2>1
    <3>2. m - 1 = 0 \/ m - 1 \in 1..n
      BY <2>1
    <3>3. m - 1 = 0 \/ hs[m - 1] \in Nat
      BY <1>1, <3>2
    <3> QED BY <3>1, <3>3 DEF Up
  <2>3. gap \in Nat /\ high + gap = hs[m]
    <3>1. high <= Up(hs, m)
      BY <2>1 DEF GapsOf
    <3> HIDE DEF high
    <3> QED BY <2>2, <3>1 DEF high
  <2>4. UnaryOf(s, gap)
    BY <2>1 DEF GapsOf
  <2>5. p \in 0..Len(bits) /\ f[p] = GapAt(high, before)
    BY <1>5, <2>1
  <2>6. p \in Nat /\ Len(s) \in Nat /\ at(m) = p + Len(s)
    BY <1>1, <2>1, FlatStepLength
  <2>7. Len(s) = gap + 1 /\ (\A j \in 1..gap : s[j] = 0) /\ s[gap + 1] = 1
    BY <2>4 DEF UnaryOf
  <2>8. ASSUME NEW j \in 1..Len(s) PROVE p + j \in 1..Len(bits) /\ bits[p + j] = s[j]
    <3> DEFINE all == FlattenSeq(ss)
    <3>1. p + j \in 1..Len(all) /\ all[p + j] = s[j]
      BY <1>1, <2>1, FlatAt
    <3>2. Len(all) \in Nat
      <4>1. all \in Seq({0, 1})
        BY <1>1, FlattenType
      <4> HIDE DEF all
      <4> QED BY <4>1
    <3>3. Len(all) <= Len(bits) /\ \A k \in 1..Len(all) : bits[k] = all[k]
      BY DEF Restores
    <3> HIDE DEF p, s, all
    <3> QED BY <3>1, <3>2, <3>3, <1>2
  <2>9. before \in Seq(Nat)
    <3>1. \A i \in 1..(m - 1) : hs[i] \in Nat
      BY <1>1, <2>1
    <3> QED BY <2>1, <3>1
  <2>10. Append(before, hs[m]) = out(m)
    <3> DEFINE a == Append(before, hs[m])
               b == out(m)
               N == Nat
    <3>1. \A i \in 1..m : hs[i] \in Nat
      BY <1>1, <2>1
    <3>2. b \in Seq(N) /\ Len(b) = m
      BY <3>1
    <3>3. a \in Seq(N) /\ Len(a) = m
      BY <2>9, <2>2
    <3>4. ASSUME NEW i \in 1..m PROVE a[i] = b[i]
      BY <2>9, <2>2
    <3> HIDE DEF a, b, N
    <3>5. a = b
      BY <3>2, <3>3, <3>4, SameSeq
    <3> QED BY <3>5 DEF a, b
  <2> HIDE DEF p, gap, high, s, before
  <2>11. Holds(bits, p, s)
    <3>1. p + Len(s) <= Len(bits)
      <4>1. Len(s) \in 1..Len(s)
        BY <2>3, <2>7
      <4>2. p + Len(s) \in 1..Len(bits)
        BY <4>1, <2>8
      <4> QED BY <4>2, <1>2
    <3> QED BY <2>6, <2>8, <3>1 DEF Holds
  <2>12. f[p + gap + 1] = GapAt(high + gap, Append(before, high + gap))
    BY <1>2, <1>3, <2>2, <2>3, <2>4, <2>5, <2>6, <2>9, <2>11, GapRead
  <2>13. at(m) = p + gap + 1
    <3> HIDE DEF at
    <3> QED BY <2>3, <2>6, <2>7
  <2>14. p + gap + 1 \in 0..Len(bits)
    <3>1. p + Len(s) <= Len(bits)
      BY <2>11 DEF Holds
    <3> QED BY <2>3, <2>6, <2>7, <3>1, <1>2
  <2>15. Append(before, hs[m]) = out(m) /\ high + gap = hs[m]
    BY <2>3, <2>10 DEF before, high, gap
  <2> HIDE DEF at, out
  <2> QED BY <2>2, <2>12, <2>13, <2>14, <2>15
<1>6. Nat \subseteq S
  <2> HIDE DEF S
  <2> QED BY <1>4, <1>5, SetInduction
<1>7. at(n) \in 0..Len(bits) /\ f[at(n)] = GapAt(Up(hs, n), out(n))
  BY <1>1, <1>6
<1>8. f[at(n)].out = out(n)
  BY <1>7 DEF GapAt
<1>9. Begins(f[at(n)].out, f[Len(bits)].out)
  <2> HIDE DEF at
  <2> QED BY <1>2, <1>3, <1>7, HighsGrow
<1>10. out(n) = hs
  <2>1. hs = [i \in 1..n |-> hs[i]]
    BY DEF GapsOf
  <2> QED BY <2>1
<1> QED
  BY <1>3, <1>8, <1>9, <1>10

(* A value of an unsigned type is a word.                                   *)
LEMMA UnsignedIs ==
  ASSUME NEW t \in Unsigned, NEW x, Within(x, t)
  PROVE  x \in Nat /\ x \in Words
<1>1. t \in Numeric /\ t \notin Signed
  BY CodersAssumption DEF Numeric, Integral
<1>2. Width[t] \in Nat /\ Width[t] <= WordBits /\ Count(t) \in Nat
  BY <1>1, CountIs
<1>3. Pow(Width[t]) <= Pow(WordBits) /\ Pow(WordBits) \in Nat
  BY <1>2, PowGrows, PowIs, CodersAssumption
<1>4. x \in Int /\ 0 <= x /\ x < 0 + Count(t)
  BY <1>1 DEF Within, Least
<1>5. Count(t) <= Pow(WordBits)
  BY <1>3 DEF Count
<1> QED
  BY <1>2, <1>3, <1>4, <1>5 DEF Words

(* The low parts are narrower than a word.                                  *)
LEMMA LowWidthIs ==
  ASSUME NEW t \in Sorted, NEW xs, Fits(xs, t), xs # <<>>
  PROVE  LowWidth(xs) \in Nat /\ LowWidth(xs) < WordBits
<1> DEFINE n == Len(xs)
           x == xs[n]
           q == x \div n
<1>1. t \in Unsigned /\ t # "bytes"
  BY CodersAssumption DEF Integral
<1>2. xs \in Seq(Int) /\ n \in Nat \ {0} /\ Within(x, t)
  BY <1>1 DEF Fits
<1>3. x \in Nat /\ x \in Words
  BY <1>1, <1>2, UnsignedIs
<1> HIDE DEF x, n
<1>4. x = n * q + (x % n) /\ x % n \in 0..(n - 1) /\ q \in Int
  <2>1. x \in Int /\ n \in Nat \ {0}
    BY <1>2, <1>3
  <2> QED BY <2>1, Division
<1>5. q \in Nat /\ q <= x
  <2> DEFINE r == x % n
  <2> HIDE DEF q, r
  <2>1. x = n * q + r /\ r \in Nat /\ r < n
    BY <1>2, <1>4 DEF r
  <2>2. q >= 0
    <3> SUFFICES ASSUME q <= -1 PROVE FALSE
      BY <1>4
    <3>1. n * q <= -n
      BY <1>2, <1>4
    <3> QED BY <3>1, <2>1, <1>2, <1>3, <1>4
  <2>3. q <= n * q
    BY <2>2, <1>2, <1>4
  <2> DEFINE m == n * q
  <2>4. m \in Int
    BY <1>2, <1>4
  <2> HIDE DEF m
  <2>5. q <= x
    <3>1. x = m + r /\ q <= m
      BY <2>1, <2>3 DEF m
    <3> QED BY <3>1, <2>1, <2>4, <1>4, <1>3
  <2> QED BY <2>2, <2>5, <1>4
<1> HIDE DEF q
<1>6. q \in Words
  <2>1. Pow(WordBits) \in Nat
    BY PowIs, CodersAssumption
  <2> QED BY <1>3, <1>5, <2>1 DEF Words
<1>7. LowWidth(xs) = IF q = 0 THEN 0 ELSE BitsFor(q) - 1
  BY DEF LowWidth, Last, q, x, n
<1> DEFINE b == BitsFor(q)
<1>8. b \in 0..WordBits /\ (q # 0 => b >= 1)
  BY <1>6, BitsForIs
<1> HIDE DEF b
<1> QED
  BY <1>7, <1>8, CodersAssumption DEF b

(* A value is its high part and its low part.                               *)
LEMMA SplitHigh ==
  ASSUME NEW x \in Nat, NEW l \in Nat
  PROVE  /\ x \div Pow(l) \in Nat /\ x % Pow(l) \in Nat /\ FitsIn(x % Pow(l), l)
         /\ (x \div Pow(l)) * Pow(l) + (x % Pow(l)) = x
<1> DEFINE m == Pow(l)
           q == x \div m
           r == x % m
<1>1. m \in Nat \ {0}
  BY PowIs
<1> HIDE DEF m
<1>2. x = m * q + r /\ r \in 0..(m - 1) /\ q \in Int
  BY <1>1, Division
<1>3. q \in Nat
  <2> HIDE DEF q, r
  <2> SUFFICES ASSUME q <= -1 PROVE FALSE
    BY <1>2
  <2>1. m * q <= -m
    BY <1>1, <1>2
  <2> DEFINE k == m * q
  <2>2. k \in Int /\ k <= -m /\ x = k + r
    BY <2>1, <1>1, <1>2
  <2> HIDE DEF k
  <2> QED BY <2>2, <1>1, <1>2
<1>4. q * m + r = x
  <2> HIDE DEF q, r
  <2>1. q * m = m * q
    BY <1>1, <1>2
  <2> QED BY <2>1, <1>2
<1> QED
  BY <1>1, <1>2, <1>3, <1>4 DEF FitsIn, m

(* A quotient grows with the number.                                        *)
LEMMA DivideGrows ==
  ASSUME NEW a \in Nat, NEW b \in Nat, a <= b, NEW m \in Nat \ {0}
  PROVE  a \div m <= b \div m
<1> DEFINE p == a \div m
           r == a % m
           q == b \div m
           s == b % m
<1>1. a = m * p + r /\ r \in 0..(m - 1) /\ p \in Int
  BY Division
<1>2. b = m * q + s /\ s \in 0..(m - 1) /\ q \in Int
  BY Division
<1> HIDE DEF p, r, q, s
<1> SUFFICES ASSUME q + 1 <= p PROVE FALSE
  BY <1>1, <1>2 DEF p, q
<1>3. m * (q + 1) <= m * p /\ m * (q + 1) = m * q + m
  BY <1>1, <1>2
<1> DEFINE u == m * p
           v == m * q
<1>4. u \in Int /\ v \in Int /\ v + m <= u /\ a = u + r /\ b = v + s
  BY <1>1, <1>2, <1>3
<1> HIDE DEF u, v
<1> QED
  BY <1>1, <1>2, <1>4

\* Three numbers, the last of them the length of a, then a and b.
HeadedBy(s, x, y, a, b) ==
  /\ s \in Seq(Int) /\ Len(s) = 3 + Len(a) + Len(b)
  /\ s[1] = x /\ s[2] = y /\ s[3] = Len(a)
  /\ SubSeq(s, 4, 3 + Len(a)) = a
  /\ SubSeq(s, 4 + Len(a), Len(s)) = b

(* The two parts of an elias_fano block follow its three counts.            *)
LEMMA HeadedParts ==
  ASSUME NEW x \in Int, NEW y \in Int, NEW a \in Seq(Int), NEW b \in Seq(Int)
  PROVE  HeadedBy(<<x, y, Len(a)>> \o a \o b, x, y, a, b)
<1> DEFINE h == <<x, y, Len(a)>>
           s == h \o a \o b
           T == Int
           n == Len(a)
           m == Len(b)
<1>1. h \in Seq(Int) /\ Len(h) = 3 /\ h[1] = x /\ h[2] = y /\ h[3] = n /\ n \in Nat /\ m \in Nat
  OBVIOUS
<1> HIDE DEF h
<1>2. s \in Seq(Int) /\ Len(s) = 3 + n + m
      /\ (\A i \in 1..3 : s[i] = h[i])
      /\ (\A i \in 1..n : s[3 + i] = a[i])
      /\ (\A i \in 1..m : s[3 + n + i] = b[i])
  <2> DEFINE g == h \o a
             U == Int
  <2>0. U \cup U = Int /\ h \in Seq(U) /\ a \in Seq(U) /\ b \in Seq(U)
    BY <1>1
  <2>1. /\ g \in Seq(U \cup U) /\ Len(g) = Len(h) + Len(a)
        /\ (\A i \in 1..Len(h) : g[i] = h[i]) /\ (\A i \in 1..Len(a) : g[Len(h) + i] = a[i])
    <3> HIDE DEF U
    <3> QED BY <2>0, ConcatElements
  <2>2. g \in Seq(U)
    BY <2>1
  <2> HIDE DEF g
  <2>3. s = g \o b
    BY DEF g
  <2> HIDE DEF s
  <2>4. /\ s \in Seq(U \cup U) /\ Len(s) = Len(g) + Len(b)
        /\ (\A i \in 1..Len(g) : s[i] = g[i]) /\ (\A i \in 1..Len(b) : s[Len(g) + i] = b[i])
    <3> HIDE DEF U
    <3> QED BY <2>0, <2>2, <2>3, ConcatElements
  <2>5. Len(g) = 3 + n
    BY <1>1, <2>1
  <2>6. \A i \in 1..n : 3 + i \in 1..(3 + n) /\ g[3 + i] = a[i]
    BY <1>1, <2>1
  <2>7. \A i \in 1..3 : i \in 1..(3 + n) /\ g[i] = h[i]
    BY <1>1, <2>1
  <2>8. Len(s) = 3 + n + m /\ \A i \in 1..m : s[3 + n + i] = b[i]
    BY <2>4, <2>5, <1>1
  <2> QED BY <2>4, <2>5, <2>6, <2>7, <2>8
<1>3. s[1] = x /\ s[2] = y /\ s[3] = n
  BY <1>1, <1>2
<1> HIDE DEF s
<1> DEFINE c == SubSeq(s, 4, 3 + n)
           d == SubSeq(s, 4 + n, 3 + n + m)
<1>4. c = a
  <2>1. c \in Seq(T) /\ Len(c) = n /\ \A i \in 1..n : c[i] = a[i]
    BY <1>1, <1>2
  <2>2. a \in Seq(T) /\ Len(a) = n
    OBVIOUS
  <2> HIDE DEF c, n, T
  <2> QED BY <2>1, <2>2, SameSeq
<1>5. d = b
  <2>1. d \in Seq(T) /\ Len(d) = m /\ \A i \in 1..m : d[i] = b[i]
    <3>1. Len(d) = m
      BY <1>1, <1>2
    <3>2. ASSUME NEW i \in 1..m PROVE d[i] = b[i]
      <4>1. d[i] = s[(4 + n) + i - 1]
        BY <3>1, <1>1, <1>2
      <4>2. (4 + n) + i - 1 = 3 + n + i
        BY <1>1
      <4> QED BY <4>1, <4>2, <1>2
    <3>3. d \in Seq(T)
      BY <1>1, <1>2
    <3> QED BY <3>1, <3>2, <3>3
  <2>2. b \in Seq(T) /\ Len(b) = m
    OBVIOUS
  <2> HIDE DEF d, m, T
  <2> QED BY <2>1, <2>2, SameSeq
<1> HIDE DEF c, d
<1>6. SubSeq(s, 4, 3 + n) = a /\ SubSeq(s, 4 + n, Len(s)) = b
  BY <1>2, <1>4, <1>5 DEF c, d
<1> QED
  BY <1>2, <1>3, <1>6 DEF HeadedBy, s, h

\* hs and ls are the high and the low parts of xs.
SplitsInto(xs, l, hs, ls) ==
  /\ hs \in Seq(Nat) /\ ls \in Seq(Nat) /\ Len(hs) = Len(xs) /\ Len(ls) = Len(xs)
  /\ \A i \in 1..Len(xs) :
       /\ hs[i] = xs[i] \div Pow(l) /\ ls[i] = xs[i] % Pow(l) /\ FitsIn(ls[i], l)
       /\ hs[i] * Pow(l) + ls[i] = xs[i]

(* All values at once: their high and low parts.                            *)
LEMMA SplitsAre ==
  ASSUME NEW xs \in Seq(Nat), NEW l \in Nat
  PROVE  \E hs, ls : SplitsInto(xs, l, hs, ls)
<1> DEFINE n == Len(xs)
           hs == [i \in 1..n |-> xs[i] \div Pow(l)]
           ls == [i \in 1..n |-> xs[i] % Pow(l)]
<1>1. n \in Nat /\ \A i \in 1..n : xs[i] \in Nat
  OBVIOUS
<1>2. ASSUME NEW i \in 1..n
      PROVE  /\ hs[i] \in Nat /\ ls[i] \in Nat /\ FitsIn(ls[i], l)
             /\ hs[i] * Pow(l) + ls[i] = xs[i]
             /\ hs[i] = xs[i] \div Pow(l) /\ ls[i] = xs[i] % Pow(l)
  <2> DEFINE x == xs[i]
  <2>1. x \in Nat
    BY <1>1
  <2>2. hs[i] = x \div Pow(l) /\ ls[i] = x % Pow(l)
    OBVIOUS
  <2> HIDE DEF hs, ls, x
  <2>3. /\ x \div Pow(l) \in Nat /\ x % Pow(l) \in Nat /\ FitsIn(x % Pow(l), l)
        /\ (x \div Pow(l)) * Pow(l) + (x % Pow(l)) = x
    BY <2>1, SplitHigh
  <2> QED BY <2>2, <2>3 DEF x
<1>3. hs = [i \in 1..n |-> hs[i]] /\ ls = [i \in 1..n |-> ls[i]]
  OBVIOUS
<1> HIDE DEF hs, ls
<1>4. hs \in Seq(Nat) /\ ls \in Seq(Nat) /\ Len(hs) = n /\ Len(ls) = n
  BY <1>1, <1>2, <1>3
<1>5. SplitsInto(xs, l, hs, ls)
  BY <1>2, <1>4 DEF SplitsInto
<1> QED
  BY <1>5

\* The gaps between high parts, in unary.
GapsFrom(hs) == [i \in 1..Len(hs) |-> Unary(Up(hs, i) - Up(hs, i - 1))]

(* The high parts of values that increase do not decrease.                  *)
LEMMA HighPartsGrow ==
  ASSUME NEW xs \in Seq(Nat), NEW l \in Nat, NEW hs, NEW ls, SplitsInto(xs, l, hs, ls),
         Increasing(xs)
  PROVE  GapsOf(GapsFrom(hs), hs)
<1> DEFINE n == Len(xs)
           ss == [i \in 1..n |-> Unary(Up(hs, i) - Up(hs, i - 1))]
           T == Seq({0, 1})
<1>1. n \in Nat /\ Len(hs) = n /\ hs \in Seq(Nat) /\ \A i \in 1..n : xs[i] \in Nat
  BY DEF SplitsInto
<1>2. ASSUME NEW i \in 1..n
      PROVE  Up(hs, i - 1) \in Nat /\ Up(hs, i) \in Nat /\ Up(hs, i - 1) <= Up(hs, i)
  <2>1. hs[i] \in Nat /\ Up(hs, i) = hs[i]
    BY <1>1 DEF Up
  <2>2. CASE i = 1
    <3>1. Up(hs, i - 1) = 0
      BY <2>2 DEF Up
    <3> QED BY <2>1, <3>1
  <2>3. CASE i # 1
    <3> DEFINE j == i - 1
    <3>1. j \in 1..n /\ j \in 1..n - 1 /\ j + 1 = i /\ j # 0
      BY <2>3, <1>1
    <3>2. xs[j] < xs[i] /\ xs[j] \in Nat /\ xs[i] \in Nat
      BY <3>1, <1>1 DEF Increasing
    <3> HIDE DEF j
    <3>3. xs[j] \div Pow(l) <= xs[i] \div Pow(l)
      <4> DEFINE a == xs[j]
                 b == xs[i]
                 m == Pow(l)
      <4>0. a \in Nat /\ b \in Nat /\ a < b /\ m \in Nat \ {0}
        BY <3>2, PowIs
      <4> HIDE DEF a, b, m
      <4>1. a <= b
        BY <4>0
      <4>2. a \div m <= b \div m
        BY <4>0, <4>1, DivideGrows
      <4> QED BY <4>2 DEF a, b, m
    <3>4. hs[j] = xs[j] \div Pow(l) /\ hs[i] = xs[i] \div Pow(l)
      BY <3>1 DEF SplitsInto
    <3>5. hs[j] <= hs[i]
      <4> DEFINE a == xs[j] \div Pow(l)
                 b == xs[i] \div Pow(l)
      <4>1. hs[j] = a /\ hs[i] = b /\ a <= b
        BY <3>3, <3>4
      <4> HIDE DEF a, b
      <4> QED BY <4>1
    <3>6. hs[j] \in Nat /\ Up(hs, j) = hs[j]
      BY <3>1, <1>1 DEF Up
    <3> QED BY <2>1, <3>5, <3>6 DEF j
  <2> QED BY <2>2, <2>3
<1>3. ASSUME NEW i \in 1..n
      PROVE  ss[i] \in T /\ UnaryOf(ss[i], Up(hs, i) - Up(hs, i - 1))
  <2> DEFINE gap == Up(hs, i) - Up(hs, i - 1)
  <2>1. gap \in Nat
    <3> DEFINE a == Up(hs, i - 1)
               b == Up(hs, i)
    <3>1. a \in Nat /\ b \in Nat /\ a <= b
      BY <1>2
    <3> HIDE DEF a, b
    <3>2. b - a \in Nat
      BY <3>1
    <3> QED BY <3>2 DEF a, b
  <2>2. ss[i] = Unary(gap)
    OBVIOUS
  <2> HIDE DEF gap
  <2>3. UnaryOf(ss[i], gap)
    BY <2>1, <2>2, UnaryIs
  <2> QED BY <2>3 DEF UnaryOf, gap
<1>4. ss \in Seq(T) /\ Len(ss) = n
  <2>1. ss = [i \in 1..n |-> ss[i]]
    OBVIOUS
  <2> HIDE DEF T, ss
  <2> QED BY <1>1, <1>3, <2>1
<1>5. ss = GapsFrom(hs)
  BY <1>1 DEF GapsFrom
<1> HIDE DEF ss
<1>6. GapsOf(ss, hs)
  BY <1>1, <1>2, <1>3, <1>4 DEF GapsOf
<1> QED
  BY <1>5, <1>6

\* The low parts as bits, one after the other.
LowOf(ts, ls, l) ==
  /\ ts \in Seq(Seq({0, 1})) /\ Len(ts) = Len(ls)
  /\ \A i \in 1..Len(ls) : Len(ts[i]) = l /\ Number(ts[i]) = ls[i]

\* The low parts in bits.
LowBits(ls, l) == [i \in 1..Len(ls) |-> Bits(ls[i], l)]

(* The low parts are written with l bits each.                              *)
LEMMA LowPartsAre ==
  ASSUME NEW l \in Nat, NEW ls \in Seq(Nat), \A i \in 1..Len(ls) : FitsIn(ls[i], l)
  PROVE  LowOf(LowBits(ls, l), ls, l)
<1> DEFINE n == Len(ls)
           ts == [i \in 1..n |-> Bits(ls[i], l)]
           T == Seq({0, 1})
<1>1. n \in Nat /\ \A i \in 1..n : ls[i] \in Nat
  OBVIOUS
<1>2. ASSUME NEW i \in 1..n PROVE ts[i] \in T /\ Len(ts[i]) = l /\ Number(ts[i]) = ls[i]
  BY <1>1, BitsAre, NumberOfBits
<1>3. ts \in Seq(T) /\ Len(ts) = n
  <2>1. ts = [i \in 1..n |-> ts[i]]
    OBVIOUS
  <2> HIDE DEF T, ts
  <2> QED BY <1>1, <1>2, <2>1
<1>4. ts = LowBits(ls, l)
  BY DEF LowBits
<1> HIDE DEF ts
<1>5. LowOf(ts, ls, l)
  BY <1>2, <1>3 DEF LowOf
<1> QED
  BY <1>4, <1>5

(* Each low part is read from its place, although the last byte is filled.  *)
LEMMA LowPartsRestore ==
  ASSUME NEW l \in Nat, NEW ls \in Seq(Nat), NEW ts, LowOf(ts, ls, l),
         NEW out, Restores(out, FlattenSeq(ts))
  PROVE  /\ Len(ls) * l <= Len(out)
         /\ \A i \in 1..Len(ls) : Number(SubSeq(out, (i - 1) * l + 1, i * l)) = ls[i]
<1>1. ts \in Seq(Seq({0, 1})) /\ Len(ts) = Len(ls) /\ \A i \in 1..Len(ts) : Len(ts[i]) = l
  BY DEF LowOf
<1>2. Regular(ts, l)
  BY <1>1, RegularFlat
<1>3. Len(ls) * l <= Len(out)
  BY <1>1, <1>2 DEF Regular, Restores
<1>4. ASSUME NEW i \in 1..Len(ls) PROVE Number(SubSeq(out, (i - 1) * l + 1, i * l)) = ls[i]
  <2>1. SubSeq(out, (i - 1) * l + 1, i * l) = ts[i]
    BY <1>1, Pieces
  <2>2. Number(ts[i]) = ls[i]
    BY DEF LowOf
  <2> QED BY <2>1, <2>2
<1> QED
  BY <1>3, <1>4

\* Reading bytes as elias_fano when they are headed by n and l.
EliasRead(bytes, n, l, a, b, t) ==
  LET values == [i \in 1..n |->
                   Highs(FromBytes(a))[i] * Pow(l)
                     + Number(SubSeq(FromBytes(b), (i - 1) * l + 1, i * l))]
  IN IF Len(Highs(FromBytes(a))) < n \/ Len(FromBytes(b)) < n * l THEN Fail
     ELSE IF \E i \in 1..n : ~InRange(values[i], t) THEN Fail
     ELSE values

(* A block with n values and l low bits is read from its two parts.         *)
LEMMA FromEliasFanoIs ==
  ASSUME NEW bytes, NEW n \in Nat, NEW l \in Nat, l < WordBits,
         NEW a \in Seq(Int), NEW b \in Seq(Int), HeadedBy(bytes, n, l, a, b), NEW t
  PROVE  FromEliasFano(bytes, t) = EliasRead(bytes, n, l, a, b, t)
<1>1. /\ Len(bytes) = 3 + Len(a) + Len(b) /\ bytes[1] = n /\ bytes[2] = l /\ bytes[3] = Len(a)
      /\ SubSeq(bytes, 4, 3 + bytes[3]) = a /\ SubSeq(bytes, 4 + bytes[3], Len(bytes)) = b
  BY DEF HeadedBy
<1>2. Len(a) \in Nat /\ Len(b) \in Nat /\ WordBits \in Nat
  BY CodersAssumption
<1>3. ~(Len(bytes) < 3) /\ ~(bytes[2] >= WordBits \/ Len(bytes) < 3 + bytes[3])
  BY <1>1, <1>2
<1> QED
  BY <1>1, <1>3, Zenon DEF FromEliasFano, EliasRead

(* No values are a block of three zeros.                                    *)
LEMMA EmptyEliasFano ==
  ASSUME NEW t
  PROVE  FromEliasFano(<<0, 0, 0>>, t) = <<>>
<1> DEFINE e == <<>>
           s == <<0, 0, Len(e)>> \o e \o e
           bits == FromBytes(e)
<1>1. s = <<0, 0, 0>> /\ e \in Seq(Int) /\ 0 < WordBits /\ Len(e) = 0
  BY CodersAssumption
<1>2. HeadedBy(s, 0, 0, e, e)
  <2> DEFINE z == 0
  <2>1. e \in Seq(Int) /\ z \in Int
    OBVIOUS
  <2> HIDE DEF e, z
  <2>2. HeadedBy(<<z, z, Len(e)>> \o e \o e, z, z, e, e)
    BY <2>1, HeadedParts
  <2> QED BY <2>2 DEF z
<1> HIDE DEF s
<1>3. FromEliasFano(s, t) = EliasRead(s, 0, 0, e, e, t)
  <2> DEFINE z == 0
  <2>1. e \in Seq(Int) /\ z \in Nat /\ z < WordBits /\ HeadedBy(s, z, z, e, e)
    BY <1>1, <1>2
  <2> HIDE DEF e, z
  <2>2. FromEliasFano(s, t) = EliasRead(s, z, z, e, e, t)
    BY <2>1, FromEliasFanoIs
  <2> QED BY <2>2 DEF z
<1>4. bits \in Seq({0, 1})
  <2> DEFINE ss == [i \in DOMAIN e |-> Bits(e[i], ByteBits)]
  <2>1. ss \in Seq(Seq({0, 1}))
    OBVIOUS
  <2>2. bits = FlattenSeq(ss)
    BY DEF FromBytes
  <2> HIDE DEF ss
  <2> QED BY <2>1, <2>2, FlattenType
<1> HIDE DEF bits
<1> DEFINE hs == Highs(bits)
<1>5. hs \in Seq(Nat)
  <2>1. PICK f : GapStates(f, bits) /\ hs = f[Len(bits)].out
    BY <1>4, HighsIs
  <2>2. f[Len(bits)] \in GapState
    BY <1>4, <2>1 DEF GapStates
  <2> QED BY <2>1, <2>2 DEF GapState
<1> HIDE DEF hs
<1>6. ~(Len(hs) < 0 \/ Len(bits) < 0 * 0)
  BY <1>4, <1>5
<1>7. EliasRead(s, 0, 0, e, e, t) = <<>>
  <2>1. ~(Len(Highs(FromBytes(e))) < 0 \/ Len(FromBytes(e)) < 0 * 0)
    BY <1>6 DEF hs, bits
  <2> HIDE DEF e
  <2> DEFINE values == [i \in 1..0 |->
                   Highs(FromBytes(e))[i] * Pow(0)
                     + Number(SubSeq(FromBytes(e), (i - 1) * 0 + 1, i * 0))]
  <2>2. values = <<>> /\ ~\E i \in 1..0 : ~InRange(values[i], t)
    OBVIOUS
  <2> QED BY <2>1, <2>2 DEF EliasRead
<1> QED
  BY <1>1, <1>3, <1>7

\* What is written: the high parts in unary, and the low ones.
EliasWritten(xs, l, hs, ls, a, b) ==
  /\ SplitsInto(xs, l, hs, ls)
  /\ GapsOf(GapsFrom(hs), hs) /\ LowOf(LowBits(ls, l), ls, l)
  /\ HeldIn(a, FromBytes(a), FlattenSeq(GapsFrom(hs)))
  /\ HeldIn(b, FromBytes(b), FlattenSeq(LowBits(ls, l)))
  /\ ToEliasFano(xs) = <<Len(xs), l, Len(a)>> \o a \o b

(* What elias_fano accepts, it writes in these parts.                       *)
LEMMA ToEliasFanoIs ==
  ASSUME NEW t \in Sorted, NEW xs, Fits(xs, t), Increasing(xs), xs # <<>>
  PROVE  \E hs, ls, a, b : EliasWritten(xs, LowWidth(xs), hs, ls, a, b)
<1>0. t \in Unsigned /\ t # "bytes" /\ t \in Numeric
  BY CodersAssumption DEF Integral, Numeric
<1> DEFINE n == Len(xs)
           l == LowWidth(xs)
<1>1. l \in Nat /\ l < WordBits
  BY LowWidthIs
<1>2. xs \in Seq(Int) /\ n \in Nat /\ \A i \in 1..n : Within(xs[i], t)
  BY <1>0 DEF Fits
<1>3. xs \in Seq(Nat)
  <2>1. \A i \in 1..n : xs[i] \in Nat
    BY <1>0, <1>2, UnsignedIs
  <2> QED BY <1>2, <2>1
<1>4. Increasing(xs)
  OBVIOUS
<1> HIDE DEF l
<1>5. PICK hs, ls : SplitsInto(xs, l, hs, ls)
  BY <1>1, <1>3, SplitsAre
<1>6. /\ hs \in Seq(Nat) /\ ls \in Seq(Nat) /\ Len(hs) = n /\ Len(ls) = n
      /\ \A i \in 1..n :
           /\ hs[i] = xs[i] \div Pow(l) /\ ls[i] = xs[i] % Pow(l) /\ FitsIn(ls[i], l)
           /\ hs[i] * Pow(l) + ls[i] = xs[i]
  BY <1>5 DEF SplitsInto
<1> DEFINE gs == GapsFrom(hs)
           ts == LowBits(ls, l)
           a == ToBytes(FlattenSeq(gs))
           b == ToBytes(FlattenSeq(ts))
           bytes == <<n, l, Len(a)>> \o a \o b
<1>7. GapsOf(gs, hs)
  BY <1>1, <1>3, <1>4, <1>5, HighPartsGrow
<1>8. LowOf(ts, ls, l)
  <2>1. \A i \in 1..Len(ls) : FitsIn(ls[i], l)
    BY <1>6
  <2> QED BY <1>1, <1>6, <2>1, LowPartsAre
<1>9. ToEliasFano(xs) = bytes
  <2> DEFINE High(i) == IF i = 0 THEN 0 ELSE xs[i] \div Pow(l)
  <2>1. gs = [i \in DOMAIN xs |-> Unary(High(i) - High(i - 1))]
    <3>1. ASSUME NEW i \in 1..n
          PROVE  Up(hs, i) = High(i) /\ Up(hs, i - 1) = High(i - 1)
      <4>1. i - 1 = 0 \/ i - 1 \in 1..n
        BY <1>2
      <4> QED BY <4>1, <1>6 DEF Up
    <3>2. DOMAIN xs = 1..n /\ Len(hs) = n
      BY <1>2, <1>6
    <3> HIDE DEF High
    <3> QED BY <3>1, <3>2 DEF GapsFrom
  <2>2. ts = [i \in DOMAIN xs |-> Bits(xs[i] % Pow(l), l)]
    BY <1>2, <1>6 DEF LowBits
  <2> HIDE DEF gs, ts
  <2> QED BY <1>4, <2>1, <2>2, Zenon DEF ToEliasFano, l
<1>10. HeldIn(a, FromBytes(a), FlattenSeq(gs)) /\ HeldIn(b, FromBytes(b), FlattenSeq(ts))
  <2>1. gs \in Seq(Seq({0, 1})) /\ ts \in Seq(Seq({0, 1}))
    BY <1>7, <1>8 DEF GapsOf, LowOf
  <2> HIDE DEF gs, ts
  <2>2. FlattenSeq(gs) \in Seq({0, 1}) /\ FlattenSeq(ts) \in Seq({0, 1})
    BY <2>1, FlattenType
  <2> QED BY <2>2, BytesRestore
<1>11. EliasWritten(xs, l, hs, ls, a, b)
  BY <1>5, <1>7, <1>8, <1>9, <1>10 DEF EliasWritten
<1> QED
  BY <1>11 DEF l

(* elias_fano, whenever it accepts the values.                              *)
LEMMA EliasFanoRoundTrip ==
  ASSUME NEW t \in Sorted, NEW xs, Fits(xs, t), ToEliasFano(xs) # Fail
  PROVE  ToEliasFano(xs) \in Seq(Int) /\ FromEliasFano(ToEliasFano(xs), t) = xs
<1>1. t \in Unsigned /\ t # "bytes" /\ t \in Numeric
  BY CodersAssumption DEF Integral, Numeric
<1>2. CASE xs = <<>>
  <2>1. ToEliasFano(xs) = <<0, 0, 0>>
    BY <1>2 DEF ToEliasFano
  <2>2. <<0, 0, 0>> \in Seq(Int)
    OBVIOUS
  <2> QED BY <1>2, <2>1, <2>2, EmptyEliasFano
<1>3. CASE xs # <<>>
  <2> DEFINE n == Len(xs)
             l == LowWidth(xs)
  <2>1. l \in Nat /\ l < WordBits
    BY <1>3, LowWidthIs
  <2>2. xs \in Seq(Int) /\ n \in Nat /\ \A i \in 1..n : Within(xs[i], t)
    BY <1>1 DEF Fits
  <2>5. PICK hs, ls, a, b : EliasWritten(xs, l, hs, ls, a, b)
    BY <1>3, ToEliasFanoIs DEF ToEliasFano
  <2> HIDE DEF l
  <2>6. /\ hs \in Seq(Nat) /\ ls \in Seq(Nat) /\ Len(hs) = n /\ Len(ls) = n
        /\ \A i \in 1..n :
             /\ hs[i] = xs[i] \div Pow(l) /\ ls[i] = xs[i] % Pow(l) /\ FitsIn(ls[i], l)
             /\ hs[i] * Pow(l) + ls[i] = xs[i]
    BY <2>5 DEF EliasWritten, SplitsInto
  <2> DEFINE gs == GapsFrom(hs)
             ts == LowBits(ls, l)
             bytes == <<n, l, Len(a)>> \o a \o b
  <2>7. GapsOf(gs, hs) /\ LowOf(ts, ls, l)
    BY <2>5 DEF EliasWritten
  <2>8. LowOf(ts, ls, l)
    BY <2>7
  <2>9. ToEliasFano(xs) = bytes
    BY <2>5 DEF EliasWritten
  <2>10. HeldIn(a, FromBytes(a), FlattenSeq(gs)) /\ HeldIn(b, FromBytes(b), FlattenSeq(ts))
    BY <2>5 DEF EliasWritten
  <2> HIDE DEF gs, ts
  <2>11. a \in Seq(Int) /\ b \in Seq(Int)
         /\ Restores(FromBytes(a), FlattenSeq(gs)) /\ Restores(FromBytes(b), FlattenSeq(ts))
    BY <2>10 DEF HeldIn
  <2>12. HeadedBy(bytes, n, l, a, b)
    <3>1. n \in Int /\ l \in Int
      BY <2>1, <2>2
    <3> HIDE DEF n
    <3> QED BY <2>11, <3>1, HeadedParts
  <2> HIDE DEF bytes
  <2>13. FromEliasFano(bytes, t) = EliasRead(bytes, n, l, a, b, t)
    <3> HIDE DEF n
    <3> QED BY <2>1, <2>2, <2>11, <2>12, FromEliasFanoIs
  <2> DEFINE H == Highs(FromBytes(a))
             low == FromBytes(b)
  <2>14. Begins(hs, H)
    BY <2>7, <2>11, GapsRestore
  <2>15. /\ n * l <= Len(low)
         /\ \A i \in 1..n : Number(SubSeq(low, (i - 1) * l + 1, i * l)) = ls[i]
    <3>1. /\ Len(ls) * l <= Len(low)
          /\ \A i \in 1..Len(ls) : Number(SubSeq(low, (i - 1) * l + 1, i * l)) = ls[i]
      <4> HIDE DEF low
      <4>1. Restores(low, FlattenSeq(ts))
        BY <2>11 DEF low
      <4> QED BY <2>1, <2>6, <2>8, <4>1, LowPartsRestore
    <3> QED BY <2>6, <3>1
  <2> DEFINE values == [i \in 1..n |->
                          H[i] * Pow(l) + Number(SubSeq(low, (i - 1) * l + 1, i * l))]
  <2> HIDE DEF H, low
  <2>16. n <= Len(H) /\ \A i \in 1..n : H[i] = hs[i]
    BY <2>6, <2>14 DEF Begins
  <2>17. ASSUME NEW i \in 1..n PROVE values[i] = xs[i]
    <3>1. values[i] = H[i] * Pow(l) + Number(SubSeq(low, (i - 1) * l + 1, i * l))
      OBVIOUS
    <3>2. H[i] = hs[i] /\ Number(SubSeq(low, (i - 1) * l + 1, i * l)) = ls[i]
      BY <2>15, <2>16
    <3>3. values[i] = hs[i] * Pow(l) + ls[i]
      BY <3>1, <3>2, Zenon
    <3> QED BY <3>3, <2>6
  <2>18. values = xs
    <3>1. xs = [i \in 1..n |-> xs[i]]
      BY <2>2
    <3>2. values = [i \in 1..n |-> values[i]]
      OBVIOUS
    <3> HIDE DEF values
    <3> QED BY <3>1, <3>2, <2>17
  <2>19. ~(Len(H) < n \/ Len(low) < n * l)
    <3> DEFINE m == n * l
    <3>1. m \in Nat
      BY <2>1, <2>2
    <3>2. Len(H) \in Nat
      <4>1. FromBytes(a) \in Seq({0, 1})
        BY <2>11 DEF Restores
      <4>2. PICK f : GapStates(f, FromBytes(a)) /\ H = f[Len(FromBytes(a))].out
        BY <4>1, HighsIs DEF H
      <4>3. f[Len(FromBytes(a))] \in GapState
        BY <4>1, <4>2 DEF GapStates
      <4> QED BY <4>2, <4>3 DEF GapState
    <3>3. Len(low) \in Nat
      BY <2>11 DEF Restores, low
    <3> HIDE DEF m
    <3>4. m <= Len(low)
      BY <2>15 DEF m
    <3>5. ~(Len(H) < n \/ Len(low) < m)
      BY <3>1, <3>2, <3>3, <3>4, <2>16, <2>2
    <3> QED BY <3>5 DEF m
  <2>20. \A i \in 1..n : InRange(values[i], t)
    BY <1>1, <2>2, <2>17, InRangeIs DEF Within
  <2>21. EliasRead(bytes, n, l, a, b, t) = values
    <3>1. ~\E i \in 1..n : ~InRange(values[i], t)
      <4> HIDE DEF values
      <4> QED BY <2>20
    <3> QED BY <2>19, <3>1, Zenon DEF EliasRead, H, low
  <2>22. bytes \in Seq(Int)
    BY <2>12 DEF HeadedBy
  <2> QED BY <2>9, <2>13, <2>18, <2>21, <2>22 DEF bytes
<1> QED
  BY <1>2, <1>3

-----------------------------------------------------------------------------
(* gorilla                                                                  *)

(* The bits of a number that fits in c of them.                             *)
LEMMA BitsOf ==
  ASSUME NEW c \in Nat, NEW n, FitsIn(n, c)
  PROVE  /\ n \in Nat /\ Bits(n, c) \in Seq({0, 1}) /\ Len(Bits(n, c)) = c
         /\ \A i \in 1..c : Bits(n, c)[i] \in {0, 1}
<1> DEFINE s == Bits(n, c)
<1>1. n \in Nat
  BY PowIs DEF FitsIn
<1>2. s \in Seq({0, 1}) /\ Len(s) = c
  BY <1>1, BitsAre
<1> HIDE DEF s
<1>3. \A i \in 1..c : s[i] \in {0, 1}
  BY <1>2
<1> QED
  BY <1>1, <1>2, <1>3 DEF s

\* The exclusive or of two numbers in bits.
XorBits(a, b, w) == [i \in 1..w |-> (Bits(a, w)[i] + Bits(b, w)[i]) % 2]

(* Exclusive or, bit by bit.                                                *)
LEMMA XorIs ==
  ASSUME NEW w \in Nat, NEW a, FitsIn(a, w), NEW b, FitsIn(b, w)
  PROVE  /\ FitsIn(Xor(a, b, w), w) /\ Xor(a, b, w) \in Nat
         /\ Bits(Xor(a, b, w), w) = XorBits(a, b, w)
<1> DEFINE x == XorBits(a, b, w)
           p == Bits(a, w)
           q == Bits(b, w)
<1>1. a \in Nat /\ b \in Nat /\ Pow(w) \in Nat
  BY PowIs DEF FitsIn
<1>2. \A i \in 1..w : p[i] \in {0, 1} /\ q[i] \in {0, 1}
  BY <1>1, BitsOf
<1>3. x \in Seq({0, 1}) /\ Len(x) = w
  <2>1. ASSUME NEW i \in 1..w PROVE x[i] \in {0, 1}
    <3>1. x[i] = (p[i] + q[i]) % 2
      BY DEF XorBits
    <3> HIDE DEF p, q, x
    <3> QED BY <1>2, <3>1
  <2>2. x = [i \in 1..w |-> x[i]]
    BY DEF XorBits
  <2> HIDE DEF x
  <2> QED BY <2>1, <2>2
<1>4. Xor(a, b, w) = Number(x)
  BY DEF Xor, XorBits
<1> HIDE DEF x
<1>5. FitsIn(Number(x), Len(x)) /\ Bits(Number(x), Len(x)) = x
  BY <1>3, BitsOfNumber
<1>6. FitsIn(Number(x), w) /\ Bits(Number(x), w) = x
  BY <1>3, <1>5
<1>7. Number(x) \in Nat
  BY <1>1, <1>6 DEF FitsIn
<1> QED
  BY <1>4, <1>6, <1>7 DEF x

(* Applying it twice gives the value back.                                  *)
LEMMA XorUndone ==
  ASSUME NEW w \in Nat, NEW a, FitsIn(a, w), NEW b, FitsIn(b, w)
  PROVE  Xor(a, Xor(a, b, w), w) = b
<1> DEFINE x == Xor(a, b, w)
           p == Bits(a, w)
           q == Bits(b, w)
           r == Bits(x, w)
           y == XorBits(a, x, w)
<1>1. a \in Nat /\ b \in Nat
  BY PowIs DEF FitsIn
<1>2. /\ \A i \in 1..w : p[i] \in {0, 1} /\ q[i] \in {0, 1}
      /\ q \in Seq({0, 1}) /\ Len(q) = w
  BY <1>1, BitsOf
<1>3. r = XorBits(a, b, w) /\ FitsIn(x, w)
  BY XorIs
<1>4. \A i \in 1..w : r[i] = (p[i] + q[i]) % 2
  BY <1>3 DEF XorBits
<1>5. y = [i \in 1..w |-> (p[i] + r[i]) % 2]
  BY DEF XorBits
<1> HIDE DEF x, p, q, r, y
<1>6. ASSUME NEW i \in 1..w PROVE (p[i] + r[i]) % 2 = q[i]
  <2> DEFINE u == p[i]
             v == q[i]
  <2>1. u \in {0, 1} /\ v \in {0, 1} /\ r[i] = (u + v) % 2
    BY <1>2, <1>4
  <2> HIDE DEF u, v
  <2>2. (u + ((u + v) % 2)) % 2 = v
    BY <2>1
  <2> QED BY <2>1, <2>2 DEF u, v
<1>7. y = q
  <2>1. y \in Seq({0, 1}) /\ Len(y) = w /\ \A i \in 1..w : y[i] = q[i]
    <3>1. \A i \in 1..w : (p[i] + r[i]) % 2 = q[i] /\ q[i] \in {0, 1}
      BY <1>2, <1>6
    <3>2. y = [i \in 1..w |-> q[i]]
      BY <1>5, <3>1
    <3> QED BY <3>1, <3>2
  <2> QED BY <1>2, <2>1, SameSeq
<1>8. Xor(a, x, w) = Number(y)
  BY DEF Xor, XorBits, y
<1>9. Number(q) = b
  BY NumberOfBits DEF q
<1> QED
  BY <1>7, <1>8, <1>9 DEF x

(* Numbers whose exclusive or is 0 are the same.                            *)
LEMMA XorZero ==
  ASSUME NEW w \in Nat, NEW a, FitsIn(a, w), NEW b, FitsIn(b, w), Xor(a, b, w) = 0
  PROVE  a = b
<1> DEFINE p == Bits(a, w)
           q == Bits(b, w)
           z == 0
<1>1. a \in Nat /\ b \in Nat /\ z \in Nat
  BY PowIs DEF FitsIn
<1>2. /\ p \in Seq({0, 1}) /\ Len(p) = w /\ q \in Seq({0, 1}) /\ Len(q) = w
      /\ \A i \in 1..w : p[i] \in {0, 1} /\ q[i] \in {0, 1}
  BY <1>1, BitsOf
<1>3. Bits(z, w) = XorBits(a, b, w)
  BY XorIs
<1>4. ASSUME NEW i \in 1..w PROVE Bits(z, w)[i] = 0
  <2> DEFINE m == Pow(w - i)
  <2>1. m \in Nat \ {0}
    BY PowIs
  <2>2. Bits(z, w)[i] = (z \div m) % 2
    BY <1>1, BitsAre
  <2> HIDE DEF m
  <2>3. 0 \div m = 0
    BY <2>1
  <2> QED BY <2>2, <2>3
<1>5. \A i \in 1..w : (p[i] + q[i]) % 2 = 0
  BY <1>3, <1>4 DEF XorBits
<1> HIDE DEF p, q
<1>6. ASSUME NEW i \in 1..w PROVE p[i] = q[i]
  BY <1>2, <1>5
<1>7. p = q
  BY <1>2, <1>6, SameSeq
<1>8. Number(p) = a /\ Number(q) = b
  BY NumberOfBits DEF p, q
<1> QED
  BY <1>7, <1>8

(* 2 to the n is more than n.                                               *)
LEMMA LessThanPow ==
  \A n \in Nat : n < Pow(n)
<1> DEFINE S == {n \in Nat : n < Pow(n)}
<1>1. 0 \in S
  BY PowIs
<1>2. ASSUME NEW k \in Nat \ {0}, k - 1 \in S PROVE k \in S
  <2> DEFINE j == k - 1
  <2>1. j \in Nat /\ j + 1 = k /\ j < Pow(j)
    BY <1>2
  <2> HIDE DEF j
  <2>2. Pow(j + 1) = 2 * Pow(j) /\ Pow(j) \in Nat
    BY <2>1, PowIs
  <2>3. k < Pow(j + 1)
    BY <2>1, <2>2
  <2> QED BY <2>1, <2>3
<1>3. Nat \subseteq S
  <2> HIDE DEF S
  <2> QED BY <1>1, <1>2, SetInduction
<1> QED
  BY <1>3

(* The two fields that describe a window are wide enough.                   *)
LEMMA FieldsFit ==
  ASSUME NEW t \in Floats, NEW n \in 0..(Width[t] - 1)
  PROVE  FieldBits(t) \in Nat /\ FitsIn(n, FieldBits(t))
<1> DEFINE m == Width[t] - 1
<1>1. t \in Numeric
  BY DEF Numeric
<1>2. m \in Nat /\ m < WordBits /\ WordBits \in Nat
  BY <1>1, CountIs, CodersAssumption
<1>3. WordBits < Pow(WordBits) /\ Pow(WordBits) \in Nat
  BY <1>2, LessThanPow, PowIs
<1> HIDE DEF m
<1>4. m \in Words
  BY <1>2, <1>3 DEF Words
<1> DEFINE f == BitsFor(m)
<1>5. f \in 0..WordBits /\ FitsIn(m, f)
  BY <1>4, BitsForIs
<1>6. f = FieldBits(t)
  BY DEF FieldBits, m
<1> HIDE DEF f
<1>7. f \in Nat
  BY <1>2, <1>5
<1>8. Pow(f) \in Nat /\ m < Pow(f)
  BY <1>2, <1>5, <1>7, PowIs DEF FitsIn
<1>9. FitsIn(n, f)
  BY <1>2, <1>8 DEF FitsIn, m
<1> QED
  BY <1>6, <1>7, <1>9

(* How often 2 divides a number.                                            *)
LEMMA TrailingIs ==
  ASSUME NEW n \in Words, n # 0, NEW b \in Nat, n < Pow(b)
  PROVE  /\ TrailingZeros(n) \in Nat /\ TrailingZeros(n) < b
         /\ \E q \in Nat : n = Pow(TrailingZeros(n)) * q
<1> DEFINE W == WordBits
           T == {z \in 0..W : n % Pow(z) = 0}
           Odd(z) == n % Pow(z) = 0 /\ n % Pow(z + 1) # 0
<1>1. W \in Nat /\ Pow(W) \in Nat /\ n \in Nat \ {0} /\ n < Pow(W)
  <2>1. W \in Nat /\ Pow(W) \in Nat
    BY CodersAssumption, PowIs
  <2> DEFINE p == Pow(W)
  <2>2. n \in 0..(p - 1) /\ p \in Nat
    BY <2>1 DEF Words
  <2> HIDE DEF p
  <2>3. n \in Nat \ {0} /\ n < p
    BY <2>2
  <2> QED BY <2>1, <2>3 DEF p
<1>2. 0 \in T
  <2>1. n % 1 = 0
    BY <1>1
  <2>2. Pow(0) = 1 /\ 0 \in 0..W
    BY <1>1, PowIs
  <2>3. n % Pow(0) = 0
    BY <2>1, <2>2
  <2> QED BY <2>2, <2>3
<1>3. ASSUME NEW z \in Nat, n % Pow(z) = 0 PROVE Pow(z) <= n /\ \E q \in Nat : n = Pow(z) * q
  <2> DEFINE m == Pow(z)
             q == n \div m
             r == n % m
  <2>1. m \in Nat \ {0} /\ r = 0
    BY <1>3, PowIs
  <2> HIDE DEF m
  <2>2. n = m * q + r /\ q \in Int
    BY <1>1, <2>1, Division
  <2> HIDE DEF q, r
  <2>3. n = m * q
    <3> DEFINE k == m * q
    <3>1. k \in Int
      BY <2>1, <2>2
    <3> HIDE DEF k
    <3>2. n = k + r
      BY <2>2 DEF k
    <3>3. n = k
      BY <2>1, <3>1, <3>2
    <3> QED BY <3>3 DEF k
  <2>4. q >= 1
    <3> SUFFICES ASSUME q <= 0 PROVE FALSE
      BY <2>2
    <3>1. m * q <= 0
      BY <2>1, <2>2
    <3> QED BY <2>3, <3>1, <1>1
  <2>5. m <= m * q
    BY <2>1, <2>2, <2>4
  <2> QED BY <2>2, <2>3, <2>4, <2>5 DEF m
<1>4. PICK z \in T : \A y \in T : y <= z
  <2>1. T \subseteq 0..W /\ T # {}
    BY <1>2
  <2> HIDE DEF T
  <2> QED BY <1>1, <2>1, GreatestNatural
<1>5. z \in 0..W /\ z \in Nat /\ z + 1 \in Nat /\ n % Pow(z) = 0
  BY <1>1, <1>4
<1>6. n % Pow(z + 1) # 0
  <2> SUFFICES ASSUME n % Pow(z + 1) = 0 PROVE FALSE
    OBVIOUS
  <2>1. Pow(z + 1) <= n
    BY <1>3, <1>5
  <2>2. z + 1 <= W
    <3> SUFFICES ASSUME z = W PROVE FALSE
      BY <1>1, <1>5
    <3>1. Pow(z) <= n
      BY <1>3, <1>5
    <3> QED BY <3>1, <1>1
  <2>3. z + 1 \in T
    BY <1>1, <1>5, <2>2
  <2>4. z + 1 <= z
    BY <2>3, <1>4
  <2> QED BY <2>4, <1>5
<1>7. Odd(z)
  BY <1>5, <1>6
<1>8. TrailingZeros(n) = CHOOSE v \in 0..W : Odd(v)
  BY DEF TrailingZeros
<1> HIDE DEF Odd
<1> DEFINE tz == TrailingZeros(n)
<1>9. tz \in 0..W /\ Odd(tz)
  BY <1>5, <1>7, <1>8
<1> HIDE DEF tz, W
<1>10. tz \in Nat /\ n % Pow(tz) = 0
  BY <1>1, <1>9 DEF Odd
<1>11. Pow(tz) <= n /\ \E q \in Nat : n = Pow(tz) * q
  BY <1>3, <1>10
<1>12. tz < b
  <2> SUFFICES ASSUME b <= tz PROVE FALSE
    BY <1>10
  <2>1. Pow(b) <= Pow(tz) /\ Pow(b) \in Nat /\ Pow(tz) \in Nat
    BY <1>10, PowGrows, PowIs
  <2> QED BY <2>1, <1>1, <1>11
<1> QED
  BY <1>10, <1>11, <1>12 DEF tz

\* A window of fewer than w zeros.
Known(window, w) ==
  /\ window # <<>> /\ window[1] \in Nat /\ window[2] \in Nat
  /\ window[1] + window[2] < w

\* n is inside the window.
Covers(window, n, w) ==
  /\ Known(window, w)
  /\ n \in Nat /\ n < Pow(w - window[1])
  /\ \E q \in Nat : n = Pow(window[2]) * q

(* The window of a number covers its bits.                                  *)
LEMMA OwnWindowIs ==
  ASSUME NEW t \in Floats, NEW n, FitsIn(n, Width[t]), n # 0
  PROVE  Covers(OwnWindow(n, Width[t]), n, Width[t])
<1> DEFINE w == Width[t]
           b == BitsFor(n)
           tz == TrailingZeros(n)
           own == OwnWindow(n, w)
<1>1. w \in Nat /\ w <= WordBits /\ WordBits \in Nat
  BY CountIs, CodersAssumption DEF Numeric
<1>2. Pow(w) <= Pow(WordBits) /\ Pow(w) \in Nat /\ Pow(WordBits) \in Nat
  BY <1>1, PowGrows, PowIs
<1>3. n \in Nat /\ n < Pow(w) /\ n \in Words
  BY <1>2 DEF FitsIn, Words
<1> HIDE DEF w
<1>4. b \in 0..WordBits /\ FitsIn(n, b) /\ b >= 1 /\ Pow(b - 1) <= n
  BY <1>3, BitsForIs
<1> HIDE DEF b
<1>5. b \in Nat /\ b - 1 \in Nat
  BY <1>1, <1>4
<1>6. n < Pow(b) /\ Pow(b - 1) \in Nat /\ Pow(b) \in Nat
  BY <1>4, <1>5, PowIs DEF FitsIn
<1>7. b <= w
  <2> SUFFICES ASSUME w <= b - 1 PROVE FALSE
    BY <1>1, <1>5
  <2>1. Pow(w) <= Pow(b - 1)
    BY <1>1, <1>5, PowGrows
  <2> QED BY <2>1, <1>2, <1>3, <1>4, <1>6
<1>8. tz \in Nat /\ tz < b /\ \E q \in Nat : n = Pow(tz) * q
  BY <1>3, <1>5, <1>6, TrailingIs
<1> HIDE DEF tz
<1>9. own = << w - b, tz >>
  BY DEF OwnWindow, LeadingZeros, b, tz
<1> HIDE DEF own
<1>10. own # <<>> /\ own[1] = w - b /\ own[2] = tz
  BY <1>9
<1>11. w - b \in Nat /\ (w - b) + tz < w /\ w - (w - b) = b
  BY <1>1, <1>5, <1>7, <1>8
<1>12. Known(own, w)
  BY <1>8, <1>10, <1>11 DEF Known
<1>13. n < Pow(w - own[1])
  BY <1>6, <1>10, <1>11
<1>14. Covers(own, n, w)
  BY <1>3, <1>8, <1>10, <1>12, <1>13 DEF Covers
<1> QED
  BY <1>14 DEF own, w

(* What is inside a window is inside a wider one.                           *)
LEMMA ReuseCovers ==
  ASSUME NEW w \in Nat, NEW n, NEW own, Covers(own, n, w), NEW window, Known(window, w),
         Reuses(window, own)
  PROVE  Covers(window, n, w)
<1> DEFINE a == own[1]
           b == own[2]
           c == window[1]
           d == window[2]
<1>1. a \in Nat /\ b \in Nat /\ c \in Nat /\ d \in Nat /\ a + b < w /\ c + d < w
      /\ c <= a /\ d <= b /\ n \in Nat /\ n < Pow(w - a)
  BY DEF Covers, Known, Reuses
<1>2. PICK q \in Nat : n = Pow(b) * q
  BY DEF Covers
<1> HIDE DEF a, b, c, d
<1>3. n < Pow(w - c)
  <2> DEFINE i == w - a
             j == w - c
  <2>1. i \in Nat /\ j \in Nat /\ i <= j
    BY <1>1
  <2>2. n < Pow(i)
    BY <1>1
  <2> HIDE DEF i, j
  <2>3. Pow(i) <= Pow(j) /\ Pow(i) \in Nat /\ Pow(j) \in Nat
    BY <2>1, PowGrows, PowIs
  <2>4. n < Pow(j)
    BY <2>2, <2>3, <1>1
  <2> QED BY <2>4 DEF j
<1>4. \E p \in Nat : n = Pow(d) * p
  <2> DEFINE e == b - d
  <2>1. e \in Nat /\ d + e = b
    BY <1>1
  <2> HIDE DEF e
  <2>2. Pow(d + e) = Pow(d) * Pow(e) /\ Pow(d) \in Nat /\ Pow(e) \in Nat
    BY <1>1, <2>1, PowAdd, PowIs
  <2> DEFINE u == Pow(d)
             v == Pow(e)
  <2>3. n = (u * v) * q /\ u \in Nat /\ v \in Nat
    BY <1>2, <2>1, <2>2
  <2> HIDE DEF u, v
  <2>4. n = u * (v * q) /\ v * q \in Nat
    BY <2>3
  <2> QED BY <2>4 DEF u
<1> QED
  BY <1>1, <1>3, <1>4 DEF Covers, c, d

\* The bits of n inside a window, and n back from them.
Exact(window, n, w) ==
  /\ Meaningful(window, w) \in Nat \ {0}
  /\ FitsIn(n \div Pow(window[2]), Meaningful(window, w))
  /\ (n \div Pow(window[2])) * Pow(window[2]) = n

(* The bits inside a window that covers a number are all that is set of it. *)
LEMMA InsideIs ==
  ASSUME NEW w \in Nat, NEW n, NEW window, Covers(window, n, w)
  PROVE  Exact(window, n, w)
<1> DEFINE c == window[1]
           d == window[2]
           m == Meaningful(window, w)
           u == Pow(d)
<1>1. c \in Nat /\ d \in Nat /\ c + d < w /\ n \in Nat /\ n < Pow(w - c)
  BY DEF Covers, Known
<1>2. PICK q \in Nat : n = u * q
  BY DEF Covers
<1>3. m = w - c - d
  BY DEF Meaningful
<1>4. m \in Nat \ {0} /\ d + m = w - c
  BY <1>1, <1>3
<1> HIDE DEF c, d, m
<1>5. Pow(d + m) = u * Pow(m) /\ Pow(m) \in Nat \ {0} /\ u \in Nat \ {0}
  BY <1>1, <1>4, PowAdd, PowIs
<1>6. n < u * Pow(m)
  BY <1>1, <1>4, <1>5
<1> DEFINE v == Pow(m)
<1>7. v \in Nat /\ n < u * v
  BY <1>5, <1>6
<1> HIDE DEF u, v
<1>8. n \div u \in 0..(v - 1)
  BY <1>1, <1>5, <1>7, QuotientBounds
<1>9. n \div u = q
  <2>1. n = u * q + 0 /\ 0 \in 0..(u - 1) /\ n \in Int /\ q \in Int
    <3> DEFINE k == u * q
    <3>1. k \in Nat /\ n = k
      BY <1>2, <1>5
    <3> HIDE DEF k
    <3>2. n = k + 0
      BY <3>1
    <3> QED BY <3>1, <3>2, <1>1, <1>5 DEF k
  <2> QED BY <2>1, <1>5, DivisionUnique
<1>10. (n \div u) * u = n
  <2>1. q * u = u * q
    BY <1>5
  <2> QED BY <2>1, <1>2, <1>9
<1> QED
  BY <1>4, <1>8, <1>10 DEF Exact, FitsIn, u, v, m, d

(* Bits that hold two entries hold the one, and behind it the other.        *)
LEMMA HoldsSplit ==
  ASSUME NEW T, NEW a \in Seq(T), NEW b \in Seq(T), NEW bits \in Seq(T), NEW p \in Nat,
         Holds(bits, p, a \o b)
  PROVE  Holds(bits, p, a) /\ Holds(bits, p + Len(a), b)
<1> DEFINE c == a \o b
           n == Len(a)
           m == Len(b)
<1>1. n \in Nat /\ m \in Nat /\ Len(bits) \in Nat /\ Len(c) = n + m
      /\ (\A i \in 1..n : c[i] = a[i]) /\ (\A i \in 1..m : c[n + i] = b[i])
  OBVIOUS
<1>2. p + Len(c) <= Len(bits) /\ \A j \in 1..Len(c) : bits[p + j] = c[j]
  BY DEF Holds
<1> HIDE DEF c
<1>3. p + n <= Len(bits) /\ (p + n) + m <= Len(bits) /\ p + n \in Nat
  BY <1>1, <1>2
<1>4. \A j \in 1..n : bits[p + j] = a[j]
  <2> TAKE j \in 1..n
  <2>1. j \in 1..Len(c)
    BY <1>1
  <2> QED BY <2>1, <1>1, <1>2
<1>5. \A j \in 1..m : bits[(p + n) + j] = b[j]
  <2> TAKE j \in 1..m
  <2>1. n + j \in 1..Len(c) /\ p + (n + j) = (p + n) + j
    BY <1>1
  <2>2. bits[p + (n + j)] = c[n + j]
    BY <2>1, <1>2
  <2> QED BY <2>1, <2>2, <1>1
<1> QED
  BY <1>3, <1>4, <1>5 DEF Holds

(* The bits of a number are read as that number.                            *)
LEMMA FieldRead ==
  ASSUME NEW bits \in Seq({0, 1}), NEW p \in Nat, NEW c \in Nat, NEW n, FitsIn(n, c),
         Holds(bits, p, Bits(n, c))
  PROVE  BitField(bits, p, c) = n /\ p + c <= Len(bits)
<1> DEFINE b == Bits(n, c)
           s == SubSeq(bits, p + 1, p + c)
<1>1. b \in Seq({0, 1}) /\ Len(b) = c
  BY BitsOf
<1>2. Number(b) = n
  BY NumberOfBits
<1> HIDE DEF b
<1>3. p + c <= Len(bits) /\ Len(bits) \in Nat /\ \A j \in 1..c : bits[p + j] = b[j]
  BY <1>1 DEF Holds, b
<1>4. Len(s) = c /\ s \in Seq({0, 1}) /\ \A j \in 1..c : s[j] = bits[p + j]
  <2>1. p + 1 \in Nat /\ p + c \in Nat /\ (p + c) - (p + 1) + 1 = c
    OBVIOUS
  <2>2. \A j \in (p + 1)..(p + c) : bits[j] \in {0, 1}
    BY <1>3
  <2>3. Len(s) = c
    BY <2>1, <1>3
  <2>4. \A j \in 1..c : s[j] = bits[p + j]
    BY <2>1, <1>3
  <2>5. s \in Seq({0, 1})
    BY <2>1, <2>2
  <2> QED BY <2>3, <2>4, <2>5
<1> HIDE DEF s
<1>5. \A j \in 1..c : s[j] = b[j]
  BY <1>3, <1>4
<1>6. s = b
  BY <1>1, <1>4, <1>5, SameSeq
<1> QED
  BY <1>2, <1>3, <1>6 DEF BitField, s

\* The reader after p bits.
Reader(p, window, out) == [at |-> p, window |-> window, bad |-> FALSE, out |-> out]

\* The last value read, and the one that is next.
Between(out, x, w) ==
  /\ out \in Seq(Int) /\ out # <<>> /\ FitsIn(Last(out), w) /\ FitsIn(x, w)

(* What is inside the window is read as the next value.                     *)
LEMMA ReadInsideIs ==
  ASSUME NEW w \in Nat, NEW bits \in Seq({0, 1}), NEW p \in Nat, NEW before, NEW out, NEW x,
         Between(out, x, w), NEW read \in Nat, NEW window,
         Covers(window, Xor(Last(out), x, w), w),
         Holds(bits, p + read, Inside(Xor(Last(out), x, w), window, w))
  PROVE  ReadInside(Reader(p, before, out), bits, read, window, w)
           = Reader(p + read + Meaningful(window, w), window, Append(out, x))
<1> DEFINE n == Xor(Last(out), x, w)
           u == Pow(window[2])
           c == Meaningful(window, w)
           s == Reader(p, before, out)
           at == p + read
           f == BitField(bits, at, c)
<1>1. /\ c \in Nat \ {0} /\ FitsIn(n \div u, c) /\ (n \div u) * u = n
  BY InsideIs DEF Exact
<1>2. window[2] \in Nat
  BY DEF Covers, Known
<1>3. Inside(n, window, w) = Bits(n \div u, c)
  BY DEF Inside
<1>4. Xor(Last(out), n, w) = x
  BY XorUndone DEF Between
<1>5. Holds(bits, at, Bits(n \div u, c)) /\ at \in Nat
  BY <1>3
<1> HIDE DEF n, u, c, at
<1>6. f = n \div u /\ at + c <= Len(bits)
  BY <1>1, <1>5, FieldRead
<1>7. f * u = n
  BY <1>1, <1>6
<1>8. ~(window[2] < 0 \/ at + c > Len(bits))
  BY <1>1, <1>2, <1>5, <1>6
<1> HIDE DEF f
<1>9. s.at = p /\ s.bad = FALSE /\ s.out = out
  BY DEF Reader
<1> HIDE DEF s
<1>10. ReadInside(s, bits, read, window, w)
         = IF window[2] < 0 \/ s.at + read + c > Len(bits) THEN [s EXCEPT !.bad = TRUE]
           ELSE Took(s, read + c, window,
                     Xor(Last(s.out), BitField(bits, s.at + read, c) * u, w))
  BY Zenon DEF ReadInside, c, u
<1>11. BitField(bits, s.at + read, c) * u = n /\ s.at + read + c = at + c
  BY <1>7, <1>9 DEF f, at
<1>12. ReadInside(s, bits, read, window, w) = Took(s, read + c, window, x)
  BY <1>4, <1>8, <1>9, <1>10, <1>11, Zenon
<1>13. p + (read + c) = p + read + c
  BY <1>1
<1> QED
  BY <1>9, <1>12, <1>13 DEF Reader, Took, c, s

\* No window yet, or one that is known.
WindowOK(window, w) == window = <<>> \/ Known(window, w)

\* What reading an entry has to come to.
EntryIsRead(bits, p, window, out, x, t) ==
  LET xor == Xor(Last(out), x, Width[t])
  IN /\ ReadXor(Reader(p, window, out), bits, t)
          = Reader(p + Len(Entry(xor, window, t)), NextWindow(xor, window, Width[t]),
                   Append(out, x))
     /\ WindowOK(NextWindow(xor, window, Width[t]), Width[t])

\* The same, when the entry is of a given length and leaves a given window.
ReadsAs(bits, p, window, out, x, t, length, next) ==
  /\ ReadXor(Reader(p, window, out), bits, t) = Reader(p + length, next, Append(out, x))
  /\ WindowOK(next, Width[t])

(* The inside of a window has as many bits as the window, and at least one. *)
LEMMA InsideBits ==
  ASSUME NEW w \in Nat, NEW n, NEW window, Covers(window, n, w)
  PROVE  /\ Inside(n, window, w) \in Seq({0, 1})
         /\ Len(Inside(n, window, w)) = Meaningful(window, w)
         /\ Meaningful(window, w) \in Nat \ {0}
<1> DEFINE u == n \div Pow(window[2])
           c == Meaningful(window, w)
<1>1. c \in Nat \ {0} /\ FitsIn(u, c)
  BY InsideIs DEF Exact
<1>2. Inside(n, window, w) = Bits(u, c)
  BY DEF Inside
<1> HIDE DEF u, c
<1>3. Bits(u, c) \in Seq({0, 1}) /\ Len(Bits(u, c)) = c
  BY <1>1, BitsOf
<1> QED
  BY <1>1, <1>2, <1>3 DEF c

(* The same value again is one bit.                                         *)
LEMMA SameRead ==
  ASSUME NEW t \in Floats, NEW bits \in Seq({0, 1}), NEW p \in Nat, NEW window,
         WindowOK(window, Width[t]), NEW out, NEW x, Between(out, x, Width[t]),
         Xor(Last(out), x, Width[t]) = 0, Holds(bits, p, << 0 >>)
  PROVE  ReadsAs(bits, p, window, out, x, t, 1, window)
<1> DEFINE s == Reader(p, window, out)
           w == Width[t]
<1>1. w \in Nat
  BY CountIs DEF Numeric
<1>2. x = Last(out)
  BY <1>1, XorZero DEF Between
<1>3. p + 1 <= Len(bits) /\ bits[p + 1] = 0
  <2> DEFINE z == << 0 >>
  <2>1. Len(z) = 1 /\ z[1] = 0 /\ 1 \in 1..Len(z)
    OBVIOUS
  <2>2. p + Len(z) <= Len(bits) /\ \A j \in 1..Len(z) : bits[p + j] = z[j]
    BY DEF Holds
  <2> HIDE DEF z
  <2> QED BY <2>1, <2>2
<1>4. s.at = p /\ s.bad = FALSE /\ s.out = out /\ s.window = window
  BY DEF Reader
<1> HIDE DEF s
<1>5. ReadXor(s, bits, t) = Took(s, 1, s.window, Last(s.out))
  <2>1. ~(s.bad \/ ~(s.at + 1 <= Len(bits))) /\ bits[s.at + 1] = 0
    BY <1>3, <1>4
  <2> QED BY <2>1, Zenon DEF ReadXor
<1>6. ReadXor(s, bits, t) = Reader(p + 1, window, Append(out, x))
  BY <1>2, <1>4, <1>5, Zenon DEF Took, Reader
<1> QED
  BY <1>6 DEF ReadsAs, s

(* A window is used again.                                                  *)
LEMMA ReuseRead ==
  ASSUME NEW t \in Floats, NEW bits \in Seq({0, 1}), NEW p \in Nat, NEW window,
         NEW out, NEW x, Between(out, x, Width[t]),
         Covers(window, Xor(Last(out), x, Width[t]), Width[t]),
         Holds(bits, p, <<1, 0>> \o Inside(Xor(Last(out), x, Width[t]), window, Width[t]))
  PROVE  ReadsAs(bits, p, window, out, x, t, 2 + Meaningful(window, Width[t]), window)
<1> DEFINE s == Reader(p, window, out)
           w == Width[t]
           n == Xor(Last(out), x, w)
           head == <<1, 0>>
           body == Inside(n, window, w)
           c == Meaningful(window, w)
<1>1. w \in Nat
  BY CountIs DEF Numeric
<1>2. head \in Seq({0, 1}) /\ Len(head) = 2 /\ head[1] = 1 /\ head[2] = 0
  OBVIOUS
<1> HIDE DEF head
<1>3. body \in Seq({0, 1}) /\ c \in Nat
  BY <1>1, InsideBits
<1>4. Holds(bits, p, head) /\ Holds(bits, p + 2, body)
  <2>1. Holds(bits, p, head \o body)
    BY DEF head
  <2> HIDE DEF body
  <2>2. Holds(bits, p, head) /\ Holds(bits, p + Len(head), body)
    BY <1>2, <1>3, <2>1, HoldsSplit
  <2> QED BY <1>2, <2>2
<1>5. p + 1 <= Len(bits) /\ p + 2 <= Len(bits) /\ bits[p + 1] = 1 /\ bits[p + 2] = 0
  BY <1>2, <1>4 DEF Holds
<1>6. ReadInside(s, bits, 2, window, w) = Reader(p + 2 + c, window, Append(out, x))
  <2> DEFINE two == 2
  <2>1. two \in Nat /\ Holds(bits, p + two, body)
    BY <1>4
  <2> HIDE DEF two
  <2>2. ReadInside(s, bits, two, window, w) = Reader(p + two + c, window, Append(out, x))
    BY <1>1, <2>1, ReadInsideIs
  <2> QED BY <2>2 DEF two
<1>7. s.at = p /\ s.bad = FALSE /\ s.window = window
  BY DEF Reader
<1>8. window # <<>> /\ Known(window, w)
  BY DEF Covers, Known
<1> HIDE DEF s, n, w, body, c
<1>9. ReadXor(s, bits, t) = ReadInside(s, bits, 2, window, w)
  BY <1>5, <1>7, <1>8 DEF ReadXor, w
<1>10. p + (2 + c) = p + 2 + c
  BY <1>3
<1> QED
  BY <1>6, <1>8, <1>9, <1>10 DEF ReadsAs, s, w, c, WindowOK

(* Two sequences joined.                                                    *)
LEMMA Joined ==
  ASSUME NEW T, NEW a \in Seq(T), NEW b \in Seq(T)
  PROVE  a \o b \in Seq(T) /\ Len(a \o b) = Len(a) + Len(b)
OBVIOUS

\* A new window in bits, and what is inside it.
FreshEntry(n, own, t) ==
  <<1, 1>> \o Bits(own[1], FieldBits(t))
    \o Bits(Meaningful(own, Width[t]) - 1, FieldBits(t)) \o Inside(n, own, Width[t])

\* Where the parts of a new window are.
FreshParts(bits, p, n, own, t) ==
  /\ p + 2 <= Len(bits) /\ bits[p + 1] = 1 /\ bits[p + 2] = 1
  /\ p + (2 + 2 * FieldBits(t)) <= Len(bits)
  /\ BitField(bits, p + 2, FieldBits(t)) = own[1]
  /\ BitField(bits, p + 2 + FieldBits(t), FieldBits(t)) = Meaningful(own, Width[t]) - 1
  /\ Holds(bits, p + (2 + 2 * FieldBits(t)), Inside(n, own, Width[t]))
  /\ Len(FreshEntry(n, own, t)) = 2 + 2 * FieldBits(t) + Meaningful(own, Width[t])
  /\ FreshEntry(n, own, t) \in Seq({0, 1})

(* An entry with a new window says how wide it is, and then what is inside. *)
LEMMA FreshPartsAre ==
  ASSUME NEW t \in Floats, NEW n, NEW own, Covers(own, n, Width[t]),
         NEW bits \in Seq({0, 1}), NEW p \in Nat, Holds(bits, p, FreshEntry(n, own, t))
  PROVE  FreshParts(bits, p, n, own, t)
<1> DEFINE w == Width[t]
           f == FieldBits(t)
           lz == own[1]
           tz == own[2]
           c == Meaningful(own, w)
           T == {0, 1}
           head == <<1, 1>>
           a == Bits(lz, f)
           b == Bits(c - 1, f)
           body == Inside(n, own, w)
           h2 == head \o a
           h3 == h2 \o b
<1>1. w \in Nat
  BY CountIs DEF Numeric
<1>2. lz \in Nat /\ tz \in Nat /\ lz + tz < w /\ c = w - lz - tz
  <2>1. Known(own, w)
    BY DEF Covers
  <2>2. c = w - lz - tz
    BY DEF Meaningful
  <2> HIDE DEF c
  <2> QED BY <2>1, <2>2 DEF Known
<1>3. lz \in 0..(w - 1) /\ c \in Nat \ {0} /\ c - 1 \in 0..(w - 1)
  <2> HIDE DEF lz, tz, c, w
  <2> QED BY <1>1, <1>2
<1>4. f \in Nat /\ FitsIn(lz, f) /\ FitsIn(c - 1, f)
  <2> HIDE DEF lz, c, f
  <2> QED BY <1>3, FieldsFit DEF f
<1>5. head \in Seq(T) /\ Len(head) = 2 /\ head[1] = 1 /\ head[2] = 1
  OBVIOUS
<1>6. a \in Seq(T) /\ Len(a) = f /\ b \in Seq(T) /\ Len(b) = f
  <2> HIDE DEF lz, c, f
  <2> QED BY <1>4, BitsOf
<1>7. body \in Seq(T) /\ Len(body) = c
  BY <1>1, InsideBits
<1>8. FreshEntry(n, own, t) = h3 \o body
  BY DEF FreshEntry
<1> HIDE DEF head, a, b, body
<1>9. h2 \in Seq(T) /\ Len(h2) = 2 + f
  <2> HIDE DEF T, f
  <2> QED BY <1>5, <1>6, Joined
<1>10. h3 \in Seq(T) /\ Len(h3) = 2 + f + f
  <2> HIDE DEF h2, T, f
  <2> QED BY <1>6, <1>9, Joined
<1>11. h3 \o body \in Seq(T) /\ Len(h3 \o body) = 2 + f + f + c
  <2> HIDE DEF h3, T, f, c
  <2> QED BY <1>7, <1>10, Joined
<1>12. Holds(bits, p, h3) /\ Holds(bits, p + (2 + f + f), body)
  <2> HIDE DEF h3, T
  <2>1. Holds(bits, p, h3 \o body)
    BY <1>8
  <2>2. bits \in Seq(T)
    BY DEF T
  <2>3. Holds(bits, p, h3) /\ Holds(bits, p + Len(h3), body)
    BY <1>7, <1>10, <2>1, <2>2, HoldsSplit
  <2> QED BY <1>10, <2>3
<1>13. Holds(bits, p, h2) /\ Holds(bits, p + (2 + f), b)
  <2> HIDE DEF h2, T
  <2>1. Holds(bits, p, h2 \o b)
    BY <1>12
  <2>2. bits \in Seq(T)
    BY DEF T
  <2>3. Holds(bits, p, h2) /\ Holds(bits, p + Len(h2), b)
    BY <1>6, <1>9, <2>1, <2>2, HoldsSplit
  <2> QED BY <1>9, <2>3
<1>14. Holds(bits, p, head) /\ Holds(bits, p + 2, a)
  <2> HIDE DEF T
  <2>1. Holds(bits, p, head \o a)
    BY <1>13
  <2>2. bits \in Seq(T)
    BY DEF T
  <2>3. Holds(bits, p, head) /\ Holds(bits, p + Len(head), a)
    BY <1>5, <1>6, <2>1, <2>2, HoldsSplit
  <2> QED BY <1>5, <2>3
<1> HIDE DEF lz, c, f, w, h2, h3
<1>15. p + 2 <= Len(bits) /\ bits[p + 1] = 1 /\ bits[p + 2] = 1
  BY <1>5, <1>14 DEF Holds
<1>16. BitField(bits, p + 2, f) = lz
  <2>1. Holds(bits, p + 2, Bits(lz, f)) /\ p + 2 \in Nat
    BY <1>14 DEF a
  <2> QED BY <1>4, <2>1, FieldRead
<1>17. BitField(bits, p + 2 + f, f) = c - 1 /\ p + 2 + f + f <= Len(bits)
  <2> DEFINE q == p + 2 + f
             d == c - 1
  <2>1. p + (2 + f) = q /\ q \in Nat
    BY <1>4
  <2>2. Holds(bits, q, Bits(d, f)) /\ FitsIn(d, f)
    BY <1>4, <1>13, <2>1 DEF b
  <2> HIDE DEF q, d
  <2>3. BitField(bits, q, f) = d /\ q + f <= Len(bits)
    BY <1>4, <2>1, <2>2, FieldRead
  <2> QED BY <2>3 DEF q, d
<1>18. 2 + f + f = 2 + 2 * f /\ p + 2 + f + f = p + (2 + 2 * f) /\ 2 + f + f + c = 2 + 2 * f + c
  BY <1>3, <1>4
<1>19. Holds(bits, p + (2 + 2 * f), body)
  BY <1>12, <1>18
<1>20. p + (2 + 2 * f) <= Len(bits)
  BY <1>17, <1>18
<1> QED
  BY <1>8, <1>11, <1>15, <1>16, <1>17, <1>18, <1>19, <1>20
     DEF FreshParts, w, f, lz, c, body

(* A new window.                                                            *)
LEMMA FreshRead ==
  ASSUME NEW t \in Floats, NEW bits \in Seq({0, 1}), NEW p \in Nat, NEW window,
         NEW out, NEW x, Between(out, x, Width[t]), NEW own, own = <<own[1], own[2]>>,
         Covers(own, Xor(Last(out), x, Width[t]), Width[t]),
         Holds(bits, p, FreshEntry(Xor(Last(out), x, Width[t]), own, t))
  PROVE  ReadsAs(bits, p, window, out, x, t,
                 2 + 2 * FieldBits(t) + Meaningful(own, Width[t]), own)
<1> DEFINE s == Reader(p, window, out)
           w == Width[t]
           f == FieldBits(t)
           n == Xor(Last(out), x, w)
           c == Meaningful(own, w)
           read == 2 + 2 * f
           lz == BitField(bits, p + 2, f)
           length == BitField(bits, p + 2 + f, f) + 1
<1>1. w \in Nat /\ f \in Nat /\ read \in Nat
  <2>1. t \in Numeric
    BY DEF Numeric
  <2>2. w \in Nat /\ w >= 2
    BY <2>1, CountIs
  <2>3. 0 \in 0..(w - 1)
    BY <2>2
  <2>4. f \in Nat
    BY <2>3, FieldsFit
  <2> QED BY <2>2, <2>4
<1>2. FreshParts(bits, p, n, own, t)
  BY FreshPartsAre
<1>3. /\ p + 2 <= Len(bits) /\ bits[p + 1] = 1 /\ bits[p + 2] = 1
      /\ p + read <= Len(bits) /\ lz = own[1] /\ BitField(bits, p + 2 + f, f) = c - 1
      /\ Holds(bits, p + read, Inside(n, own, w))
  BY <1>2 DEF FreshParts
<1>4. own[1] \in Nat /\ own[2] \in Nat /\ c = w - own[1] - own[2] /\ Known(own, w)
  BY DEF Covers, Known, Meaningful
<1> HIDE DEF c, w, f, read, lz
<1>5. length = c /\ w - lz - length = own[2] /\ c \in Int
  <2>1. c \in Int
    BY <1>1, <1>4
  <2>2. length = c
    BY <1>3, <2>1
  <2> HIDE DEF length
  <2> QED BY <1>1, <1>3, <1>4, <2>1, <2>2
<1>6. << lz, w - lz - length >> = own
  <2> HIDE DEF length
  <2> QED BY <1>3, <1>5
<1>7. ReadInside(s, bits, read, own, w) = Reader(p + read + c, own, Append(out, x))
  BY <1>1, <1>3, ReadInsideIs DEF w, c
<1>8. s.at = p /\ s.bad = FALSE
  BY DEF Reader
<1> HIDE DEF s, n, length
<1>9. ReadXor(s, bits, t) = ReadInside(s, bits, read, own, w)
  <2>1. ~(s.bad \/ ~(s.at + 1 <= Len(bits))) /\ bits[s.at + 1] # 0
    BY <1>3, <1>8
  <2>2. s.at + 2 <= Len(bits) /\ bits[s.at + 2] # 0 /\ bits[s.at + 2] = 1
    BY <1>3, <1>8
  <2>3. s.at + read <= Len(bits)
    BY <1>3, <1>8
  <2>4. << BitField(bits, s.at + 2, f),
           w - BitField(bits, s.at + 2, f) - (BitField(bits, s.at + 2 + f, f) + 1) >> = own
    BY <1>6, <1>8 DEF lz, length
  <2> QED BY <2>1, <2>2, <2>3, <2>4, Zenon DEF ReadXor, w, f, read
<1>10. p + (read + c) = p + read + c
  BY <1>1, <1>5
<1> QED
  BY <1>4, <1>7, <1>9, <1>10 DEF ReadsAs, WindowOK, s, w, c, f, read

(* Reading an entry gives the value it was written for, and the window the  *)
(* writer goes on with.                                                     *)
LEMMA EntryRead ==
  ASSUME NEW t \in Floats, NEW bits \in Seq({0, 1}), NEW p \in Nat, NEW window,
         WindowOK(window, Width[t]), NEW out, NEW x, Between(out, x, Width[t]),
         Holds(bits, p, Entry(Xor(Last(out), x, Width[t]), window, t))
  PROVE  /\ EntryIsRead(bits, p, window, out, x, t)
         /\ Entry(Xor(Last(out), x, Width[t]), window, t) \in Seq({0, 1})
<1> DEFINE w == Width[t]
           n == Xor(Last(out), x, w)
           own == OwnWindow(n, w)
           entry == Entry(n, window, t)
<1>1. w \in Nat
  BY CountIs DEF Numeric
<1>2. FitsIn(n, w)
  BY <1>1, XorIs DEF Between
<1>3. own = << own[1], own[2] >>
  BY DEF OwnWindow
<1>4. CASE n = 0
  <2> DEFINE z == << 0 >>
  <2>1. entry = z
    BY <1>4 DEF Entry
  <2>2. Len(z) = 1 /\ z \in Seq({0, 1})
    OBVIOUS
  <2>3. NextWindow(n, window, w) = window
    BY <1>4 DEF NextWindow
  <2>4. ReadsAs(bits, p, window, out, x, t, 1, window)
    <3>1. Holds(bits, p, z)
      BY <2>1
    <3> QED BY <3>1, <1>4, SameRead
  <2> HIDE DEF z, own, entry, n
  <2>5. EntryIsRead(bits, p, window, out, x, t)
    BY <2>1, <2>2, <2>3, <2>4 DEF EntryIsRead, ReadsAs, entry, n, w
  <2> QED BY <2>1, <2>2, <2>5 DEF entry, n, w
<1>5. CASE n # 0
  <2>1. Covers(own, n, w)
    BY <1>2, <1>5, OwnWindowIs
  <2> HIDE DEF own
  <2>2. CASE Reuses(window, own)
    <3> DEFINE head == <<1, 0>>
               body == Inside(n, window, w)
               c == Meaningful(window, w)
    <3>1. Known(window, w)
      BY <2>2 DEF Reuses, WindowOK
    <3>2. Covers(window, n, w)
      BY <1>1, <2>1, <2>2, <3>1, ReuseCovers
    <3>3. body \in Seq({0, 1}) /\ Len(body) = c /\ c \in Nat
      BY <1>1, <3>2, InsideBits
    <3>4. entry = head \o body
      BY <1>5, <2>2 DEF Entry, own
    <3>5. NextWindow(n, window, w) = window
      BY <2>2 DEF NextWindow, own
    <3>6. ReadsAs(bits, p, window, out, x, t, 2 + c, window)
      <4>1. Holds(bits, p, head \o body)
        BY <3>4
      <4> QED BY <4>1, <3>2, ReuseRead
    <3>7. entry \in Seq({0, 1}) /\ Len(entry) = 2 + c
      <4>1. head \in Seq({0, 1}) /\ Len(head) = 2
        OBVIOUS
      <4> DEFINE T == {0, 1}
      <4> HIDE DEF head, body, c, entry, T
      <4>2. head \in Seq(T) /\ body \in Seq(T) /\ Len(head) = 2
        BY <3>3, <4>1 DEF T
      <4>3. head \o body \in Seq(T) /\ Len(head \o body) = 2 + c
        BY <3>3, <4>2, Joined
      <4> QED BY <3>4, <4>3 DEF T
    <3> HIDE DEF entry, n, c
    <3>8. EntryIsRead(bits, p, window, out, x, t)
      BY <3>5, <3>6, <3>7 DEF EntryIsRead, ReadsAs, entry, n, w
    <3> QED BY <3>7, <3>8 DEF entry, n, w
  <2>3. CASE ~Reuses(window, own)
    <3> DEFINE c == 2 + 2 * FieldBits(t) + Meaningful(own, w)
    <3>1. entry = FreshEntry(n, own, t)
      BY <1>5, <2>3 DEF Entry, FreshEntry, own
    <3>2. NextWindow(n, window, w) = own
      BY <1>5, <2>3 DEF NextWindow, own
    <3>3. Holds(bits, p, FreshEntry(n, own, t))
      BY <3>1
    <3>4. ReadsAs(bits, p, window, out, x, t, c, own)
      BY <1>3, <2>1, <3>3, FreshRead
    <3>5. FreshEntry(n, own, t) \in Seq({0, 1}) /\ Len(FreshEntry(n, own, t)) = c
      BY <2>1, <3>3, FreshPartsAre DEF FreshParts
    <3> HIDE DEF entry, n, c
    <3>6. EntryIsRead(bits, p, window, out, x, t)
      BY <3>1, <3>2, <3>4, <3>5 DEF EntryIsRead, ReadsAs, entry, n, w
    <3> QED BY <3>1, <3>5, <3>6 DEF entry, n, w
  <2> QED BY <2>2, <2>3
<1> QED
  BY <1>4, <1>5

(* What a float is is a number of its width.                                *)
LEMMA FloatsFit ==
  ASSUME NEW t \in Floats, NEW xs, Fits(xs, t)
  PROVE  /\ xs \in Seq(Int) /\ Len(xs) \in Nat /\ DOMAIN xs = 1..Len(xs)
         /\ \A i \in 1..Len(xs) : FitsIn(xs[i], Width[t])
<1> DEFINE w == Width[t]
<1>1. t \in Numeric /\ t \notin Signed /\ t # "bytes"
  BY CodersAssumption DEF Numeric, Integral
<1>2. w \in Nat \ {0}
  BY <1>1, CountIs
<1>3. Least(t) = 0 /\ Count(t) = 2 * Pow(w - 1) /\ Pow(w) = 2 * Pow(w - 1) /\ Pow(w) \in Nat
  <2>1. Least(t) = 0
    BY <1>1 DEF Least
  <2>2. Count(t) = 2 * Pow(w - 1)
    BY <1>1, CountIs
  <2> HIDE DEF w
  <2>3. Pow(w) = 2 * Pow(w - 1) /\ Pow(w) \in Nat
    BY <1>2, PowIs
  <2> QED BY <2>1, <2>2, <2>3
<1>4. xs \in Seq(Int) /\ \A i \in 1..Len(xs) : Within(xs[i], t)
  BY <1>1 DEF Fits
<1>5. ASSUME NEW i \in 1..Len(xs) PROVE FitsIn(xs[i], w)
  <2>1. xs[i] \in Int /\ 0 <= xs[i] /\ xs[i] < 0 + Pow(w)
    BY <1>3, <1>4 DEF Within
  <2> QED BY <2>1, <1>3 DEF FitsIn
<1> QED
  BY <1>4, <1>5

(* What is written for a value is bits, and the window known is a window.   *)
LEMMA EntryBits ==
  ASSUME NEW t \in Floats, NEW n, FitsIn(n, Width[t]), NEW window, WindowOK(window, Width[t])
  PROVE  /\ Entry(n, window, t) \in Seq({0, 1})
         /\ WindowOK(NextWindow(n, window, Width[t]), Width[t])
<1> DEFINE w == Width[t]
           own == OwnWindow(n, w)
           entry == Entry(n, window, t)
           f == FieldBits(t)
           T == {0, 1}
<1>1. w \in Nat
  BY CountIs DEF Numeric
<1>2. CASE n = 0
  <2>1. entry = << 0 >>
    BY <1>2 DEF Entry
  <2>2. NextWindow(n, window, w) = window
    BY <1>2 DEF NextWindow
  <2> HIDE DEF entry
  <2> QED BY <2>1, <2>2 DEF entry
<1>3. CASE n # 0
  <2>1. Covers(own, n, w)
    BY <1>3, OwnWindowIs
  <2> HIDE DEF own
  <2>2. CASE Reuses(window, own)
    <3> DEFINE head == <<1, 0>>
               body == Inside(n, window, w)
    <3>1. Known(window, w)
      BY <2>2 DEF Reuses, WindowOK
    <3>2. Covers(window, n, w)
      BY <1>1, <2>1, <2>2, <3>1, ReuseCovers
    <3>3. body \in Seq(T)
      BY <1>1, <3>2, InsideBits
    <3>4. entry = head \o body
      BY <1>3, <2>2 DEF Entry, own
    <3>5. NextWindow(n, window, w) = window
      BY <2>2 DEF NextWindow, own
    <3>6. head \in Seq(T)
      OBVIOUS
    <3>7. head \o body \in Seq(T)
      <4> HIDE DEF head, body, T
      <4> QED BY <3>3, <3>6, Joined
    <3> HIDE DEF entry, head, body
    <3> QED BY <3>4, <3>5, <3>7 DEF entry
  <2>3. CASE ~Reuses(window, own)
    <3> DEFINE lz == own[1]
               tz == own[2]
               c == Meaningful(own, w)
               head == <<1, 1>>
               a == Bits(lz, f)
               b == Bits(c - 1, f)
               body == Inside(n, own, w)
    <3>1. lz \in Nat /\ tz \in Nat /\ lz + tz < w /\ c = w - lz - tz
      <4>1. Known(own, w)
        BY <2>1 DEF Covers
      <4>2. c = w - lz - tz
        BY DEF Meaningful
      <4> HIDE DEF c
      <4> QED BY <4>1, <4>2 DEF Known
    <3>2. lz \in 0..(w - 1) /\ c \in Nat \ {0} /\ c - 1 \in 0..(w - 1)
      <4> HIDE DEF lz, tz, c, w
      <4> QED BY <1>1, <3>1
    <3>3. f \in Nat /\ FitsIn(lz, f) /\ FitsIn(c - 1, f)
      <4> HIDE DEF lz, c, f
      <4> QED BY <3>2, FieldsFit DEF f
    <3>4. head \in Seq(T)
      OBVIOUS
    <3>5. a \in Seq(T) /\ b \in Seq(T)
      <4> HIDE DEF lz, c, f
      <4> QED BY <3>3, BitsOf
    <3>6. body \in Seq(T)
      BY <1>1, <2>1, InsideBits
    <3>7. entry = head \o a \o b \o body
      BY <1>3, <2>3 DEF Entry, own
    <3>8. NextWindow(n, window, w) = own
      BY <1>3, <2>3 DEF NextWindow, own
    <3>9. WindowOK(own, w)
      BY <2>1 DEF Covers, WindowOK
    <3>10. head \o a \o b \o body \in Seq(T)
      <4> HIDE DEF head, a, b, body, T
      <4>1. head \o a \in Seq(T)
        BY <3>4, <3>5, Joined
      <4>2. head \o a \o b \in Seq(T)
        BY <4>1, <3>5, Joined
      <4> QED BY <4>2, <3>6, Joined
    <3> HIDE DEF entry, head, body, a, b
    <3> QED BY <3>7, <3>8, <3>9, <3>10 DEF entry
  <2> QED BY <2>2, <2>3
<1> QED
  BY <1>2, <1>3

\* What is written after one value more than i.
WriterStart(x, w) == [bits |-> Bits(x, w), prev |-> x, window |-> <<>>]
\* What the writer of gorilla keeps.
WriterState(t) ==
  {s \in [bits : Seq({0, 1}), prev : 0..(Pow(Width[t]) - 1), window : Seq(Nat)] :
     WindowOK(s.window, Width[t])}
\* The states of the writer after every value.
WriterStates(f, xs, t) ==
  /\ f \in [0..(Len(xs) - 1) -> WriterState(t)]
  /\ f[0] = WriterStart(xs[1], Width[t])
  /\ \A i \in 1..(Len(xs) - 1) : f[i] = WriteXor(f[i - 1], xs[i + 1], t)

(* A window is two numbers, or none.                                        *)
LEMMA WindowsAreNumbers ==
  ASSUME NEW t \in Floats, NEW n, FitsIn(n, Width[t]), NEW window \in Seq(Nat)
  PROVE  NextWindow(n, window, Width[t]) \in Seq(Nat)
<1> DEFINE w == Width[t]
           own == OwnWindow(n, w)
<1>1. CASE n = 0 \/ Reuses(window, own)
  BY <1>1 DEF NextWindow
<1>2. CASE ~(n = 0 \/ Reuses(window, own))
  <2>1. Covers(own, n, w)
    BY <1>2, OwnWindowIs
  <2>2. own[1] \in Nat /\ own[2] \in Nat /\ own = << own[1], own[2] >>
    BY <2>1 DEF Covers, Known, OwnWindow
  <2>3. NextWindow(n, window, w) = own
    BY <1>2 DEF NextWindow
  <2> HIDE DEF own
  <2>4. own \in Seq(Nat)
    <3> DEFINE a == own[1]
               b == own[2]
    <3>1. a \in Nat /\ b \in Nat /\ own = << a, b >>
      BY <2>2
    <3> HIDE DEF a, b
    <3> QED BY <3>1
  <2> QED BY <2>3, <2>4
<1> QED
  BY <1>1, <1>2

(* Writing one value leads from a state of the writer to another.           *)
LEMMA WriteXorIs ==
  ASSUME NEW t \in Floats, NEW s \in WriterState(t), NEW x, FitsIn(x, Width[t])
  PROVE  WriteXor(s, x, t) \in WriterState(t)
<1> DEFINE w == Width[t]
           n == Xor(s.prev, x, w)
           entry == Entry(n, s.window, t)
           next == NextWindow(n, s.window, w)
           more == s.bits \o entry
           T == {0, 1}
<1>1. w \in Nat
  BY CountIs DEF Numeric
<1>2. s.bits \in Seq(T) /\ FitsIn(s.prev, w) /\ s.window \in Seq(Nat) /\ WindowOK(s.window, w)
  BY DEF WriterState, FitsIn
<1>3. FitsIn(n, w)
  BY <1>1, <1>2, XorIs
<1>4. entry \in Seq(T) /\ WindowOK(next, w) /\ next \in Seq(Nat)
  <2> HIDE DEF n
  <2> QED BY <1>2, <1>3, EntryBits, WindowsAreNumbers
<1>5. more \in Seq(T)
  <2> HIDE DEF entry, T
  <2> QED BY <1>2, <1>4, Joined
<1>6. WriteXor(s, x, t) = [bits |-> more, prev |-> x, window |-> next]
  BY DEF WriteXor
<1> HIDE DEF more, next, n, entry
<1>7. x \in 0..(Pow(w) - 1)
  BY DEF FitsIn
<1> QED
  BY <1>4, <1>5, <1>6, <1>7 DEF WriterState

(* Writing is a state after every value.                                    *)
LEMMA ToGorillaIs ==
  ASSUME NEW t \in Floats, NEW xs, Fits(xs, t), xs # <<>>
  PROVE  \E f : WriterStates(f, xs, t)
                  /\ ToGorilla(xs, t) = << Len(xs) >> \o ToBytes(f[Len(xs) - 1].bits)
<1> DEFINE n == Len(xs) - 1
           T == WriterState(t)
           start == WriterStart(xs[1], Width[t])
           step == [i \in 1..n |-> [s \in T |-> WriteXor(s, xs[i + 1], t)]]
           body(g) == [i \in 0..n |-> IF i = 0 THEN start ELSE WriteXor(g[i - 1], xs[i + 1], t)]
           state == CHOOSE g : g = body(g)
<1>0. xs \in Seq(Int) /\ n \in Nat /\ \A i \in 1..(n + 1) : FitsIn(xs[i], Width[t])
  BY FloatsFit
<1>1. start \in T
  <2> DEFINE w == Width[t]
             x == xs[1]
             b == Bits(x, w)
  <2>1. w \in Nat /\ FitsIn(x, w)
    BY <1>0, CountIs DEF Numeric
  <2>2. b \in Seq({0, 1}) /\ x \in 0..(Pow(w) - 1)
    BY <2>1, BitsOf DEF FitsIn
  <2>3. start = [bits |-> b, prev |-> x, window |-> <<>>]
    BY DEF WriterStart
  <2> HIDE DEF b, x, start
  <2>4. <<>> \in Seq(Nat) /\ WindowOK(<<>>, w)
    BY DEF WindowOK
  <2> QED BY <2>2, <2>3, <2>4 DEF WriterState
<1>2. step \in [1..n -> [T -> T]]
  <2>1. ASSUME NEW i \in 1..n, NEW s \in T PROVE WriteXor(s, xs[i + 1], t) \in T
    <3>1. FitsIn(xs[i + 1], Width[t])
      BY <1>0
    <3> HIDE DEF T
    <3> QED BY <3>1, WriteXorIs DEF T
  <2> HIDE DEF T
  <2> QED BY <2>1
<1> HIDE DEF start
<1>3. PICK f : Recursion(f, T, start, n, step)
  <2> HIDE DEF step, n, T
  <2> QED BY <1>0, <1>1, <1>2, RecursiveFunction
<1>4. f \in [0..n -> T] /\ f[0] = start
  BY <1>3 DEF Recursion
<1>5. ASSUME NEW i \in 1..n PROVE f[i] = WriteXor(f[i - 1], xs[i + 1], t)
  <2>1. f[i] = step[i][f[i - 1]]
    BY <1>3 DEF Recursion
  <2>2. f[i - 1] \in T
    BY <1>4, <1>0
  <2> QED BY <2>1, <2>2
<1>6. f = body(f)
  BY <1>4, <1>5, <1>0
<1>7. state = body(state)
  <2> HIDE DEF body
  <2> QED BY <1>6
<1>8. ToGorilla(xs, t) = << Len(xs) >> \o ToBytes(state[n].bits)
  BY DEF ToGorilla, start, WriterStart
<1> HIDE DEF state
<1>9. \A i \in 0..n : state[i] = f[i]
  <2> DEFINE S == {i \in Nat : i <= n => state[i] = f[i]}
  <2>1. 0 \in S
    BY <1>7, <1>4, <1>0
  <2>2. ASSUME NEW k \in Nat \ {0}, k - 1 \in S PROVE k \in S
    <3> SUFFICES ASSUME k <= n PROVE state[k] = f[k]
      OBVIOUS
    <3>1. k \in 1..n /\ state[k - 1] = f[k - 1]
      BY <2>2, <1>0
    <3>2. state[k] = WriteXor(state[k - 1], xs[k + 1], t)
      BY <1>7, <3>1
    <3> QED BY <3>1, <3>2, <1>5
  <2>3. Nat \subseteq S
    <3> HIDE DEF S
    <3> QED BY <2>1, <2>2, SetInduction
  <2> QED BY <2>3, <1>0
<1>10. WriterStates(f, xs, t)
  BY <1>4, <1>5 DEF WriterStates, start
<1>11. state[n] = f[n]
  BY <1>0, <1>9
<1> QED
  BY <1>8, <1>10, <1>11

\* What is written for the value after value i.
Wrote(f, xs, t, i) ==
  LET n == Xor(xs[i], xs[i + 1], Width[t])
      entry == Entry(n, f[i - 1].window, t)
  IN /\ f[i].bits = f[i - 1].bits \o entry
     /\ f[i].window = NextWindow(n, f[i - 1].window, Width[t])
     /\ f[i - 1].bits \in Seq({0, 1}) /\ f[i].bits \in Seq({0, 1}) /\ entry \in Seq({0, 1})
     /\ WindowOK(f[i - 1].window, Width[t])

(* Every value adds its entry to the bits, and nothing else.                *)
LEMMA EachWritten ==
  ASSUME NEW t \in Floats, NEW xs, Fits(xs, t), xs # <<>>, NEW f, WriterStates(f, xs, t)
  PROVE  \A i \in 1..(Len(xs) - 1) : Wrote(f, xs, t, i)
<1> DEFINE m == Len(xs) - 1
           w == Width[t]
<1>1. xs \in Seq(Int) /\ m \in Nat /\ \A i \in 1..(m + 1) : FitsIn(xs[i], w)
  BY FloatsFit
<1>2. f \in [0..m -> WriterState(t)] /\ f[0] = WriterStart(xs[1], w)
      /\ \A i \in 1..m : f[i] = WriteXor(f[i - 1], xs[i + 1], t)
  BY DEF WriterStates
<1>3. \A i \in 0..m : f[i].prev = xs[i + 1]
  <2> TAKE i \in 0..m
  <2>1. CASE i = 0
    BY <1>2, <2>1 DEF WriterStart
  <2>2. CASE i # 0
    <3>1. i \in 1..m
      BY <2>2, <1>1
    <3> QED BY <3>1, <1>2 DEF WriteXor
  <2> QED BY <2>1, <2>2
<1>4. \A i \in 0..m : f[i].bits \in Seq({0, 1}) /\ WindowOK(f[i].window, w)
  BY <1>2 DEF WriterState
<1>5. ASSUME NEW i \in 1..m PROVE Wrote(f, xs, t, i)
  <2> DEFINE n == Xor(xs[i], xs[i + 1], w)
             entry == Entry(n, f[i - 1].window, t)
  <2>1. i - 1 \in 0..m /\ i \in 0..m /\ i \in 1..(m + 1) /\ i + 1 \in 1..(m + 1)
        /\ (i - 1) + 1 = i
    BY <1>1
  <2>2. f[i - 1].prev = xs[i]
    BY <2>1, <1>3
  <2>3. f[i] = [bits |-> f[i - 1].bits \o entry, prev |-> xs[i + 1],
                window |-> NextWindow(n, f[i - 1].window, w)]
    BY <1>2, <2>2 DEF WriteXor
  <2>4. FitsIn(xs[i], w) /\ FitsIn(xs[i + 1], w) /\ w \in Nat
    BY <1>1, <2>1, CountIs DEF Numeric
  <2>5. FitsIn(n, w)
    BY <2>4, XorIs
  <2>6. entry \in Seq({0, 1})
    <3> HIDE DEF n
    <3>1. WindowOK(f[i - 1].window, w)
      BY <2>1, <1>4
    <3> QED BY <2>5, <3>1, EntryBits
  <2> HIDE DEF entry, n
  <2>7. f[i].bits = f[i - 1].bits \o entry /\ f[i].window = NextWindow(n, f[i - 1].window, w)
    BY <2>3
  <2> QED BY <1>4, <2>1, <2>6, <2>7 DEF Wrote, entry, n
<1> QED
  BY <1>5

(* Bits that restore two parts restore the first and hold the second.       *)
LEMMA RestoresLonger ==
  ASSUME NEW a \in Seq({0, 1}), NEW b \in Seq({0, 1}), NEW out, Restores(out, a \o b)
  PROVE  Restores(out, a) /\ Holds(out, Len(a), b)
<1> DEFINE c == a \o b
           n == Len(a)
           m == Len(b)
<1>1. n \in Nat /\ m \in Nat /\ Len(c) = n + m
      /\ (\A i \in 1..n : c[i] = a[i]) /\ (\A i \in 1..m : c[n + i] = b[i])
  OBVIOUS
<1>2. out \in Seq({0, 1}) /\ Len(c) <= Len(out) /\ Len(out) \in Nat
      /\ \A i \in 1..Len(c) : out[i] = c[i]
  BY DEF Restores
<1> HIDE DEF c
<1>3. n <= Len(out) /\ n + m <= Len(out)
  BY <1>1, <1>2
<1>4. \A i \in 1..n : out[i] = a[i]
  <2> TAKE i \in 1..n
  <2>1. i \in 1..Len(c)
    BY <1>1
  <2> QED BY <2>1, <1>1, <1>2
<1>5. \A j \in 1..m : out[n + j] = b[j]
  <2> TAKE j \in 1..m
  <2>1. n + j \in 1..Len(c)
    BY <1>1
  <2> QED BY <2>1, <1>1, <1>2
<1> QED
  BY <1>1, <1>2, <1>3, <1>4, <1>5 DEF Restores, Holds

(* What restores the last bits restores those before.                       *)
LEMMA EarlierRestored ==
  ASSUME NEW t \in Floats, NEW xs, Fits(xs, t), xs # <<>>, NEW f, WriterStates(f, xs, t),
         NEW out, Restores(out, f[Len(xs) - 1].bits)
  PROVE  \A i \in 0..(Len(xs) - 1) : Restores(out, f[i].bits)
<1> DEFINE m == Len(xs) - 1
           S == {k \in Nat : k <= m => Restores(out, f[m - k].bits)}
<1>1. m \in Nat
  BY FloatsFit
<1>2. \A i \in 1..m : Wrote(f, xs, t, i)
  BY EachWritten
<1>3. 0 \in S
  BY <1>1
<1>4. ASSUME NEW k \in Nat \ {0}, k - 1 \in S PROVE k \in S
  <2> SUFFICES ASSUME k <= m PROVE Restores(out, f[m - k].bits)
    OBVIOUS
  <2> DEFINE i == m - (k - 1)
  <2>1. i \in 1..m /\ i - 1 = m - k /\ Restores(out, f[i].bits)
    BY <1>1, <1>4
  <2> HIDE DEF i, m
  <2> DEFINE entry == Entry(Xor(xs[i], xs[i + 1], Width[t]), f[i - 1].window, t)
             a == f[i - 1].bits
  <2>2. a \in Seq({0, 1}) /\ entry \in Seq({0, 1}) /\ Restores(out, a \o entry)
    BY <2>1, <1>2 DEF Wrote
  <2> HIDE DEF entry, a
  <2>3. Restores(out, a)
    BY <2>2, RestoresLonger
  <2> QED BY <2>1, <2>3 DEF a
<1>5. Nat \subseteq S
  <2> HIDE DEF S
  <2> QED BY <1>3, <1>4, SetInduction
<1>6. ASSUME NEW i \in 0..m PROVE Restores(out, f[i].bits)
  <2>1. m - i \in Nat /\ m - i <= m /\ m - (m - i) = i
    BY <1>1
  <2>2. m - i \in S
    BY <2>1, <1>5
  <2> QED BY <2>1, <2>2
<1> QED
  BY <1>6

(* The first element and the rest.                                          *)
LEMMA HeadOfJoined ==
  ASSUME NEW T, NEW n \in T, NEW s \in Seq(T)
  PROVE  (<< n >> \o s)[1] = n /\ << n >> \o s # <<>> /\ Tail(<< n >> \o s) = s
<1> DEFINE all == << n >> \o s
<1>1. Len(all) = 1 + Len(s) /\ all[1] = n /\ all \in Seq(T) /\ Len(s) \in Nat
      /\ \A i \in 1..Len(s) : all[i + 1] = s[i]
  OBVIOUS
<1> HIDE DEF all
<1>2. all # <<>>
  BY <1>1
<1> DEFINE rest == Tail(all)
<1>3. rest \in Seq(T) /\ Len(rest) = Len(s) /\ \A i \in 1..Len(s) : rest[i] = all[i + 1]
  BY <1>1, <1>2
<1> HIDE DEF rest
<1>4. \A i \in 1..Len(rest) : rest[i] = s[i]
  BY <1>1, <1>3
<1>5. rest = s
  BY <1>3, <1>4, SameSeq
<1> QED
  BY <1>1, <1>2, <1>5 DEF all, rest

\* The reader after the value that follows value i.
ReaderAt(f, xs, i) == Reader(Len(f[i].bits), f[i].window, SubSeq(xs, 1, i + 1))

(* The reader goes from what was written for one value to the next.         *)
LEMMA ReaderSteps ==
  ASSUME NEW t \in Floats, NEW xs, Fits(xs, t), xs # <<>>, NEW f, WriterStates(f, xs, t),
         NEW out, Restores(out, f[Len(xs) - 1].bits), NEW i \in 1..(Len(xs) - 1)
  PROVE  ReadXor(ReaderAt(f, xs, i - 1), out, t) = ReaderAt(f, xs, i)
<1> DEFINE m == Len(xs) - 1
           w == Width[t]
           sofar == SubSeq(xs, 1, i)
           x == xs[i + 1]
           n == Xor(xs[i], x, w)
           window == f[i - 1].window
           entry == Entry(n, window, t)
           a == f[i - 1].bits
           p == Len(a)
<1>1. m \in Nat /\ xs \in Seq(Int) /\ \A j \in 1..(m + 1) : FitsIn(xs[j], w) /\ xs[j] \in Int
  BY FloatsFit
<1>2. i \in 1..m /\ i \in 0..m /\ i \in 1..(m + 1) /\ i + 1 \in 1..(m + 1) /\ (i - 1) + 1 = i
      /\ i \in Nat \ {0} /\ i + 1 <= Len(xs) /\ m + 1 = Len(xs)
  BY <1>1
<1>3. Wrote(f, xs, t, i)
  BY <1>2, EachWritten
<1>4. /\ f[i].bits = a \o entry /\ f[i].window = NextWindow(n, window, w)
      /\ a \in Seq({0, 1}) /\ entry \in Seq({0, 1}) /\ WindowOK(window, w)
  BY <1>3 DEF Wrote
<1>5. Restores(out, f[i].bits) /\ out \in Seq({0, 1})
  <2>1. Restores(out, f[i].bits)
    BY <1>2, EarlierRestored
  <2> QED BY <2>1 DEF Restores
<1>6. sofar \in Seq(Int) /\ Len(sofar) = i /\ sofar # <<>> /\ Last(sofar) = xs[i]
  <2>1. Len(sofar) = i /\ sofar[i] = xs[i]
    BY <1>1, <1>2
  <2>2. sofar \in Seq(Int)
    BY <1>1, <1>2
  <2> HIDE DEF sofar
  <2>3. Last(sofar) = sofar[i]
    BY <2>1 DEF Last
  <2>4. sofar # <<>>
    BY <2>1, <1>2
  <2> QED BY <2>1, <2>2, <2>3, <2>4
<1>7. Append(sofar, x) = SubSeq(xs, 1, i + 1)
  <2> DEFINE all == SubSeq(xs, 1, i + 1)
             U == Int
  <2>1. all \in Seq(U) /\ Len(all) = i + 1 /\ (\A j \in 1..(i + 1) : all[j] = xs[j])
    BY <1>1, <1>2
  <2>2. \A j \in 1..i : sofar[j] = xs[j]
    BY <1>1, <1>2
  <2> DEFINE more == Append(sofar, x)
  <2>3. sofar \in Seq(U) /\ x \in U
    BY <1>1, <1>2, <1>6
  <2> HIDE DEF all, sofar, x, U
  <2>4. more \in Seq(U) /\ Len(more) = i + 1 /\ (\A j \in 1..i : more[j] = sofar[j])
        /\ more[i + 1] = x
    BY <1>6, <1>2, <2>3
  <2> HIDE DEF more
  <2>5. \A j \in 1..(i + 1) : more[j] = all[j]
    <3> TAKE j \in 1..(i + 1)
    <3>1. CASE j \in 1..i
      BY <3>1, <2>1, <2>2, <2>4
    <3>2. CASE j = i + 1
      BY <3>2, <2>1, <2>4, <1>2 DEF x
    <3> QED BY <3>1, <3>2, <1>2
  <2>6. Len(more) = Len(all)
    BY <2>1, <2>4
  <2>7. \A j \in 1..Len(more) : more[j] = all[j]
    BY <2>4, <2>5
  <2>8. more = all
    BY <2>1, <2>4, <2>6, <2>7, SameSeq
  <2> QED BY <2>8 DEF more, all
<1>8. Between(sofar, x, w)
  BY <1>1, <1>2, <1>6 DEF Between
<1> HIDE DEF sofar, entry, a
<1>9. Holds(out, p, entry) /\ p \in Nat
  <2>1. Restores(out, a \o entry)
    BY <1>4, <1>5
  <2> QED BY <2>1, <1>4, RestoresLonger
<1>10. EntryIsRead(out, p, window, sofar, x, t)
  <2>1. entry = Entry(Xor(Last(sofar), x, w), window, t)
    BY <1>6 DEF entry
  <2> HIDE DEF p, window, x
  <2> QED BY <2>1, <1>4, <1>5, <1>8, <1>9, EntryRead
<1>11. ReadXor(Reader(p, window, sofar), out, t)
         = Reader(p + Len(entry), NextWindow(n, window, w), Append(sofar, x))
  BY <1>6, <1>10 DEF EntryIsRead, entry
<1>12. p + Len(entry) = Len(f[i].bits)
  BY <1>4, Joined
<1>13. ReaderAt(f, xs, i - 1) = Reader(p, window, sofar)
  BY <1>2 DEF ReaderAt, sofar, a
<1>14. ReaderAt(f, xs, i) = Reader(p + Len(entry), NextWindow(n, window, w), Append(sofar, x))
  BY <1>4, <1>7, <1>12 DEF ReaderAt
<1> QED
  BY <1>11, <1>13, <1>14

(* All values are read.                                                     *)
LEMMA GorillaRead ==
  ASSUME NEW t \in Floats, NEW xs, Fits(xs, t), xs # <<>>, NEW f, WriterStates(f, xs, t),
         NEW bytes \in Seq(Int), Restores(FromBytes(bytes), f[Len(xs) - 1].bits)
  PROVE  FromGorilla(<< Len(xs) >> \o bytes, t) = xs
<1> DEFINE w == Width[t]
           all == << Len(xs) >> \o bytes
           m == all[1] - 1
           out == FromBytes(Tail(all))
           start == [at |-> w, window |-> <<>>, bad |-> FALSE, out |-> << BitField(out, 0, w) >>]
           body(g) == [i \in 0..m |-> IF i = 0 THEN start ELSE ReadXor(g[i - 1], out, t)]
           state == CHOOSE g : g = body(g)
           r == [i \in 0..m |-> ReaderAt(f, xs, i)]
<1>1. xs \in Seq(Int) /\ Len(xs) \in Nat \ {0} /\ FitsIn(xs[1], w) /\ w \in Nat
      /\ xs[1] \in Int
  <2>1. 1 \in 1..Len(xs) /\ xs \in Seq(Int) /\ Len(xs) \in Nat \ {0}
    BY FloatsFit
  <2> QED BY <2>1, FloatsFit, CountIs DEF Numeric
<1>2. all # <<>> /\ all[1] = Len(xs) /\ Tail(all) = bytes /\ m = Len(xs) - 1 /\ m \in Nat
  <2> DEFINE n == Len(xs)
             U == Int
  <2>1. n \in U /\ bytes \in Seq(U)
    BY <1>1
  <2> HIDE DEF n, U
  <2>2. (<< n >> \o bytes)[1] = n /\ << n >> \o bytes # <<>> /\ Tail(<< n >> \o bytes) = bytes
    BY <2>1, HeadOfJoined
  <2>3. all # <<>> /\ all[1] = n /\ Tail(all) = bytes
    BY <2>2 DEF n
  <2> HIDE DEF all
  <2> QED BY <1>1, <2>3 DEF n
<1>3. Restores(out, f[0].bits) /\ f[0] = WriterStart(xs[1], w) /\ out \in Seq({0, 1})
      /\ Restores(out, f[Len(xs) - 1].bits)
  <2>0. out = FromBytes(bytes)
    BY <1>2
  <2> HIDE DEF out
  <2>1. Restores(out, f[Len(xs) - 1].bits)
    BY <2>0
  <2>2. \A i \in 0..(Len(xs) - 1) : Restores(out, f[i].bits)
    BY <2>1, EarlierRestored
  <2>3. 0 \in 0..(Len(xs) - 1)
    BY <1>1
  <2>4. Restores(out, f[0].bits)
    BY <2>2, <2>3
  <2>5. out \in Seq({0, 1})
    BY <2>1 DEF Restores
  <2>6. f[0] = WriterStart(xs[1], w)
    BY DEF WriterStates
  <2> QED BY <2>1, <2>4, <2>5, <2>6
<1>0. FromGorilla(all, t) = IF all = <<>> THEN Fail ELSE IF all[1] = 0 THEN <<>>
                            ELSE IF Len(out) < w \/ state[m].bad THEN Fail ELSE state[m].out
  BY DEF FromGorilla
<1> HIDE DEF m, all, out
<1>4. f[0].bits = Bits(xs[1], w) /\ f[0].window = <<>>
  BY <1>3 DEF WriterStart
<1>5. Len(f[0].bits) = w
  BY <1>1, <1>4, BitsOf
<1>6. BitField(out, 0, w) = xs[1] /\ w <= Len(out)
  <2> DEFINE z == 0
  <2>1. Holds(out, z, Bits(xs[1], w))
    BY <1>3, <1>4 DEF Restores, Holds
  <2>2. z \in Nat /\ z + w = w
    BY <1>1
  <2> HIDE DEF z
  <2>3. BitField(out, z, w) = xs[1] /\ z + w <= Len(out)
    BY <1>1, <1>3, <2>1, <2>2, FieldRead
  <2> QED BY <2>2, <2>3 DEF z
<1>7. r[0] = start
  <2>1. SubSeq(xs, 1, 1) = << xs[1] >>
    <3> DEFINE s == SubSeq(xs, 1, 1)
               x == xs[1]
    <3>1. s \in Seq(Int) /\ Len(s) = 1 /\ s[1] = x
      BY <1>1
    <3>2. x \in Int
      BY <1>1
    <3> HIDE DEF s, x
    <3>3. s = << x >>
      BY <3>1, <3>2
    <3> QED BY <3>3 DEF s, x
  <2>2. r[0] = ReaderAt(f, xs, 0)
    BY <1>2
  <2>3. ReaderAt(f, xs, 0) = Reader(Len(f[0].bits), f[0].window, SubSeq(xs, 1, 1))
    BY DEF ReaderAt
  <2>4. r[0] = Reader(w, <<>>, << xs[1] >>)
    BY <1>4, <1>5, <2>1, <2>2, <2>3
  <2> HIDE DEF r
  <2> QED BY <1>6, <2>4 DEF Reader
<1> HIDE DEF start
<1>8. ASSUME NEW i \in 1..m PROVE r[i] = ReadXor(r[i - 1], out, t)
  <2>1. i \in 0..m /\ i - 1 \in 0..m /\ i \in 1..(Len(xs) - 1)
    BY <1>2
  <2>2. ReadXor(ReaderAt(f, xs, i - 1), out, t) = ReaderAt(f, xs, i)
    BY <1>3, <2>1, ReaderSteps
  <2> QED BY <2>1, <2>2
<1>9. r = body(r)
  <2>1. r = [i \in 0..m |-> r[i]]
    OBVIOUS
  <2>2. \A i \in 0..m : r[i] = IF i = 0 THEN start ELSE ReadXor(r[i - 1], out, t)
    <3> TAKE i \in 0..m
    <3>1. i = 0 \/ i \in 1..m
      BY <1>2
    <3> HIDE DEF r
    <3> QED BY <3>1, <1>2, <1>7, <1>8
  <2> HIDE DEF r
  <2> QED BY <2>1, <2>2
<1>10. state = body(state)
  <2> HIDE DEF body
  <2> QED BY <1>9
<1> DEFINE end == state[m]
<1>11. FromGorilla(all, t) = IF Len(out) < w \/ end.bad THEN Fail ELSE end.out
  <2>1. all # <<>> /\ all[1] # 0
    BY <1>1, <1>2
  <2> HIDE DEF state
  <2> QED BY <1>0, <2>1
<1> HIDE DEF state
<1>12. \A i \in 0..m : state[i] = r[i]
  <2> HIDE DEF r
  <2> DEFINE S == {i \in Nat : i <= m => state[i] = r[i]}
  <2>1. 0 \in S
    BY <1>10, <1>7, <1>2
  <2>2. ASSUME NEW k \in Nat \ {0}, k - 1 \in S PROVE k \in S
    <3> SUFFICES ASSUME k <= m PROVE state[k] = r[k]
      OBVIOUS
    <3>1. k \in 1..m /\ k \in 0..m /\ k # 0 /\ state[k - 1] = r[k - 1]
      BY <2>2, <1>2
    <3>2. state[k] = ReadXor(state[k - 1], out, t)
      BY <1>10, <3>1
    <3> QED BY <3>1, <3>2, <1>8
  <2>3. Nat \subseteq S
    <3> HIDE DEF S
    <3> QED BY <2>1, <2>2, SetInduction
  <2> QED BY <2>3, <1>2
<1>13. end = Reader(Len(f[m].bits), f[m].window, SubSeq(xs, 1, m + 1))
  BY <1>2, <1>12 DEF ReaderAt
<1>14. SubSeq(xs, 1, m + 1) = xs
  <2>1. m + 1 = Len(xs)
    BY <1>1, <1>2
  <2> QED BY <1>1, <2>1
<1>15. ~end.bad /\ end.out = xs
  BY <1>13, <1>14 DEF Reader
<1> HIDE DEF end
<1>16. Len(out) \in Nat
  BY <1>3
<1>17. ~(Len(out) < w)
  BY <1>1, <1>6, <1>16
<1> QED
  BY <1>11, <1>15, <1>17 DEF all

(* gorilla restores floats, bit by bit, whatever windows it used again.     *)
LEMMA GorillaRoundTrip ==
  ASSUME NEW t \in Floats, NEW xs, Fits(xs, t)
  PROVE  ToGorilla(xs, t) \in Seq(Int) /\ FromGorilla(ToGorilla(xs, t), t) = xs
<1>1. CASE xs = <<>>
  <2> DEFINE z == << 0 >>
  <2>1. ToGorilla(xs, t) = z
    BY <1>1 DEF ToGorilla
  <2>2. z # <<>> /\ z[1] = 0 /\ z \in Seq(Int)
    OBVIOUS
  <2> HIDE DEF z
  <2>3. FromGorilla(z, t) = <<>>
    BY <2>2 DEF FromGorilla
  <2> QED BY <1>1, <2>1, <2>2, <2>3
<1>2. CASE xs # <<>>
  <2>1. PICK f : WriterStates(f, xs, t)
                   /\ ToGorilla(xs, t) = << Len(xs) >> \o ToBytes(f[Len(xs) - 1].bits)
    BY <1>2, ToGorillaIs
  <2> DEFINE bits == f[Len(xs) - 1].bits
             bytes == ToBytes(bits)
  <2>2. bits \in Seq({0, 1})
    <3>1. Len(xs) - 1 \in 0..(Len(xs) - 1)
      BY <1>2, FloatsFit
    <3> QED BY <2>1, <3>1 DEF WriterStates, WriterState
  <2>3. bytes \in Seq(Int) /\ Restores(FromBytes(bytes), bits)
    <3> HIDE DEF bits
    <3> QED BY <2>2, BytesRestore DEF HeldIn
  <2>4. FromGorilla(<< Len(xs) >> \o bytes, t) = xs
    <3> HIDE DEF bytes
    <3> QED BY <1>2, <2>1, <2>3, GorillaRead
  <2>5. << Len(xs) >> \o bytes \in Seq(Int)
    <3> DEFINE U == Int
    <3>1. << Len(xs) >> \in Seq(U) /\ bytes \in Seq(U)
      BY <2>3, FloatsFit
    <3> HIDE DEF bytes, U
    <3>2. << Len(xs) >> \o bytes \in Seq(U)
      BY <3>1, Joined
    <3> QED BY <3>2 DEF U
  <2> QED BY <2>1, <2>4, <2>5
<1> QED
  BY <1>1, <1>2

-----------------------------------------------------------------------------
(* Data that are cut off                                                    *)

\* p is what is left of s when its end is missing.
CutShort(p, s) ==
  /\ p \in Seq(Int) /\ s \in Seq(Int)
  /\ Len(p) < Len(s) /\ \A i \in 1..Len(p) : p[i] = s[i]

(* delta: the sums up to the cut are the same.                              *)
LEMMA SumsCutShort ==
  ASSUME NEW t \in Numeric, NEW p, NEW s, CutShort(p, s)
  PROVE  CutShort(RunningSums(p, t), RunningSums(s, t))
<1> DEFINE m == Len(p)
           n == Len(s)
<1>1. p \in Seq(Int) /\ s \in Seq(Int) /\ m \in Nat /\ n \in Nat /\ m < n
      /\ \A i \in 1..m : p[i] = s[i]
  BY DEF CutShort
<1>2. PICK f : SumsAre(f, p, t) /\ RunningSums(p, t) = [i \in 1..m |-> f[i]]
  BY <1>1, RunningSumsIs
<1>3. PICK g : SumsAre(g, s, t) /\ RunningSums(s, t) = [i \in 1..n |-> g[i]]
  BY <1>1, RunningSumsIs
<1>4. f \in [0..m -> Int] /\ f[0] = 0 /\ \A i \in 1..m : f[i] = Wrap(f[i - 1] + p[i], t)
  BY <1>2 DEF SumsAre
<1>5. g \in [0..n -> Int] /\ g[0] = 0 /\ \A i \in 1..n : g[i] = Wrap(g[i - 1] + s[i], t)
  BY <1>3 DEF SumsAre
<1> DEFINE S == {k \in Nat : k <= m => f[k] = g[k]}
<1>6. 0 \in S
  BY <1>4, <1>5
<1>7. ASSUME NEW k \in Nat \ {0}, k - 1 \in S PROVE k \in S
  <2> SUFFICES ASSUME k <= m PROVE f[k] = g[k]
    OBVIOUS
  <2>1. f[k - 1] = g[k - 1] /\ k \in 1..m /\ k \in 1..n
    BY <1>1, <1>7
  <2> QED BY <2>1, <1>1, <1>4, <1>5
<1>8. Nat \subseteq S
  <2> HIDE DEF S
  <2> QED BY <1>6, <1>7, SetInduction
<1>9. \A i \in 1..m : f[i] = g[i]
  BY <1>8, <1>1
<1> DEFINE a == RunningSums(p, t)
           b == RunningSums(s, t)
<1>10. a \in Seq(Int) /\ Len(a) = m /\ \A i \in 1..m : a[i] = f[i]
  BY <1>1, <1>2, <1>4
<1>11. b \in Seq(Int) /\ Len(b) = n /\ \A i \in 1..n : b[i] = g[i]
  BY <1>1, <1>3, <1>5
<1> HIDE DEF a, b
<1>12. CutShort(a, b)
  BY <1>1, <1>9, <1>10, <1>11 DEF CutShort
<1> QED
  BY <1>12 DEF a, b

(* deltamin: without the minimum nothing is left.                           *)
LEMMA MinCutShort ==
  ASSUME NEW t \in Numeric, NEW p, NEW s, CutShort(p, s), Len(s) >= 2
  PROVE  CutShort(MinAdded(p, t), MinAdded(s, t))
<1> DEFINE m == Len(p)
           n == Len(s)
           V(i) == Wrap(s[1] + s[i + 1], t)
<1>1. p \in Seq(Int) /\ s \in Seq(Int) /\ m \in Nat /\ n \in Nat /\ m < n /\ n >= 2
      /\ \A i \in 1..m : p[i] = s[i]
  BY DEF CutShort
<1>2. ASSUME NEW i \in 1..(n - 1) PROVE V(i) \in Int
  <2>1. s[1] \in Int /\ s[i + 1] \in Int
    BY <1>1
  <2>2. s[1] + s[i + 1] \in Int
    BY <2>1
  <2> QED BY <2>2, WrapIs
<1>3. MinAdded(s, t) = [i \in 1..(n - 1) |-> V(i)]
  BY <1>1 DEF MinAdded
<1>4. CASE p = <<>>
  <2>1. MinAdded(p, t) = <<>>
    BY <1>4 DEF MinAdded
  <2> DEFINE b == MinAdded(s, t)
             k == n - 1
  <2> HIDE DEF V
  <2>2. b \in Seq(Int) /\ Len(b) = k
    BY <1>1, <1>2, <1>3
  <2>3. k >= 1 /\ k \in Nat
    BY <1>1
  <2> HIDE DEF b, k
  <2>4. CutShort(<<>>, b)
    BY <2>2, <2>3 DEF CutShort
  <2> QED BY <2>1, <2>4 DEF b
<1>5. CASE p # <<>>
  <2>1. m >= 1
    BY <1>1, <1>5
  <2>2. MinAdded(p, t) = [i \in 1..(m - 1) |-> Wrap(p[1] + p[i + 1], t)]
    BY <1>5 DEF MinAdded
  <2>3. ASSUME NEW i \in 1..(m - 1) PROVE Wrap(p[1] + p[i + 1], t) = V(i)
    <3>1. 1 \in 1..m /\ i + 1 \in 1..m
      BY <1>1, <2>1
    <3> HIDE DEF m, V
    <3>2. p[1] = s[1] /\ p[i + 1] = s[i + 1]
      BY <1>1, <3>1
    <3> USE DEF V
    <3> QED BY <3>2
  <2>4. MinAdded(p, t) = [i \in 1..(m - 1) |-> V(i)]
    BY <2>2, <2>3
  <2> DEFINE a == MinAdded(p, t)
             b == MinAdded(s, t)
  <2> HIDE DEF V
  <2>5. a \in Seq(Int) /\ Len(a) = m - 1 /\ \A i \in 1..(m - 1) : a[i] = V(i)
    BY <1>1, <1>2, <2>1, <2>4
  <2>6. b \in Seq(Int) /\ Len(b) = n - 1 /\ \A i \in 1..(n - 1) : b[i] = V(i)
    BY <1>1, <1>2, <1>3
  <2> HIDE DEF a, b
  <2>7. \A i \in 1..(m - 1) : i \in 1..(n - 1)
    BY <1>1, <2>1
  <2>8. m - 1 < n - 1
    BY <1>1
  <2> HIDE DEF m, n
  <2>9. CutShort(a, b)
    BY <2>5, <2>6, <2>7, <2>8 DEF CutShort
  <2> QED BY <2>9 DEF a, b
<1> QED
  BY <1>4, <1>5

(* The differences from the minimum are one more than the values.           *)
LEMMA AboveMinLength ==
  ASSUME NEW xs \in Seq(Int), NEW t \in Numeric, NEW p, CutShort(p, AboveMin(xs, t))
  PROVE  Len(AboveMin(xs, t)) >= 2
<1>1. CASE xs = <<>>
  <2>1. AboveMin(xs, t) = <<>>
    BY <1>1 DEF AboveMin
  <2> QED BY <2>1 DEF CutShort
<1>2. CASE xs # <<>>
  <2> DEFINE least == CHOOSE m \in ToSet(xs) : \A x \in ToSet(xs) : m <= x
             f == [i \in DOMAIN xs |-> Wrap(xs[i] - least, t)]
             U == {f[i] : i \in 1..Len(xs)} \cup {least}
  <2>1. AboveMin(xs, t) = << least >> \o f
    BY <1>2 DEF AboveMin
  <2>2. Len(xs) >= 1 /\ Len(xs) \in Nat /\ DOMAIN xs = 1..Len(xs)
    BY <1>2
  <2>3. f \in Seq(U) /\ Len(f) = Len(xs)
    BY <2>2
  <2>4. << least >> \in Seq(U) /\ Len(<< least >>) = 1
    OBVIOUS
  <2> HIDE DEF least, f, U
  <2>5. Len(<< least >> \o f) = Len(<< least >>) + Len(f)
    BY <2>3, <2>4, Joined
  <2> QED BY <2>1, <2>2, <2>3, <2>4, <2>5
<1> QED
  BY <1>1, <1>2

\* All of the first part is left, and then some of the second.
CutBehind(p, a, b) ==
  /\ p \in Seq(Int) /\ Len(p) < Len(a) + Len(b)
  /\ \A i \in 1..Len(a) : p[i] = a[i]
  /\ CutShort(SubSeq(p, Len(a) + 1, Len(p)), b)

(* What is left of two parts, when it is not shorter than the first.        *)
LEMMA CutParts ==
  ASSUME NEW a \in Seq(Int), NEW b \in Seq(Int), NEW p, CutShort(p, a \o b),
         Len(a) <= Len(p)
  PROVE  CutBehind(p, a, b)
<1> DEFINE s == a \o b
           q == SubSeq(p, Len(a) + 1, Len(p))
<1>1. /\ s \in Seq(Int) /\ Len(s) = Len(a) + Len(b)
      /\ \A i \in 1..Len(a) : s[i] = a[i]
      /\ \A i \in 1..Len(b) : s[Len(a) + i] = b[i]
  BY ConcatElements
<1>2. p \in Seq(Int) /\ Len(p) < Len(s) /\ \A i \in 1..Len(p) : p[i] = s[i]
  BY DEF CutShort
<1> HIDE DEF s
<1>3. Len(a) \in Nat /\ Len(b) \in Nat /\ Len(p) \in Nat
  BY <1>2
<1>4. \A i \in 1..Len(a) : p[i] = a[i]
  BY <1>1, <1>2, <1>3
<1>5. q \in Seq(Int) /\ Len(q) = Len(p) - Len(a)
      /\ \A i \in 1..Len(q) : q[i] = p[Len(a) + i]
  BY <1>2, <1>3
<1> HIDE DEF q
<1>6. Len(q) < Len(b)
  BY <1>1, <1>2, <1>3, <1>5
<1>7. ASSUME NEW i \in 1..Len(q) PROVE q[i] = b[i]
  <2>1. i \in 1..Len(b) /\ Len(a) + i \in 1..Len(p)
    BY <1>3, <1>5, <1>6
  <2> QED BY <1>1, <1>2, <1>5, <2>1
<1>8. Len(p) < Len(a) + Len(b)
  BY <1>1, <1>2
<1> QED
  BY <1>2, <1>4, <1>5, <1>6, <1>7, <1>8 DEF CutBehind, CutShort, q

(* Byte compressors and pcodec know how long a block is.                    *)
LEMMA FrameCutShort ==
  ASSUME NEW id \in ByteCoders \cup {"pcodec"}, NEW xs \in Seq(Int), NEW p,
         CutShort(p, Framed(id, xs))
  PROVE  Unframed(id, p) = Fail
<1> DEFINE tag == Tag(id)
           h == << tag, Len(xs) >>
<1>1. tag \in Int
  BY DEF Tag, ByteCoders
<1> HIDE DEF tag
<1>2. h \in Seq(Int) /\ Len(h) = 2 /\ h[2] = Len(xs)
  BY <1>1
<1>3. Framed(id, xs) = h \o xs
  BY DEF Framed, tag
<1> HIDE DEF h
<1>4. CASE Len(p) < 2
  BY <1>4 DEF Unframed
<1>5. CASE ~(Len(p) < 2)
  <2>1. Len(p) \in Nat /\ p \in Seq(Int)
    BY DEF CutShort
  <2>2. Len(h) <= Len(p)
    BY <1>2, <1>5, <2>1
  <2>3. CutBehind(p, h, xs)
    <3>1. CutShort(p, h \o xs)
      BY <1>3
    <3>2. h \in Seq(Int)
      BY <1>2
    <3> QED BY <2>2, <3>1, <3>2, CutParts
  <2>4. p[2] = Len(xs) /\ Len(p) < 2 + Len(xs)
    BY <1>2, <2>3 DEF CutBehind
  <2>5. Len(p) # 2 + p[2]
    BY <2>1, <2>4
  <2> QED BY <1>5, <2>5 DEF Unframed
<1> QED
  BY <1>4, <1>5

\* What is read of data that are cut off: nothing, or values without an end.
CutRead(d, xs) == d = Fail \/ CutShort(d, xs)

(* Whoever has less of the runs has less of the values.                     *)
LEMMA FewerRuns ==
  ASSUME NEW T, NEW ss \in Seq(Seq(T)), NEW j \in 0..(Len(ss) - 1),
         ss[j + 1] # <<>>
  PROVE  /\ Begins(Flat(ss, j), FlattenSeq(ss)) /\ Flat(ss, j) \in Seq(T)
         /\ Len(Flat(ss, j)) < Len(FlattenSeq(ss))
<1>1. j \in 0..Len(ss) /\ j + 1 \in 0..Len(ss) /\ j + 1 \in 1..Len(ss)
      /\ Len(ss) \in j..Len(ss) /\ Len(ss) \in (j + 1)..Len(ss) /\ j + 1 - 1 = j
      /\ Len(ss) \in 0..Len(ss)
  OBVIOUS
<1> DEFINE k == j + 1
           all == FlattenSeq(ss)
           a == Flat(ss, j)
           b == Flat(ss, k)
<1>2. a \in Seq(T) /\ b \in Seq(T) /\ Flat(ss, Len(ss)) = all
  BY <1>1, FlatStep, FlatWhole
<1>3. all \in Seq(T)
  BY FlattenType
<1>4. Begins(a, all)
  BY <1>1, <1>2, FlatGrows
<1>5. Begins(b, all)
  BY <1>1, <1>2, FlatGrows
<1>6. Len(b) = Len(a) + Len(ss[k])
  <2>1. k \in 1..Len(ss) /\ k - 1 = j
    BY <1>1
  <2> HIDE DEF k
  <2>2. Len(Flat(ss, k)) = Len(Flat(ss, k - 1)) + Len(ss[k])
    BY <2>1, FlatStepLength
  <2> QED BY <2>1, <2>2
<1>7. Len(ss[k]) \in Nat /\ Len(ss[k]) > 0
  <2>1. ss[k] \in Seq(T) /\ ss[k] # <<>>
    BY <1>1
  <2> HIDE DEF k
  <2> QED BY <2>1
<1> HIDE DEF a, b, all, k
<1>8. Len(a) < Len(all)
  BY <1>2, <1>3, <1>5, <1>6, <1>7 DEF Begins
<1> QED
  BY <1>2, <1>4, <1>8 DEF a, all

(* rle: whole pairs stand for fewer values, half of one is refused.         *)
LEMMA RunsCutShort ==
  ASSUME NEW t \in Integral, NEW xs, Fits(xs, t), NEW p, CutShort(p, RunLengths(xs, t))
  PROVE  CutRead(RunsToValues(p), xs)
<1> DEFINE out == RunLengths(xs, t)
           m == Len(p)
           j == m \div 2
<1>1. t \in Numeric
  BY LargestIs
<1>2. StandsFor(out, xs, t)
  BY RunLengthsStand
<1>3. CutShort(p, out)
  OBVIOUS
<1> HIDE DEF out
<1>4. PICK k \in Nat : Pairs(out, k, t)
  BY <1>2 DEF StandsFor
<1>5. RunsAre(out, k)
  BY <1>1, <1>4, PairsAre
<1>6. p \in Seq(Int) /\ m \in Nat /\ m < 2 * k /\ \A i \in 1..m : p[i] = out[i]
  BY <1>3, <1>5 DEF CutShort, RunsAre
<1>7. CASE m % 2 = 1
  BY <1>7 DEF RunsToValues, CutRead
<1>8. CASE m % 2 # 1
  <2>1. j \in Nat /\ m = 2 * j
    BY <1>6, <1>8
  <2>2. j < k
    BY <1>6, <2>1
  <2> HIDE DEF j
  <2>3. \A i \in 1..k : 2 * i \in 1..Len(out) /\ 2 * i - 1 \in 1..Len(out) /\ out[2 * i] > 0
                       /\ out[2 * i] \in Nat
    BY <1>5 DEF RunsAre
  <2>4. \A i \in 1..j : p[2 * i] = out[2 * i] /\ p[2 * i - 1] = out[2 * i - 1]
    BY <1>6, <2>1
  <2>5. Pairs(p, j, t)
    <3>1. \A i \in 1..m : i \in 1..Len(out)
      BY <1>3, <1>6 DEF CutShort
    <3>2. Fits(p, t)
      BY <1>4, <1>6, <3>1 DEF Fits, Pairs
    <3>3. ASSUME NEW i \in 1..j PROVE p[2 * i] > 0
      <4>1. i \in 1..k
        BY <2>1, <2>2
      <4> QED BY <2>3, <2>4, <4>1
    <3> QED BY <2>1, <3>2, <3>3 DEF Pairs
  <2>6. RunsAre(p, j) /\ RunsToValues(p) = FlattenSeq(RunsOf(p))
    BY <1>1, <2>1, <2>5, PairsAre, PairsAreRead
  <2> DEFINE all == RunsOf(out)
             some == RunsOf(p)
  <2>7. all \in Seq(Seq(Int)) /\ Len(all) = k
        /\ \A i \in 1..k : all[i] = [l \in 1..out[2 * i] |-> out[2 * i - 1]]
    BY <1>5 DEF RunsAre
  <2>8. some \in Seq(Seq(Int)) /\ Len(some) = j
        /\ \A i \in 1..j : some[i] = [l \in 1..p[2 * i] |-> p[2 * i - 1]]
    BY <2>6 DEF RunsAre
  <2> HIDE DEF all, some
  <2>9. ASSUME NEW i \in 1..j PROVE some[i] = all[i]
    <3>1. i \in 1..k
      BY <2>1, <2>2
    <3>2. p[2 * i] = out[2 * i] /\ p[2 * i - 1] = out[2 * i - 1]
      BY <2>4
    <3> QED BY <2>7, <2>8, <3>1, <3>2
  <2>10. some = SubSeq(all, 1, j)
    <3> DEFINE q == SubSeq(all, 1, j)
               U == Seq(Int)
    <3>1. q \in Seq(U) /\ Len(q) = j /\ \A i \in 1..j : q[i] = all[i]
      BY <2>1, <2>2, <2>7
    <3>2. some \in Seq(U)
      BY <2>8
    <3> HIDE DEF q, U
    <3>3. some = q
      BY <2>8, <2>9, <3>1, <3>2, SameSeq
    <3> QED BY <3>3 DEF q
  <2>11. all[j + 1] # <<>>
    <3>1. j + 1 \in 1..k
      BY <2>1, <2>2
    <3>2. out[2 * (j + 1)] \in Nat /\ out[2 * (j + 1)] > 0
      BY <2>3, <3>1
    <3>3. all[j + 1] = [l \in 1..out[2 * (j + 1)] |-> out[2 * (j + 1) - 1]]
      BY <2>7, <3>1
    <3> DEFINE c == out[2 * (j + 1)]
               x == out[2 * (j + 1) - 1]
    <3> HIDE DEF c, x
    <3>4. all[j + 1] = [l \in 1..c |-> x] /\ c \in Nat /\ c > 0
      BY <3>2, <3>3 DEF c, x
    <3> QED BY <3>4
  <2>12. j \in 0..(Len(all) - 1)
    BY <2>1, <2>2, <2>7
  <2> DEFINE a == Flat(all, j)
             b == FlattenSeq(all)
  <2>13. Begins(a, b) /\ a \in Seq(Int) /\ Len(a) < Len(b)
    BY <2>7, <2>11, <2>12, FewerRuns
  <2>14. b \in Seq(Int) /\ b = xs
    BY <1>2, <2>7, FlattenType DEF StandsFor, all
  <2>15. RunsToValues(p) = a
    BY <2>6, <2>10 DEF some, Flat
  <2> HIDE DEF a, b
  <2>16. CutShort(a, b)
    BY <2>13, <2>14 DEF CutShort, Begins
  <2> QED BY <2>14, <2>15, <2>16 DEF CutRead
<1> QED
  BY <1>7, <1>8

\* What a byte does to what was read.
LebStep(s, r) ==
  /\ s.out \in Seq(Int) /\ r.out \in Seq(Int) /\ Begins(s.out, r.out)
  /\ r.open = <<>> => Len(r.out) > Len(s.out)

(* A byte ends a number, belongs to one, or is one too many; the numbers    *)
(* that were read stay.                                                     *)
LEMMA ReadLebStep ==
  ASSUME NEW s \in LebState, NEW b \in Int
  PROVE  LebStep(s, ReadLeb(s, b))
<1> DEFINE groups == Append(s.open, b)
           number == LebNumber(groups)
           long == s.bad \/ TooLong(groups)
           more == Append(s.out, number)
           r == ReadLeb(s, b)
<1>1. /\ groups \in Seq(Int) /\ Len(groups) >= 1 /\ s.out \in Seq(Int)
      /\ s = [out |-> s.out, open |-> s.open, bad |-> s.bad]
  BY DEF LebState
<1>2. r.out \in Seq(Int)
  BY ReadLebType DEF LebState
<1>3. r = IF b < Group THEN [s EXCEPT !.out = Append(s.out, number), !.open = <<>>]
          ELSE [s EXCEPT !.open = groups, !.bad = long]
  BY DEF ReadLeb
<1>4. groups # <<>>
  BY <1>1
<1> HIDE DEF groups, number, long, r
<1>5. CASE b < Group
  <2>1. r.out = Append(s.out, number)
    BY <1>1, <1>3, <1>5
  <2> DEFINE o == s.out
             q == r.out
  <2>2. o \in Seq(Int) /\ q \in Seq(Int) /\ q = Append(o, number)
    BY <1>1, <1>2, <2>1
  <2> HIDE DEF o, q
  <2>3. Len(q) = Len(o) + 1 /\ (\A i \in 1..Len(o) : q[i] = o[i]) /\ Len(o) \in Nat
    BY <2>2
  <2>4. Begins(o, q) /\ Len(q) > Len(o)
    BY <2>3 DEF Begins
  <2> QED BY <2>2, <2>4 DEF LebStep, o, q, r
<1>6. CASE ~(b < Group)
  <2>1. r.out = s.out /\ r.open = groups
    BY <1>1, <1>3, <1>6
  <2>2. Begins(s.out, s.out)
    BY <1>1 DEF Begins
  <2> QED BY <1>1, <1>4, <2>1, <2>2 DEF LebStep, r
<1> QED
  BY <1>5, <1>6

(* The numbers that were read stay, and a reader that failed has failed for *)
(* good.                                                                    *)
LEMMA LebGrows ==
  ASSUME NEW s \in Seq(Int), NEW g, LebStates(g, s), NEW m \in 0..Len(s)
  PROVE  /\ \A k \in 0..Len(s) : g[k] \in LebState /\ g[k].out \in Seq(Int)
         /\ \A k \in m..Len(s) : Begins(g[m].out, g[k].out)
<1> DEFINE n == Len(s)
           S == {k \in Nat : k \in m..n => Begins(g[m].out, g[k].out)}
<1>0. n \in Nat /\ \A k \in 0..n : g[k] \in LebState /\ g[k].out \in Seq(Int)
  <2>1. ASSUME NEW k \in 0..n PROVE g[k] \in LebState
    BY DEF LebStates
  <2>2. ASSUME NEW r \in LebState PROVE r.out \in Seq(Int)
    BY DEF LebState
  <2> QED BY <2>1, <2>2
<1>1. Begins(g[m].out, g[m].out)
  BY <1>0 DEF Begins
<1>2. 0 \in S
  BY <1>1
<1>3. ASSUME NEW k \in Nat \ {0}, k - 1 \in S PROVE k \in S
  <2> SUFFICES ASSUME k \in m..n, k # m PROVE Begins(g[m].out, g[k].out)
    BY <1>1
  <2>1. k - 1 \in m..n /\ k \in 1..n /\ k - 1 \in 0..n /\ k \in 0..n
    BY <1>0
  <2>2. Begins(g[m].out, g[k - 1].out)
    BY <1>3, <2>1
  <2>3. LebStep(g[k - 1], g[k])
    <3>1. g[k] = ReadLeb(g[k - 1], s[k]) /\ s[k] \in Int /\ g[k - 1] \in LebState
      BY <1>0, <2>1 DEF LebStates
    <3> QED BY <3>1, ReadLebStep
  <2> DEFINE c == g[m].out
             a == g[k - 1].out
             b == g[k].out
             T == Int
  <2>4. c \in Seq(T) /\ a \in Seq(T) /\ b \in Seq(T)
    BY <1>0, <2>1
  <2>5. Begins(c, a) /\ Begins(a, b)
    BY <2>2, <2>3 DEF LebStep
  <2> HIDE DEF a, b, c, T
  <2>6. Begins(c, b)
    BY <2>4, <2>5, BeginsTransitive
  <2> QED BY <2>6 DEF c, b
<1>4. Nat \subseteq S
  <2> HIDE DEF S
  <2> QED BY <1>2, <1>3, SetInduction
<1> QED
  BY <1>0, <1>4

(* leb128: a number that is not ended is refused; before it, all numbers are*)
(* the same.                                                                *)
LEMMA LebCutShort ==
  ASSUME NEW t \in Integral, NEW s \in Seq(Int), FromLeb(s, t) # Fail,
         NEW p, CutShort(p, s)
  PROVE  CutRead(FromLeb(p, t), FromLeb(s, t))
<1> DEFINE m == Len(p)
           n == Len(s)
<1>1. p \in Seq(Int) /\ m \in Nat /\ n \in Nat /\ m < n /\ \A i \in 1..m : p[i] = s[i]
  BY DEF CutShort
<1>2. PICK f : LebStates(f, p) /\ FromLeb(p, t) = LebResult(f[m], t)
  BY <1>1, FromLebIs
<1>3. PICK g : LebStates(g, s) /\ FromLeb(s, t) = LebResult(g[n], t)
  BY FromLebIs
<1>4. f[m] = g[m]
  <2> DEFINE S == {k \in Nat : k <= m => f[k] = g[k]}
  <2>1. 0 \in S
    BY <1>2, <1>3 DEF LebStates
  <2>2. ASSUME NEW k \in Nat \ {0}, k - 1 \in S PROVE k \in S
    <3> SUFFICES ASSUME k <= m PROVE f[k] = g[k]
      OBVIOUS
    <3>1. f[k - 1] = g[k - 1] /\ k \in 1..m /\ k \in 1..n
      BY <1>1, <2>2
    <3>2. f[k] = ReadLeb(f[k - 1], p[k]) /\ g[k] = ReadLeb(g[k - 1], s[k])
      BY <1>2, <1>3, <3>1 DEF LebStates
    <3> QED BY <1>1, <3>1, <3>2
  <2>3. Nat \subseteq S
    <3> HIDE DEF S
    <3> QED BY <2>1, <2>2, SetInduction
  <2> QED BY <1>1, <2>3
<1> DEFINE a == g[m].out
           b == g[n].out
           e == g[n - 1].out
<1>5. m \in 0..n /\ n \in m..n /\ n - 1 \in m..n /\ n \in 0..n /\ n - 1 \in 0..n /\ n \in 1..n
  BY <1>1
<1>6. a \in Seq(Int) /\ b \in Seq(Int) /\ e \in Seq(Int) /\ Begins(a, b) /\ Begins(a, e)
  BY <1>3, <1>5, LebGrows
<1>7. LebStep(g[n - 1], g[n])
  <2> HIDE DEF a, b, e
  <2>1. s[n] \in Int
    BY <1>5
  <2>2. g[n - 1] \in LebState /\ g[n] = ReadLeb(g[n - 1], s[n])
    <3>1. \A i \in 1..n : g[i] = ReadLeb(g[i - 1], s[i])
      BY <1>3 DEF LebStates
    <3>2. g \in [0..n -> LebState]
      BY <1>3 DEF LebStates
    <3> HIDE DEF n
    <3> QED BY <1>5, <3>1, <3>2
  <2> QED BY <2>1, <2>2, ReadLebStep
<1>8. g[n].open = <<>>
  BY <1>3 DEF LebResult
<1>9. Len(e) < Len(b)
  BY <1>7, <1>8 DEF LebStep
<1> DEFINE va == LebValues(g[m], t)
           vb == LebValues(g[n], t)
<1>10. va = [i \in DOMAIN a |-> Decoded(a[i], t)] /\ vb = [i \in DOMAIN b |-> Decoded(b[i], t)]
  BY DEF LebValues
<1>11. FromLeb(s, t) = vb
  BY <1>3 DEF LebResult
<1>12. FromLeb(p, t) = Fail \/ FromLeb(p, t) = va
  BY <1>2, <1>4 DEF LebResult
<1> HIDE DEF a, b, e, va, vb, m, n
<1>13. Len(a) < Len(b)
  BY <1>6, <1>9 DEF Begins
<1>14. ASSUME NEW u \in Int PROVE Decoded(u, t) \in Int
  BY DEF Decoded, UnZigZag
<1>15. va \in Seq(Int) /\ Len(va) = Len(a) /\ \A i \in 1..Len(a) : va[i] = Decoded(a[i], t)
  <2>1. va = [i \in 1..Len(a) |-> Decoded(a[i], t)] /\ Len(a) \in Nat
    BY <1>6, <1>10
  <2>2. ASSUME NEW i \in 1..Len(a) PROVE Decoded(a[i], t) \in Int
    <3>1. a[i] \in Int
      BY <1>6
    <3> QED BY <3>1, <1>14
  <2> QED BY <2>1, <2>2
<1>16. vb \in Seq(Int) /\ Len(vb) = Len(b) /\ \A i \in 1..Len(b) : vb[i] = Decoded(b[i], t)
  <2>1. vb = [i \in 1..Len(b) |-> Decoded(b[i], t)] /\ Len(b) \in Nat
    BY <1>6, <1>10
  <2>2. ASSUME NEW i \in 1..Len(b) PROVE Decoded(b[i], t) \in Int
    <3>1. b[i] \in Int
      BY <1>6
    <3> QED BY <3>1, <1>14
  <2> QED BY <2>1, <2>2
<1>17. CutShort(va, vb)
  <2>1. \A i \in 1..Len(a) : b[i] = a[i] /\ i \in 1..Len(b)
    BY <1>6, <1>13 DEF Begins
  <2> QED BY <1>6, <1>13, <1>15, <1>16, <2>1 DEF CutShort
<1> QED
  BY <1>11, <1>12, <1>17 DEF CutRead

(* How many bytes packed values take.                                       *)
LEMMA PackLength ==
  ASSUME NEW xs \in Seq(Int), NEW w \in Nat
  PROVE  Len(Pack(xs, w)) = CeilDiv(Len(xs) * w, ByteBits)
<1> DEFINE n == Len(xs)
           T == Seq({0, 1})
           ss == [i \in 1..n |-> Reverse(Bits(xs[i], w))]
           bits == FlattenSeq(ss)
<1>1. n \in Nat /\ DOMAIN xs = 1..n /\ \A i \in 1..n : xs[i] \in Int
  OBVIOUS
<1> HIDE DEF n
<1>2. ASSUME NEW i \in 1..n PROVE ss[i] \in T /\ Len(ss[i]) = w
  <2> DEFINE b == Bits(xs[i], w)
  <2>1. b \in Seq({0, 1}) /\ Len(b) = w
    <3>1. xs[i] \in Int
      BY <1>1
    <3> QED BY <3>1, BitsOfAny
  <2>2. ss[i] = Reverse(b)
    OBVIOUS
  <2> HIDE DEF b, ss
  <2>3. Reverse(b) \in T /\ Len(Reverse(b)) = w
    BY <2>1, ReverseIs
  <2> QED BY <2>2, <2>3
<1>3. ss \in Seq(T) /\ Len(ss) = n
  <2>1. ss = [i \in 1..n |-> ss[i]]
    OBVIOUS
  <2> HIDE DEF ss, T
  <2> QED BY <1>1, <1>2, <2>1
<1>4. Pack(xs, w) = ToBytesLow(bits)
  BY <1>1 DEF Pack
<1> HIDE DEF ss
<1>5. Regular(ss, w)
  BY <1>2, <1>3, RegularFlat
<1>6. bits \in T /\ Len(bits) = n * w
  BY <1>3, <1>5, FlattenType DEF Regular
<1> HIDE DEF bits
<1>7. HeldIn(ToBytesLow(bits), FromBytesLow(ToBytesLow(bits)), bits)
  BY <1>6, LowBytesRestore
<1> QED
  BY <1>4, <1>6, <1>7 DEF HeldIn, n

(* Fewer bytes than that are refused.                                       *)
LEMMA TooFewBytes ==
  ASSUME NEW xs \in Seq(Int), NEW w \in Nat, NEW q, Len(q) < Len(Pack(xs, w)), NEW t
  PROVE  Unpack(q, Len(xs), w, t) = Fail
<1> DEFINE k == CeilDiv(Len(xs) * w, ByteBits)
<1>1. Len(q) < k
  BY PackLength
<1> QED
  BY <1>1, Zenon DEF Unpack, k

(* bitpack_fixed: the number of values is there, and then bytes are missing.*)
LEMMA PackFixedCutShort ==
  ASSUME NEW t \in Integral, NEW w \in Nat, NEW xs, Fits(xs, t), PackFixed(xs, w) # Fail,
         NEW p, CutShort(p, PackFixed(xs, w))
  PROVE  UnpackFixed(p, w, t) = Fail
<1> DEFINE bytes == Pack(xs, w)
           n == Len(xs)
           h == << n >>
<1>1. xs \in Seq(Int) /\ n \in Nat /\ DOMAIN xs = 1..n
  BY DEF Fits
<1>2. t \in Numeric /\ t # "bytes" /\ Pow(w) \in Nat
  BY LargestIs, PowIs
<1>3. Packable(xs, w, t)
  <2>1. \A i \in 1..n : xs[i] >= 0 /\ xs[i] < Pow(w)
    BY <1>1, <1>2 DEF PackFixed
  <2>2. \A i \in 1..n : xs[i] \in Int /\ InRange(xs[i], t)
    BY <1>1, <1>2, InRangeIs DEF Fits
  <2> QED BY <1>1, <1>2, <2>1, <2>2 DEF Packable, FitsIn
<1>4. bytes \in Seq(Int)
  BY <1>3, PackRoundTrip DEF Packs
<1>5. CutShort(p, h \o bytes)
  BY DEF PackFixed
<1>6. h \in Seq(Int) /\ Len(h) = 1 /\ h[1] = n
  BY <1>1
<1>7. p \in Seq(Int) /\ Len(p) \in Nat
  BY DEF CutShort
<1> HIDE DEF h
<1>8. CASE p = <<>>
  BY <1>8 DEF UnpackFixed
<1>9. CASE p # <<>>
  <2>1. Len(h) <= Len(p)
    BY <1>6, <1>7, <1>9
  <2> HIDE DEF bytes
  <2>2. CutBehind(p, h, bytes)
    BY <1>4, <1>5, <1>6, <2>1, CutParts
  <2>3. p[1] = n /\ Len(p) < 1 + Len(bytes) /\ Len(bytes) \in Nat
    BY <1>4, <1>6, <2>2 DEF CutBehind
  <2>4. Len(Tail(p)) = Len(p) - 1
    BY <1>7, <1>9
  <2> DEFINE q == Tail(p)
  <2> HIDE DEF q
  <2>5. Len(q) < Len(Pack(xs, w))
    BY <1>7, <2>3, <2>4 DEF q, bytes
  <2>6. Unpack(q, n, w, t) = Fail
    BY <1>1, <2>5, TooFewBytes
  <2> QED BY <1>9, <2>3, <2>6 DEF UnpackFixed, q
<1> QED
  BY <1>8, <1>9

(* bitpack_auto: the same behind the width.                                 *)
LEMMA PackAutoCutShort ==
  ASSUME NEW t \in Integral, NEW xs, Fits(xs, t), PackAuto(xs) # Fail,
         NEW p, CutShort(p, PackAuto(xs))
  PROVE  UnpackAuto(p, t) = Fail
<1> DEFINE w == BitsFor(MaxOf(xs))
           bytes == Pack(xs, w)
           n == Len(xs)
           h == << n, w >>
<1>1. xs \in Seq(Int) /\ n \in Nat
  BY DEF Fits
<1>2. PackedTo(xs, w, t)
  BY PackAutoAccepts, PackAutoIs
<1> HIDE DEF w
<1>3. w \in Nat /\ ~(w > WordBits) /\ Packable(xs, w, t) /\ PackAuto(xs) = h \o bytes
  BY <1>2 DEF PackedTo
<1>4. bytes \in Seq(Int)
  BY <1>3, PackRoundTrip DEF Packs
<1>5. CutShort(p, h \o bytes)
  BY <1>3
<1>6. h \in Seq(Int) /\ Len(h) = 2 /\ h[1] = n /\ h[2] = w
  BY <1>1, <1>3
<1>7. p \in Seq(Int) /\ Len(p) \in Nat
  BY DEF CutShort
<1> HIDE DEF h
<1>8. CASE Len(p) < 2
  BY <1>8 DEF UnpackAuto
<1>9. CASE ~(Len(p) < 2)
  <2>1. Len(h) <= Len(p)
    BY <1>6, <1>7, <1>9
  <2> HIDE DEF bytes
  <2>2. CutBehind(p, h, bytes)
    BY <1>4, <1>5, <1>6, <2>1, CutParts
  <2>3. p[1] = n /\ p[2] = w
    BY <1>6, <2>2 DEF CutBehind
  <2> DEFINE q == SubSeq(p, 3, Len(p))
  <2>4. Len(q) < Len(bytes)
    <3>1. CutShort(SubSeq(p, Len(h) + 1, Len(p)), bytes)
      BY <2>2 DEF CutBehind
    <3>2. Len(h) + 1 = 3
      BY <1>6
    <3> QED BY <3>1, <3>2 DEF CutShort
  <2> HIDE DEF q
  <2>5. Len(q) < Len(Pack(xs, w))
    BY <2>4 DEF bytes
  <2>6. Unpack(q, n, w, t) = Fail
    BY <1>1, <1>3, <2>5, TooFewBytes
  <2> QED BY <1>9, <1>3, <2>3, <2>6 DEF UnpackAuto, q
<1> QED
  BY <1>8, <1>9

(* Every byte is as many bits.                                              *)
LEMMA BitsOfBytes ==
  ASSUME NEW bytes \in Seq(Int)
  PROVE  FromBytes(bytes) \in Seq({0, 1}) /\ Len(FromBytes(bytes)) = Len(bytes) * ByteBits
<1> DEFINE n == Len(bytes)
           T == Seq({0, 1})
           ss == [i \in 1..n |-> Bits(bytes[i], ByteBits)]
<1>1. n \in Nat /\ DOMAIN bytes = 1..n /\ \A i \in 1..n : bytes[i] \in Int
  OBVIOUS
<1>2. ByteBits \in Nat
  BY CodersAssumption
<1> HIDE DEF n
<1>3. ASSUME NEW i \in 1..n PROVE ss[i] \in T /\ Len(ss[i]) = ByteBits
  <2>1. bytes[i] \in Int
    BY <1>1
  <2>2. Bits(bytes[i], ByteBits) \in T /\ Len(Bits(bytes[i], ByteBits)) = ByteBits
    BY <1>2, <2>1, BitsOfAny
  <2> QED BY <2>2
<1>4. ss \in Seq(T) /\ Len(ss) = n
  <2>1. ss = [i \in 1..n |-> ss[i]]
    OBVIOUS
  <2> HIDE DEF ss, T
  <2> QED BY <1>1, <1>3, <2>1
<1>5. FromBytes(bytes) = FlattenSeq(ss)
  BY <1>1 DEF FromBytes
<1> HIDE DEF ss
<1>6. Regular(ss, ByteBits)
  BY <1>2, <1>3, <1>4, RegularFlat
<1> QED
  BY <1>4, <1>5, <1>6, FlattenType DEF Regular, n

(* With a byte less there are too few bits.                                 *)
LEMMA TooFewBits ==
  ASSUME NEW a \in Nat, NEW k \in Nat, k < CeilDiv(a, ByteBits)
  PROVE  k * ByteBits < a
<1> DEFINE c == CeilDiv(a, ByteBits)
           b == ByteBits
<1>1. b \in Nat \ {0}
  BY CodersAssumption
<1>2. c \in Nat /\ c * b < a + b
  BY <1>1, CeilDivIs
<1>3. k + 1 <= c
  BY <1>2
<1> HIDE DEF b, c
<1>4. (k + 1) * b <= c * b
  BY <1>1, <1>2, <1>3
<1>5. (k + 1) * b = k * b + b
  BY <1>1
<1> DEFINE x == k * b
           y == c * b
<1>6. x \in Int /\ y \in Int
  BY <1>1, <1>2
<1> HIDE DEF x, y
<1>7. x + b <= y /\ y < a + b
  BY <1>2, <1>4, <1>5 DEF x, y
<1>8. x < a
  BY <1>1, <1>6, <1>7
<1> QED
  BY <1>8 DEF x, b

(* elias_fano: its lengths are there, and then bytes are missing.           *)
LEMMA EliasFanoCutShort ==
  ASSUME NEW t \in Sorted, NEW xs, Fits(xs, t), ToEliasFano(xs) # Fail,
         NEW p, CutShort(p, ToEliasFano(xs))
  PROVE  FromEliasFano(p, t) = Fail
<1>1. p \in Seq(Int) /\ Len(p) \in Nat
  BY DEF CutShort
<1>2. CASE Len(p) < 3
  BY <1>2 DEF FromEliasFano
<1>3. CASE ~(Len(p) < 3) /\ xs = <<>>
  <2>1. ToEliasFano(xs) = <<0, 0, 0>>
    BY <1>3 DEF ToEliasFano
  <2>2. Len(p) < 3
    BY <2>1 DEF CutShort
  <2> QED BY <1>3, <2>2
<1>4. CASE ~(Len(p) < 3) /\ xs # <<>>
  <2> DEFINE n == Len(xs)
             l == LowWidth(xs)
  <2>1. l \in Nat
    BY <1>4, LowWidthIs
  <2>2. n \in Nat
    BY DEF Fits
  <2>3. PICK hs, ls, a, b : EliasWritten(xs, l, hs, ls, a, b)
    BY <1>4, ToEliasFanoIs DEF ToEliasFano
  <2> HIDE DEF l
  <2> DEFINE h == <<n, l, Len(a)>>
             ts == LowBits(ls, l)
             bits == FlattenSeq(ts)
             g == h \o a
  <2>4. LowOf(ts, ls, l) /\ Len(ls) = n /\ ts \in Seq(Seq({0, 1})) /\ Len(ts) = n
    BY <2>3 DEF EliasWritten, SplitsInto, LowOf
  <2>5. a \in Seq(Int) /\ b \in Seq(Int) /\ Len(b) = CeilDiv(Len(bits), ByteBits)
    BY <2>3 DEF EliasWritten, HeldIn
  <2>6. CutShort(p, g \o b)
    BY <2>3 DEF EliasWritten
  <2>7. Len(bits) = n * l
    <3>1. \A i \in 1..Len(ts) : Len(ts[i]) = l
      BY <2>4 DEF LowOf
    <3> HIDE DEF ts
    <3>2. Regular(ts, l)
      BY <2>1, <2>4, <3>1, RegularFlat
    <3> QED BY <2>4, <3>2 DEF Regular
  <2> HIDE DEF ts, bits
  <2>8. h \in Seq(Int) /\ Len(h) = 3 /\ h[1] = n /\ h[2] = l /\ h[3] = Len(a)
    BY <2>1, <2>2, <2>5
  <2> HIDE DEF h
  <2>9. /\ g \in Seq(Int) /\ Len(g) = 3 + Len(a)
        /\ \A i \in 1..3 : g[i] = h[i]
    <3>1. h \in Seq(Int) /\ a \in Seq(Int) /\ Len(h) = 3
      BY <2>5, <2>8
    <3>2. g \in Seq(Int) /\ Len(g) = Len(h) + Len(a)
      BY <3>1, Joined
    <3>3. Begins(h, g)
      BY <3>1, ConcatBegins
    <3>4. \A i \in 1..3 : g[i] = h[i]
      BY <3>1, <3>3 DEF Begins
    <3> HIDE DEF g
    <3> QED BY <3>1, <3>2, <3>4
  <2>10. Len(a) \in Nat /\ Len(b) \in Nat
    BY <2>5
  <2> HIDE DEF g
  <2>11. p[1] = n /\ p[2] = l /\ p[3] = Len(a)
    <3>1. \A i \in 1..3 : p[i] = (g \o b)[i] /\ (g \o b)[i] = g[i]
      <4>1. \A i \in 1..Len(p) : p[i] = (g \o b)[i]
        BY <2>6 DEF CutShort
      <4>2. \A i \in 1..Len(g) : (g \o b)[i] = g[i]
        BY <2>5, <2>9, ConcatElements
      <4>3. \A i \in 1..3 : i \in 1..Len(p) /\ i \in 1..Len(g)
        BY <1>1, <1>4, <2>9, <2>10
      <4> QED BY <4>1, <4>2, <4>3
    <3> QED BY <2>8, <2>9, <3>1
  <2>12. CASE Len(p) < 3 + Len(a)
    BY <1>4, <2>11, <2>12 DEF FromEliasFano
  <2>13. CASE ~(Len(p) < 3 + Len(a))
    <3>1. Len(g) <= Len(p)
      BY <1>1, <2>9, <2>10, <2>13
    <3>2. CutBehind(p, g, b)
      BY <2>5, <2>6, <2>9, <3>1, CutParts
    <3> DEFINE k == 4 + Len(a)
               q == SubSeq(p, k, Len(p))
               low == FromBytes(q)
    <3>3. CutShort(q, b)
      <4>1. Len(g) + 1 = k
        BY <2>9, <2>10
      <4>2. CutShort(SubSeq(p, Len(g) + 1, Len(p)), b)
        BY <3>2 DEF CutBehind
      <4> HIDE DEF k
      <4> QED BY <4>1, <4>2
    <3> HIDE DEF q
    <3>4. q \in Seq(Int) /\ Len(q) < Len(b) /\ Len(q) \in Nat
      BY <3>3 DEF CutShort
    <3>5. Len(low) = Len(q) * ByteBits
      BY <3>4, BitsOfBytes
    <3> DEFINE c == n * l
    <3>6. c \in Nat
      BY <2>1, <2>2
    <3> HIDE DEF c
    <3>7. Len(q) * ByteBits < c
      BY <2>5, <2>7, <3>4, <3>6, TooFewBits DEF c
    <3>8. Len(low) < n * l
      BY <3>5, <3>7 DEF c
    <3> DEFINE highs == Highs(FromBytes(SubSeq(p, 4, 3 + Len(a))))
               values == [i \in 1..n |->
                            highs[i] * Pow(l) + Number(SubSeq(low, (i - 1) * l + 1, i * l))]
               rest == IF Len(highs) < n \/ Len(low) < n * l THEN Fail
                       ELSE IF \E i \in 1..n : ~InRange(values[i], t) THEN Fail
                       ELSE values
    <3>9. rest = Fail
      <4> HIDE DEF highs, values, low
      <4> QED BY <3>8, Zenon
    <3>10. FromEliasFano(p, t) = Fail \/ FromEliasFano(p, t) = rest
      <4>1. p[3] = Len(a) /\ p[1] = n /\ p[2] = l
        BY <2>11
      <4> DEFINE nn == p[1]
                 ll == p[2]
                 hh == p[3]
                 highs2 == Highs(FromBytes(SubSeq(p, 4, 3 + hh)))
                 low2 == FromBytes(SubSeq(p, 4 + hh, Len(p)))
                 values2 == [i \in 1..nn |->
                            highs2[i] * Pow(ll) + Number(SubSeq(low2, (i - 1) * ll + 1, i * ll))]
                 rest2 == IF Len(highs2) < nn \/ Len(low2) < nn * ll THEN Fail
                       ELSE IF \E i \in 1..nn : ~InRange(values2[i], t) THEN Fail
                       ELSE values2
      <4>2. FromEliasFano(p, t) = Fail \/ FromEliasFano(p, t) = rest2
        BY Zenon DEF FromEliasFano
      <4>3. rest2 = rest
        BY <4>1, Zenon DEF q
      <4> QED BY <4>2, <4>3
    <3> QED BY <3>9, <3>10
  <2> QED BY <2>12, <2>13
<1> QED
  BY <1>2, <1>3, <1>4

(* Bytes that are cut off are bits that are cut off.                        *)
LEMMA BitsBegin ==
  ASSUME NEW bytes \in Seq(Int), NEW q \in Seq(Int), Begins(q, bytes)
  PROVE  Begins(FromBytes(q), FromBytes(bytes))
<1> DEFINE m == Len(q)
           n == Len(bytes)
           U == {0, 1}
           T == Seq(U)
           ss == [i \in 1..n |-> Bits(bytes[i], ByteBits)]
           qs == [i \in 1..m |-> Bits(q[i], ByteBits)]
<1>1. /\ m \in Nat /\ n \in Nat /\ m <= n /\ DOMAIN bytes = 1..n /\ DOMAIN q = 1..m
      /\ \A i \in 1..n : bytes[i] \in Int
      /\ \A i \in 1..m : q[i] = bytes[i]
  BY DEF Begins
<1>2. ByteBits \in Nat
  BY CodersAssumption
<1>3. FromBytes(bytes) = FlattenSeq(ss) /\ FromBytes(q) = FlattenSeq(qs)
  BY <1>1 DEF FromBytes
<1> HIDE DEF m, n, T
<1>4. ASSUME NEW i \in 1..n PROVE ss[i] \in T
  <2>1. bytes[i] \in Int
    BY <1>1
  <2> QED BY <1>2, <2>1, BitsOfAny DEF T
<1>5. ss \in Seq(T) /\ Len(ss) = n
  <2>1. ss = [i \in 1..n |-> ss[i]]
    OBVIOUS
  <2>2. n \in Nat
    BY <1>1
  <2>3. \A i \in 1..n : ss[i] \in T
    BY <1>4
  <2> HIDE DEF ss, qs, U
  <2>4. ss \in [1..n -> T]
    BY <2>1, <2>3
  <2>5. ss \in Seq(T)
    BY <2>2, <2>4
  <2>6. Len(ss) = n
    BY <2>2, <2>4
  <2> QED BY <2>5, <2>6
<1>6. \A i \in 1..m : i \in 1..n /\ qs[i] = ss[i]
  BY <1>1
<1>7. qs \in Seq(T) /\ Len(qs) = m
  <2>1. qs = [i \in 1..m |-> qs[i]]
    OBVIOUS
  <2>2. m \in Nat
    BY <1>1
  <2> HIDE DEF qs, ss, U
  <2>3. \A i \in 1..m : qs[i] \in T
    BY <1>4, <1>6
  <2>4. qs \in [1..m -> T]
    BY <2>1, <2>3
  <2>5. qs \in Seq(T)
    BY <2>2, <2>4
  <2>6. Len(qs) = m
    BY <2>2, <2>4
  <2> QED BY <2>5, <2>6
<1> HIDE DEF ss, qs
<1>8. qs = SubSeq(ss, 1, m)
  <2> DEFINE b == SubSeq(ss, 1, m)
  <2>1. b \in Seq(T) /\ Len(b) = m /\ \A i \in 1..m : b[i] = ss[i]
    BY <1>1, <1>5
  <2> HIDE DEF b
  <2>2. qs = b
    BY <1>6, <1>7, <2>1, SameSeq
  <2> QED BY <2>2 DEF b
<1>9. m \in 0..Len(ss) /\ n \in m..Len(ss) /\ n = Len(ss)
  BY <1>1, <1>5
<1>10. Begins(Flat(ss, m), Flat(ss, n))
  <2>1. ss \in Seq(Seq(U))
    BY <1>5 DEF T
  <2> HIDE DEF U
  <2> QED BY <1>9, <2>1, FlatGrows
<1>11. Flat(ss, n) = FlattenSeq(ss)
  <2>1. ss \in Seq(Seq(U))
    BY <1>5 DEF T
  <2> HIDE DEF U
  <2>2. Flat(ss, Len(ss)) = FlattenSeq(ss)
    BY <2>1, FlatWhole
  <2> QED BY <1>9, <2>2
<1> QED
  BY <1>3, <1>8, <1>10, <1>11 DEF Flat

(* A field that is there is the same in what is left of the bits.           *)
LEMMA FieldSame ==
  ASSUME NEW bits \in Seq({0, 1}), NEW out \in Seq({0, 1}), Begins(bits, out),
         NEW p \in Nat, NEW c \in Nat, p + c <= Len(bits)
  PROVE  BitField(bits, p, c) = BitField(out, p, c) /\ BitField(bits, p, c) \in Nat
<1> DEFINE a == SubSeq(bits, p + 1, p + c)
           b == SubSeq(out, p + 1, p + c)
<1>1. Len(bits) \in Nat /\ Len(out) \in Nat /\ Len(bits) <= Len(out)
      /\ \A i \in 1..Len(bits) : out[i] = bits[i]
  BY DEF Begins
<1>2. \A j \in 1..c : p + j \in 1..Len(bits) /\ p + j \in 1..Len(out)
  BY <1>1
<1>3. Len(a) = c /\ a \in Seq({0, 1}) /\ \A j \in 1..c : a[j] = bits[p + j]
  <2>1. p + 1 \in Nat /\ p + c \in Nat /\ (p + c) - (p + 1) + 1 = c
    OBVIOUS
  <2>2. \A j \in (p + 1)..(p + c) : bits[j] \in {0, 1}
    BY <1>1
  <2>3. Len(a) = c
    BY <2>1, <1>1
  <2>4. \A j \in 1..c : a[j] = bits[p + j]
    BY <2>1, <1>1
  <2>5. a \in Seq({0, 1})
    BY <2>1, <2>2
  <2> QED BY <2>3, <2>4, <2>5
<1>4. Len(b) = c /\ b \in Seq({0, 1}) /\ \A j \in 1..c : b[j] = out[p + j]
  <2>1. p + 1 \in Nat /\ p + c \in Nat /\ (p + c) - (p + 1) + 1 = c
    OBVIOUS
  <2>2. \A j \in (p + 1)..(p + c) : out[j] \in {0, 1}
    BY <1>1
  <2>3. Len(b) = c
    BY <2>1, <1>1
  <2>4. \A j \in 1..c : b[j] = out[p + j]
    BY <2>1, <1>1
  <2>5. b \in Seq({0, 1})
    BY <2>1, <2>2
  <2> QED BY <2>3, <2>4, <2>5
<1> HIDE DEF a, b
<1>5. a = b
  <2>1. \A j \in 1..c : a[j] = b[j]
    BY <1>1, <1>2, <1>3, <1>4
  <2> QED BY <1>3, <1>4, <2>1, SameSeq
<1>6. Number(a) \in Nat
  <2>1. PICK f : HighAre(f, a) /\ Number(a) = f[Len(a)]
    BY <1>3, NumberIs
  <2>2. f \in [0..Len(a) -> Nat] /\ Len(a) \in 0..Len(a)
    BY <1>3, <2>1 DEF HighAre
  <2> QED BY <2>1, <2>2
<1> QED
  BY <1>5, <1>6 DEF BitField, a, b

\* The reader has met the end of the bits.
Broken(s) == [s EXCEPT !.bad = TRUE]

\* r is what is read from all of the bits, and v from what is left of them.
ReadsLess(v, r, s, bits) == v = Broken(s) \/ (v = r /\ v.at <= Len(bits))

(* The bits of a window are there, or the reader meets the end.             *)
LEMMA InsideLess ==
  ASSUME NEW w \in Int, NEW bits \in Seq({0, 1}), NEW out \in Seq({0, 1}), Begins(bits, out),
         NEW s, s.at \in Nat, NEW read \in Nat, NEW window, Meaningful(window, w) \in Nat
  PROVE  ReadsLess(ReadInside(s, bits, read, window, w), ReadInside(s, out, read, window, w),
                   s, bits)
<1> DEFINE c == Meaningful(window, w)
           at == s.at + read
           u == Pow(window[2])
           V(b) == IF window[2] < 0 \/ at + c > Len(b) THEN Broken(s)
                   ELSE Took(s, read + c, window, Xor(Last(s.out), BitField(b, at, c) * u, w))
<1>1. ReadInside(s, bits, read, window, w) = V(bits)
      /\ ReadInside(s, out, read, window, w) = V(out)
  BY Zenon DEF ReadInside, Broken
<1>2. c \in Nat /\ at \in Nat /\ Len(bits) \in Nat /\ Len(out) \in Nat /\ Len(bits) <= Len(out)
  BY DEF Begins
<1>3. at + c = s.at + (read + c)
  BY <1>2
<1> HIDE DEF c, at, u
<1>4. CASE window[2] < 0 \/ at + c > Len(bits)
  BY <1>1, <1>4, Zenon DEF ReadsLess
<1>5. CASE ~(window[2] < 0 \/ at + c > Len(bits))
  <2>1. at + c <= Len(bits) /\ ~(window[2] < 0 \/ at + c > Len(out))
    BY <1>2, <1>5
  <2>2. BitField(bits, at, c) = BitField(out, at, c)
    BY <1>2, <2>1, FieldSame
  <2> DEFINE x == Xor(Last(s.out), BitField(bits, at, c) * u, w)
             v == Took(s, read + c, window, x)
  <2>3. V(bits) = v
    BY <1>5, Zenon
  <2>4. V(out) = v
    BY <2>1, <2>2, Zenon
  <2>5. v.at = s.at + (read + c)
    BY DEF Took
  <2> HIDE DEF V, v
  <2> QED BY <1>1, <1>3, <2>1, <2>3, <2>4, <2>5 DEF ReadsLess
<1> QED
  BY <1>4, <1>5

(* An entry of gorilla is read the same from what is left of the bits, or   *)
(* the reader meets their end.                                              *)
LEMMA ReadLess ==
  ASSUME NEW t \in Floats, NEW bits \in Seq({0, 1}), NEW out \in Seq({0, 1}), Begins(bits, out),
         NEW p \in Nat, NEW window, WindowOK(window, Width[t]), NEW o
  PROVE  ReadsLess(ReadXor(Reader(p, window, o), bits, t), ReadXor(Reader(p, window, o), out, t),
                   Reader(p, window, o), bits)
<1> DEFINE s == Reader(p, window, o)
           w == Width[t]
           f == FieldBits(t)
           v == ReadXor(s, bits, t)
           r == ReadXor(s, out, t)
           e == 2 + 2 * f
           Lz(b) == BitField(b, s.at + 2, f)
           Length(b) == BitField(b, s.at + 2 + f, f) + 1
           Fresh(b) == << Lz(b), w - Lz(b) - Length(b) >>
           From(b) ==
             IF s.bad \/ ~(s.at + 1 <= Len(b)) THEN Broken(s)
             ELSE IF b[s.at + 1] = 0 THEN Took(s, 1, s.window, Last(s.out))
             ELSE IF ~(s.at + 2 <= Len(b)) THEN Broken(s)
             ELSE IF b[s.at + 2] = 0 /\ s.window # <<>> THEN ReadInside(s, b, 2, s.window, w)
             ELSE IF b[s.at + 2] = 1 /\ s.at + (2 + 2 * f) <= Len(b)
             THEN ReadInside(s, b, 2 + 2 * f, Fresh(b), w)
             ELSE Broken(s)
<1>1. w \in Nat /\ f \in Nat
  <2>1. t \in Numeric
    BY DEF Numeric
  <2>2. w \in Nat /\ w >= 2
    BY <2>1, CountIs
  <2>3. 0 \in 0..(w - 1)
    BY <2>2
  <2>4. f \in Nat
    BY <2>3, FieldsFit
  <2> QED BY <2>2, <2>4
<1>2. v = From(bits) /\ r = From(out)
  BY Zenon DEF ReadXor, Broken
<1>3. s.at = p /\ s.bad = FALSE /\ s.window = window /\ s.at \in Nat
  BY DEF Reader
<1>4. Len(bits) \in Nat /\ Len(out) \in Nat /\ Len(bits) <= Len(out)
      /\ \A i \in 1..Len(bits) : out[i] = bits[i]
  BY DEF Begins
<1> HIDE DEF s, w, f, v, r
<1>5. CASE ~(s.at + 1 <= Len(bits))
  <2>1. v = Broken(s)
    BY <1>2, <1>5, Zenon
  <2> QED BY <2>1 DEF ReadsLess, v, s
<1>6. CASE s.at + 1 <= Len(bits) /\ bits[s.at + 1] = 0
  <2>1. s.at + 1 <= Len(out) /\ out[s.at + 1] = 0
    BY <1>3, <1>4, <1>6
  <2> DEFINE k == Took(s, 1, s.window, Last(s.out))
  <2>2. v = k
    BY <1>2, <1>3, <1>6, Zenon
  <2>3. r = k
    BY <1>2, <1>3, <2>1, Zenon
  <2>4. k.at = s.at + 1
    BY DEF Took
  <2> HIDE DEF k
  <2>5. ReadsLess(v, r, s, bits)
    BY <1>6, <2>2, <2>3, <2>4 DEF ReadsLess
  <2> QED BY <2>5 DEF v, r, s
<1>7. CASE s.at + 1 <= Len(bits) /\ bits[s.at + 1] # 0 /\ ~(s.at + 2 <= Len(bits))
  <2>1. v = Broken(s)
    BY <1>2, <1>3, <1>7, Zenon
  <2> QED BY <2>1 DEF ReadsLess, v, s
<1>8. CASE s.at + 1 <= Len(bits) /\ bits[s.at + 1] # 0 /\ s.at + 2 <= Len(bits)
  <2>1. s.at + 1 <= Len(out) /\ out[s.at + 1] # 0 /\ s.at + 2 <= Len(out)
        /\ out[s.at + 2] = bits[s.at + 2]
    BY <1>3, <1>4, <1>8
  <2>2. CASE bits[s.at + 2] = 0 /\ s.window # <<>>
    <3>1. v = ReadInside(s, bits, 2, s.window, w)
      BY <1>2, <1>3, <1>8, <2>2, Zenon
    <3>2. r = ReadInside(s, out, 2, s.window, w)
      BY <1>2, <1>3, <2>1, <2>2, Zenon
    <3>3. Meaningful(s.window, w) \in Nat
      <4>1. Known(window, w)
        BY <1>3, <2>2 DEF WindowOK, w
      <4> QED BY <1>1, <1>3, <4>1 DEF Known, Meaningful
    <3> DEFINE z == s.window
               two == 2
    <3>4. two \in Nat /\ w \in Int /\ Meaningful(z, w) \in Nat
      BY <1>1, <3>3
    <3> HIDE DEF z, two
    <3>5. ReadsLess(ReadInside(s, bits, two, z, w), ReadInside(s, out, two, z, w), s, bits)
      BY <1>3, <3>4, InsideLess
    <3>6. ReadsLess(v, r, s, bits)
      BY <3>1, <3>2, <3>5 DEF z, two
    <3> QED BY <3>6 DEF v, r, s
  <2>3. CASE ~(bits[s.at + 2] = 0 /\ s.window # <<>>)
             /\ bits[s.at + 2] = 1 /\ s.at + (2 + 2 * f) <= Len(bits)
    <3>1. s.at + (2 + 2 * f) <= Len(out)
      BY <1>1, <1>3, <1>4, <2>3
    <3>2. v = ReadInside(s, bits, 2 + 2 * f, Fresh(bits), w)
      BY <1>2, <1>3, <1>8, <2>3, Zenon
    <3>3. r = ReadInside(s, out, 2 + 2 * f, Fresh(out), w)
      BY <1>2, <1>3, <2>1, <2>3, <3>1, Zenon
    <3> DEFINE a == s.at + 2
               b == s.at + 2 + f
    <3>4. a \in Nat /\ b \in Nat /\ a + f <= Len(bits) /\ b + f <= Len(bits)
      BY <1>1, <1>3, <1>4, <2>3
    <3> HIDE DEF a, b
    <3>5. BitField(bits, a, f) = BitField(out, a, f) /\ BitField(bits, a, f) \in Nat
      BY <1>1, <3>4, FieldSame
    <3>6. BitField(bits, b, f) = BitField(out, b, f) /\ BitField(bits, b, f) \in Nat
      BY <1>1, <3>4, FieldSame
    <3> DEFINE lz == BitField(bits, a, f)
               length == BitField(bits, b, f) + 1
               z == << lz, w - lz - length >>
               k == 2 + 2 * f
    <3>7. Fresh(bits) = z
      BY DEF a, b
    <3>8. Fresh(out) = z
      BY <3>5, <3>6 DEF a, b
    <3>9. lz \in Nat /\ length \in Nat
      BY <3>5, <3>6
    <3> HIDE DEF lz, length
    <3>10. Meaningful(z, w) \in Nat
      <4>1. Meaningful(z, w) = w - lz - (w - lz - length)
        BY DEF Meaningful
      <4>2. w - lz - (w - lz - length) = length
        BY <1>1, <3>9
      <4> QED BY <3>9, <4>1, <4>2
    <3> HIDE DEF z
    <3>11. k \in Nat /\ w \in Int
      BY <1>1
    <3> HIDE DEF k
    <3>12. ReadsLess(ReadInside(s, bits, k, z, w), ReadInside(s, out, k, z, w), s, bits)
      BY <1>3, <3>10, <3>11, InsideLess
    <3> HIDE DEF Fresh
    <3>13. ReadsLess(v, r, s, bits)
      BY <3>2, <3>3, <3>7, <3>8, <3>12 DEF k
    <3> QED BY <3>13 DEF v, r, s
  <2>4. CASE ~(bits[s.at + 2] = 0 /\ s.window # <<>>)
             /\ ~(bits[s.at + 2] = 1 /\ s.at + (2 + 2 * f) <= Len(bits))
    <3>1. v = Broken(s)
      BY <1>2, <1>3, <1>8, <2>4, Zenon
    <3> QED BY <3>1 DEF ReadsLess, v, s
  <2> QED BY <2>2, <2>3, <2>4
<1> QED
  BY <1>5, <1>6, <1>7, <1>8

(* A flag that is set is not changed by setting it.                            *)
LEMMA FlagStays ==
  ASSUME NEW A, NEW B, NEW C, NEW D, NEW z \in [at : A, window : B, bad : C, out : D],
         NEW flag, z.bad = flag
  PROVE  [z EXCEPT !.bad = flag] = z
OBVIOUS

(* A reader of gorilla that failed stays as it is.                             *)
LEMMA BadStays ==
  ASSUME NEW A, NEW B, NEW C, NEW D, NEW z \in [at : A, window : B, bad : C, out : D],
         z.bad = TRUE
  PROVE  [z EXCEPT !.bad = TRUE] = z
BY FlagStays

(* A reader of gorilla that meets the end of the bits is not asked again    *)
(* whether they are there: what it failed at stays failed.                  *)
LEMMA GorillaEnds ==
  ASSUME NEW t \in Floats, NEW xs, Fits(xs, t), xs # <<>>, NEW f, WriterStates(f, xs, t),
         NEW out, Restores(out, f[Len(xs) - 1].bits),
         NEW bits \in Seq({0, 1}), Begins(bits, out), Len(bits) < Len(f[Len(xs) - 1].bits),
         NEW q, FromBytes(Tail(q)) = bits, q # <<>>, q[1] = Len(xs)
  PROVE  FromGorilla(q, t) = Fail
<1> DEFINE w == Width[t]
           m == q[1] - 1
           have == FromBytes(Tail(q))
           start == [at |-> w, window |-> <<>>, bad |-> FALSE, out |-> << BitField(have, 0, w) >>]
           body(g) == [i \in 0..m |-> IF i = 0 THEN start ELSE ReadXor(g[i - 1], have, t)]
           state == CHOOSE g : g = body(g)
           At(i) == ReaderAt(f, xs, i)
           Good == {i \in 1..m : ReadXor(At(i - 1), bits, t) = At(i)}
<1>0. FromGorilla(q, t) = IF q = <<>> THEN Fail ELSE IF q[1] = 0 THEN <<>>
                          ELSE IF Len(have) < w \/ state[m].bad THEN Fail ELSE state[m].out
  BY DEF FromGorilla
<1>1. xs \in Seq(Int) /\ Len(xs) \in Nat \ {0} /\ FitsIn(xs[1], w) /\ w \in Nat /\ xs[1] \in Int
  <2>1. 1 \in 1..Len(xs) /\ xs \in Seq(Int) /\ Len(xs) \in Nat \ {0}
    BY FloatsFit
  <2> QED BY <2>1, FloatsFit, CountIs DEF Numeric
<1>2. m = Len(xs) - 1 /\ m \in Nat /\ have = bits
  BY <1>1
<1> HIDE DEF m, have
<1>3. CASE Len(bits) < w
  <2> HIDE DEF state
  <2> QED BY <1>0, <1>1, <1>2, <1>3
<1>4. CASE ~(Len(bits) < w)
  <2>1. out \in Seq({0, 1}) /\ f[0] = WriterStart(xs[1], w)
        /\ \A i \in 0..m : Restores(out, f[i].bits) /\ f[i].bits \in Seq({0, 1})
                           /\ WindowOK(f[i].window, w)
    <3>1. out \in Seq({0, 1})
      BY DEF Restores
    <3>2. f[0] = WriterStart(xs[1], w)
      BY DEF WriterStates
    <3>3. \A i \in 0..m : Restores(out, f[i].bits)
      BY <1>2, EarlierRestored
    <3>4. \A i \in 0..m : f[i] \in WriterState(t)
      BY <1>2 DEF WriterStates
    <3>5. \A i \in 0..m : f[i].bits \in Seq({0, 1}) /\ WindowOK(f[i].window, w)
      BY <3>4 DEF WriterState
    <3> QED BY <3>1, <3>2, <3>3, <3>5
  <2>2. f[0].bits = Bits(xs[1], w) /\ f[0].window = <<>> /\ Len(f[0].bits) = w
    <3>1. f[0].bits = Bits(xs[1], w) /\ f[0].window = <<>>
      BY <2>1 DEF WriterStart
    <3> QED BY <1>1, <3>1, BitsOf
  <2>3. ASSUME NEW i \in 1..m
        PROVE  /\ ReadXor(At(i - 1), bits, t) = Broken(At(i - 1)) \/ i \in Good
               /\ i \in Good => Len(f[i].bits) <= Len(bits)
    <3>1. i - 1 \in 0..m /\ i \in 0..m /\ i \in 1..(Len(xs) - 1)
      BY <1>2
    <3> DEFINE p == Len(f[i - 1].bits)
               win == f[i - 1].window
               o == SubSeq(xs, 1, i - 1 + 1)
               s == Reader(p, win, o)
    <3>2. At(i - 1) = s
      BY DEF ReaderAt
    <3>3. p \in Nat /\ WindowOK(win, Width[t])
      BY <2>1, <3>1
    <3>4. ReadXor(At(i - 1), out, t) = At(i)
      BY <3>1, ReaderSteps
    <3> DEFINE b == At(i - 1)
               e == At(i)
               v == ReadXor(b, bits, t)
    <3> HIDE DEF p, win, o
    <3>5. ReadsLess(ReadXor(s, bits, t), ReadXor(s, out, t), s, bits)
      BY <2>1, <3>3, ReadLess
    <3> HIDE DEF s, At
    <3>6. ReadsLess(v, e, b, bits)
      BY <3>2, <3>4, <3>5
    <3>7. e.at = Len(f[i].bits) /\ e.bad = FALSE
      BY DEF ReaderAt, Reader, At
    <3>8. Broken(b).bad = TRUE
      <4>1. b = s
        BY <3>2
      <4>2. s = [at |-> p, window |-> win, bad |-> FALSE, out |-> o]
        BY DEF s, Reader
      <4> QED BY <4>1, <4>2 DEF Broken
    <3> HIDE DEF e, b, v
    <3>9. v = Broken(b) \/ (v = e /\ e.at <= Len(bits))
      BY <3>6 DEF ReadsLess
    <3>10. v = Broken(b) \/ v = e
      BY <3>9
    <3>11. v = e => Len(f[i].bits) <= Len(bits)
      BY <3>7, <3>8, <3>9
    <3> QED BY <3>10, <3>11 DEF v, e, b
  <2>4. m \in 1..m /\ m \notin Good
    <3>1. m # 0
      <4> SUFFICES ASSUME m = 0 PROVE FALSE
        OBVIOUS
      <4>1. Len(bits) < w
        BY <1>2, <2>2
      <4> QED BY <1>4, <4>1
    <3>2. m \in 1..m
      BY <1>2, <3>1
    <3>3. Len(f[m].bits) > Len(bits) /\ Len(f[m].bits) \in Nat /\ Len(bits) \in Nat
      <4>1. Len(bits) < Len(f[m].bits)
        BY <1>2
      <4>2. f[m].bits \in Seq({0, 1})
        BY <2>1, <3>2
      <4> QED BY <4>1, <4>2
    <3> HIDE DEF Good
    <3>4. m \in Good => Len(f[m].bits) <= Len(bits)
      BY <2>3, <3>2
    <3> QED BY <3>2, <3>3, <3>4
  <2> DEFINE Bad == (1..m) \ Good
  <2>5. PICK j \in Bad : \A k \in Bad : j <= k
    <3>1. Bad \subseteq Nat /\ Bad # {}
      <4> HIDE DEF Good
      <4>1. Bad \subseteq Nat
        BY <1>2
      <4>2. m \in Bad
        BY <2>4
      <4> HIDE DEF Bad
      <4> QED BY <4>1, <4>2
    <3> HIDE DEF Bad
    <3> QED BY <3>1, LeastNatural
  <2>6. j \in 1..m /\ j \notin Good /\ \A k \in 1..(j - 1) : k \in Good
    <3>1. j \in 1..m /\ j \notin Good
      OBVIOUS
    <3>2. ASSUME NEW k \in 1..(j - 1) PROVE k \in Good
      <4>1. k \in 1..m /\ ~(j <= k)
        BY <1>2, <3>1
      <4> HIDE DEF Good
      <4> QED BY <2>5, <4>1
    <3> QED BY <3>1, <3>2
  <2> DEFINE z == Broken(At(j - 1))
             r == [i \in 0..m |-> IF i < j THEN At(i) ELSE z]
  <2>7. z.bad = TRUE /\ ReadXor(z, bits, t) = z
    <3>1. At(j - 1) = [at |-> Len(f[j - 1].bits), window |-> f[j - 1].window, bad |-> FALSE,
                       out |-> SubSeq(xs, 1, j - 1 + 1)]
      BY DEF ReaderAt, Reader
    <3> DEFINE a1 == Len(f[j - 1].bits)
               a2 == f[j - 1].window
               a3 == SubSeq(xs, 1, j - 1 + 1)
               b == At(j - 1)
    <3>2. b = [at |-> a1, window |-> a2, bad |-> FALSE, out |-> a3]
      BY <3>1
    <3>5. z = [b EXCEPT !.bad = TRUE]
      BY DEF Broken
    <3> HIDE DEF a1, a2, a3, b, z
    <3>6. z = [at |-> a1, window |-> a2, bad |-> TRUE, out |-> a3]
      BY <3>2, <3>5
    <3>3. z.bad = TRUE
      BY <3>6
    <3>7. [z EXCEPT !.bad = TRUE] = z
      <4>1. z \in [at : {a1}, window : {a2}, bad : {TRUE}, out : {a3}]
        BY <3>6
      <4> QED BY <3>3, <4>1, BadStays
    <3>8. z.bad
      BY <3>3
    <3>4. ReadXor(z, bits, t) = [z EXCEPT !.bad = TRUE]
      BY <3>8, Zenon DEF ReadXor
    <3> QED BY <3>3, <3>4, <3>7
  <2>8. BitField(bits, 0, w) = xs[1]
    <3> DEFINE y == 0
    <3>1. y \in Nat /\ y + w = w
      BY <1>1
    <3>2. Holds(out, y, Bits(xs[1], w))
      <4>1. Restores(out, f[0].bits)
        BY <1>2, <2>1
      <4> QED BY <2>2, <4>1 DEF Restores, Holds
    <3>3. y + w <= Len(bits)
      BY <1>1, <1>4
    <3> HIDE DEF y
    <3>4. BitField(out, y, w) = xs[1]
      BY <1>1, <2>1, <3>1, <3>2, FieldRead
    <3>5. BitField(bits, y, w) = BitField(out, y, w)
      BY <1>1, <2>1, <3>1, <3>3, FieldSame
    <3> QED BY <3>4, <3>5 DEF y
  <2>9. r[0] = start
    <3>1. SubSeq(xs, 1, 1) = << xs[1] >>
      <4> DEFINE s == SubSeq(xs, 1, 1)
                 x == xs[1]
      <4>1. s \in Seq(Int) /\ Len(s) = 1 /\ s[1] = x
        BY <1>1
      <4>2. x \in Int
        BY <1>1
      <4> HIDE DEF s, x
      <4>3. s = << x >>
        BY <4>1, <4>2
      <4> QED BY <4>3 DEF s, x
    <3>2. r[0] = At(0)
      <4>1. 0 \in 0..m /\ 0 < j
        BY <1>2, <2>6
      <4> HIDE DEF At, z
      <4> QED BY <4>1
    <3>3. At(0) = Reader(Len(f[0].bits), f[0].window, SubSeq(xs, 1, 1))
      BY DEF ReaderAt
    <3>4. r[0] = Reader(w, <<>>, << xs[1] >>)
      BY <2>2, <3>1, <3>2, <3>3
    <3> HIDE DEF r
    <3> QED BY <1>2, <2>8, <3>4 DEF Reader
  <2> HIDE DEF start
  <2>10. ASSUME NEW i \in 1..m PROVE r[i] = ReadXor(r[i - 1], have, t)
    <3>1. i \in 0..m /\ i - 1 \in 0..m /\ j \in 1..m /\ i \in Nat /\ j \in Nat
      BY <1>2, <2>6
    <3>2. CASE i < j
      <4>1. i \in Good
        BY <2>6, <3>1, <3>2
      <4>2. ReadXor(At(i - 1), bits, t) = At(i)
        BY <4>1
      <4>3. i - 1 < j
        BY <3>1, <3>2
      <4>4. r[i] = At(i) /\ r[i - 1] = At(i - 1)
        <5> HIDE DEF At, z
        <5> QED BY <3>1, <3>2, <4>3
      <4> HIDE DEF r, At
      <4> QED BY <1>2, <4>2, <4>4
    <3>3. CASE i = j
      <4>1. ~(i < j) /\ i - 1 < j
        BY <3>1, <3>3
      <4>2. r[i] = z /\ r[i - 1] = At(i - 1)
        <5> HIDE DEF At, z
        <5> QED BY <3>1, <4>1
      <4>3. ReadXor(At(j - 1), bits, t) = Broken(At(j - 1))
        <5> HIDE DEF Good, At
        <5> QED BY <2>3, <2>6
      <4> HIDE DEF r, At
      <4> QED BY <1>2, <3>3, <4>2, <4>3 DEF z
    <3>4. CASE i > j
      <4>1. ~(i < j) /\ ~(i - 1 < j)
        BY <3>1, <3>4
      <4>2. r[i] = z /\ r[i - 1] = z
        <5> HIDE DEF At, z
        <5> QED BY <3>1, <4>1
      <4> HIDE DEF r, z
      <4> QED BY <1>2, <2>7, <4>2
    <3> QED BY <3>1, <3>2, <3>3, <3>4
  <2>11. r = body(r)
    <3>1. r = [i \in 0..m |-> r[i]]
      OBVIOUS
    <3>2. \A i \in 0..m : r[i] = IF i = 0 THEN start ELSE ReadXor(r[i - 1], have, t)
      <4> TAKE i \in 0..m
      <4>1. i = 0 \/ i \in 1..m
        BY <1>2
      <4> HIDE DEF r
      <4> QED BY <4>1, <1>2, <2>9, <2>10
    <3> HIDE DEF r
    <3> QED BY <3>1, <3>2
  <2>12. state = body(state)
    <3> HIDE DEF body
    <3> QED BY <2>11
  <2> HIDE DEF state
  <2>13. \A i \in 0..m : state[i] = r[i]
    <3> HIDE DEF r
    <3> DEFINE S == {i \in Nat : i <= m => state[i] = r[i]}
    <3>1. 0 \in S
      BY <2>12, <2>9, <1>2
    <3>2. ASSUME NEW k \in Nat \ {0}, k - 1 \in S PROVE k \in S
      <4> SUFFICES ASSUME k <= m PROVE state[k] = r[k]
        OBVIOUS
      <4>1. k \in 1..m /\ k \in 0..m /\ k # 0 /\ state[k - 1] = r[k - 1]
        BY <3>2, <1>2
      <4>2. state[k] = ReadXor(state[k - 1], have, t)
        BY <2>12, <4>1
      <4> QED BY <4>1, <4>2, <2>10
    <3>3. Nat \subseteq S
      <4> HIDE DEF S
      <4> QED BY <3>1, <3>2, SetInduction
    <3> QED BY <3>3, <1>2
  <2>14. state[m] = z
    <3>1. m \in 0..m /\ ~(m < j)
      BY <1>2, <2>6
    <3>2. r[m] = z
      <4> HIDE DEF z, At
      <4> QED BY <3>1
    <3> HIDE DEF r, z
    <3> QED BY <2>13, <3>1, <3>2
  <2>15. state[m].bad
    <3> HIDE DEF z
    <3> QED BY <2>7, <2>14
  <2> QED BY <1>0, <1>1, <2>15
<1> QED
  BY <1>3, <1>4

(* gorilla: the number of values is there, and then bits are missing.       *)
LEMMA GorillaCutShort ==
  ASSUME NEW t \in Floats, NEW xs, Fits(xs, t), NEW p, CutShort(p, ToGorilla(xs, t))
  PROVE  FromGorilla(p, t) = Fail
<1>1. p \in Seq(Int) /\ Len(p) \in Nat
  BY DEF CutShort
<1>2. CASE p = <<>>
  BY <1>2 DEF FromGorilla
<1>3. CASE p # <<>> /\ xs = <<>>
  <2> DEFINE s == << 0 >>
  <2>1. ToGorilla(xs, t) = s
    BY <1>3 DEF ToGorilla
  <2>2. Len(s) = 1
    OBVIOUS
  <2> HIDE DEF s
  <2>3. Len(p) < 1
    BY <2>1, <2>2 DEF CutShort
  <2> QED BY <1>1, <1>3, <2>3
<1>4. CASE p # <<>> /\ xs # <<>>
  <2>1. PICK f : WriterStates(f, xs, t)
                   /\ ToGorilla(xs, t) = << Len(xs) >> \o ToBytes(f[Len(xs) - 1].bits)
    BY <1>4, ToGorillaIs
  <2> DEFINE all == f[Len(xs) - 1].bits
             bytes == ToBytes(all)
             out == FromBytes(bytes)
             q == Tail(p)
             bits == FromBytes(q)
             n == Len(xs)
             h == << n >>
  <2>2. n \in Nat /\ n \in Int
    BY FloatsFit
  <2>3. all \in Seq({0, 1})
    <3>1. Len(xs) - 1 \in 0..(Len(xs) - 1)
      BY <1>4, FloatsFit
    <3> QED BY <2>1, <3>1 DEF WriterStates, WriterState
  <2>4. HeldIn(bytes, out, all)
    <3> HIDE DEF all
    <3> QED BY <2>3, BytesRestore
  <2>5. bytes \in Seq(Int) /\ Len(bytes) = CeilDiv(Len(all), ByteBits) /\ Restores(out, all)
    BY <2>4 DEF HeldIn
  <2>6. CutShort(p, h \o bytes)
    BY <2>1
  <2>7. h \in Seq(Int) /\ Len(h) = 1 /\ h[1] = n
    BY <2>2
  <2> HIDE DEF h, all, bytes
  <2>8. CutBehind(p, h, bytes)
    <3>1. Len(h) <= Len(p)
      BY <1>1, <1>4, <2>7
    <3> QED BY <2>5, <2>6, <2>7, <3>1, CutParts
  <2>9. p[1] = n /\ Len(p) < 1 + Len(bytes) /\ Len(bytes) \in Nat
    BY <2>5, <2>7, <2>8 DEF CutBehind
  <2>10. q \in Seq(Int) /\ Len(q) = Len(p) - 1 /\ \A i \in 1..Len(q) : q[i] = p[i + 1]
    BY <1>1, <1>4
  <2> HIDE DEF q
  <2>11. Len(q) < Len(bytes) /\ Len(q) \in Nat
    BY <1>1, <2>9, <2>10
  <2>12. Begins(q, bytes)
    <3>1. \A i \in 1..Len(p) : p[i] = (h \o bytes)[i]
      <4> DEFINE s == h \o bytes
      <4>1. CutShort(p, s)
        BY <2>6
      <4> HIDE DEF s
      <4>2. \A i \in 1..Len(p) : p[i] = s[i]
        BY <4>1 DEF CutShort
      <4> QED BY <4>2 DEF s
    <3>2. \A i \in 1..Len(bytes) : (h \o bytes)[Len(h) + i] = bytes[i]
      <4>1. h \in Seq(Int) /\ bytes \in Seq(Int)
        BY <2>5, <2>7
      <4> QED BY <4>1, ConcatElements
    <3>3. ASSUME NEW i \in 1..Len(q) PROVE bytes[i] = q[i]
      <4>1. i \in 1..Len(bytes) /\ i + 1 \in 1..Len(p) /\ Len(h) + i = i + 1
        BY <1>1, <2>7, <2>9, <2>10, <2>11
      <4> QED BY <2>10, <3>1, <3>2, <4>1
    <3> QED BY <2>11, <2>9, <3>3 DEF Begins
  <2>13. Begins(bits, out)
    BY <2>5, <2>10, <2>12, BitsBegin
  <2>14. bits \in Seq({0, 1}) /\ Len(bits) = Len(q) * ByteBits
    BY <2>10, BitsOfBytes
  <2>15. Len(bits) < Len(all)
    <3> DEFINE a == Len(all)
               k == Len(q)
    <3>1. a \in Nat /\ k \in Nat /\ k < CeilDiv(a, ByteBits)
      BY <2>3, <2>5, <2>11
    <3> HIDE DEF a, k
    <3>2. k * ByteBits < a
      BY <3>1, TooFewBits
    <3> QED BY <2>14, <3>2 DEF a, k
  <2>16. Restores(out, f[Len(xs) - 1].bits) /\ Len(bits) < Len(f[Len(xs) - 1].bits)
    BY <2>5, <2>15 DEF all
  <2>17. FromBytes(Tail(p)) = bits
    BY DEF q
  <2> HIDE DEF bits, out
  <2> QED BY <1>4, <2>1, <2>9, <2>13, <2>14, <2>16, <2>17, GorillaEnds
<1> QED
  BY <1>2, <1>3, <1>4

-----------------------------------------------------------------------------
(* Stages                                                                   *)

\* The types a leaf may have.
Types == Numeric \cup {"bytes"}

\* A stage as a schema may state it.
StageOK(stage) == stage.width \in Nat \cup {Fail}

\* The type after a stage.
After(stage, t) == IF stage.id \in TypeKeeping THEN t ELSE "bytes"

\* A stage that is undone.
Undone(stage, t, xs) ==
  /\ Fits(EncodeStage(stage, t, xs), After(stage, t))
  /\ DecodeStage(stage, t, EncodeStage(stage, t, xs)) = xs

(* Anything is bytes.                                                       *)
LEMMA BytesFit ==
  ASSUME NEW xs \in Seq(Int)
  PROVE  Fits(xs, "bytes")
BY DEF Fits

(* Fail is told from any data.                                              *)
LEMMA FailIsNoSequence ==
  ASSUME NEW xs \in Seq(Int)
  PROVE  xs # Fail
BY CodersAssumption

(* A stage that can be built for a type is undone, unless it fails.         *)
LEMMA StageRoundTrip ==
  ASSUME NEW stage, StageOK(stage), NEW t \in Types, Buildable(stage, t), NEW xs, Fits(xs, t),
         EncodeStage(stage, t, xs) # Fail
  PROVE  Undone(stage, t, xs)
<1> DEFINE id == stage.id
<1>0. Integral \subseteq Numeric
  BY DEF Numeric
<1>1. CASE id = "delta"
  <2>1. t \in Integral /\ After(stage, t) = t
    BY <1>1 DEF Buildable, TypeKeeping, ByteCoders, After
  <2>2. EncodeStage(stage, t, xs) = Deltas(xs, t)
    BY <1>1 DEF EncodeStage
  <2>3. DecodeStage(stage, t, Deltas(xs, t)) = RunningSums(Deltas(xs, t), t)
    BY <1>1 DEF DecodeStage
  <2>4. Fits(Deltas(xs, t), t) /\ RunningSums(Deltas(xs, t), t) = xs
    BY <1>0, <2>1, DeltasFit, DeltaRoundTrip
  <2> QED BY <2>1, <2>2, <2>3, <2>4 DEF Undone
<1>2. CASE id = "delta_of_delta"
  <2>1. t \in Integral /\ After(stage, t) = t
    BY <1>2 DEF Buildable, TypeKeeping, ByteCoders, After
  <2>2. EncodeStage(stage, t, xs) = DeltasOfDeltas(xs, t)
    BY <1>2 DEF EncodeStage
  <2>3. DecodeStage(stage, t, DeltasOfDeltas(xs, t)) = SumsOfSums(DeltasOfDeltas(xs, t), t)
    BY <1>2 DEF DecodeStage
  <2>4. Fits(DeltasOfDeltas(xs, t), t) /\ SumsOfSums(DeltasOfDeltas(xs, t), t) = xs
    BY <1>0, <2>1, DeltaOfDeltaRoundTrip
  <2> QED BY <2>1, <2>2, <2>3, <2>4 DEF Undone
<1>3. CASE id = "deltamin"
  <2>1. t \in Integral /\ After(stage, t) = t
    BY <1>3 DEF Buildable, TypeKeeping, ByteCoders, After
  <2>2. EncodeStage(stage, t, xs) = AboveMin(xs, t)
    BY <1>3 DEF EncodeStage
  <2>3. DecodeStage(stage, t, AboveMin(xs, t)) = MinAdded(AboveMin(xs, t), t)
    BY <1>3 DEF DecodeStage
  <2>4. Fits(AboveMin(xs, t), t) /\ MinAdded(AboveMin(xs, t), t) = xs
    BY <1>0, <2>1, DeltaMinRoundTrip
  <2> QED BY <2>1, <2>2, <2>3, <2>4 DEF Undone
<1>4. CASE id = "rle"
  <2>1. t \in Integral /\ After(stage, t) = t
    BY <1>4 DEF Buildable, TypeKeeping, ByteCoders, After
  <2>2. EncodeStage(stage, t, xs) = RunLengths(xs, t)
    BY <1>4 DEF EncodeStage
  <2>3. DecodeStage(stage, t, RunLengths(xs, t)) = RunsToValues(RunLengths(xs, t))
    BY <1>4 DEF DecodeStage
  <2>4. Fits(RunLengths(xs, t), t) /\ RunsToValues(RunLengths(xs, t)) = xs
    BY <2>1, RunsRoundTrip
  <2> QED BY <2>1, <2>2, <2>3, <2>4 DEF Undone
<1>5. CASE id = "leb128"
  <2>1. t \in Integral /\ After(stage, t) = "bytes"
    BY <1>5 DEF Buildable, TypeKeeping, ByteCoders, After
  <2>2. EncodeStage(stage, t, xs) = ToLeb(xs, t)
    BY <1>5 DEF EncodeStage
  <2>3. DecodeStage(stage, t, ToLeb(xs, t)) = FromLeb(ToLeb(xs, t), t)
    BY <1>5 DEF DecodeStage
  <2>4. ToLeb(xs, t) \in Seq(Int) /\ FromLeb(ToLeb(xs, t), t) = xs
    BY <2>1, LebRoundTrip
  <2> QED BY <2>1, <2>2, <2>3, <2>4, BytesFit DEF Undone
<1>6. CASE id = "bitpack_fixed"
  <2>1. t \in Integral /\ After(stage, t) = "bytes" /\ stage.width \in Nat
    BY <1>6 DEF Buildable, TypeKeeping, ByteCoders, After, StageOK
  <2> DEFINE w == stage.width
  <2>2. EncodeStage(stage, t, xs) = PackFixed(xs, w)
    BY <1>6 DEF EncodeStage
  <2>3. DecodeStage(stage, t, PackFixed(xs, w)) = UnpackFixed(PackFixed(xs, w), w, t)
    BY <1>6 DEF DecodeStage
  <2> HIDE DEF w
  <2>4. PackFixed(xs, w) \in Seq(Int) /\ UnpackFixed(PackFixed(xs, w), w, t) = xs
    BY <2>1, <2>2, PackFixedRoundTrip DEF w
  <2> QED BY <2>1, <2>2, <2>3, <2>4, BytesFit DEF Undone
<1>7. CASE id = "bitpack_auto"
  <2>1. t \in Integral /\ After(stage, t) = "bytes"
    BY <1>7 DEF Buildable, TypeKeeping, ByteCoders, After
  <2>2. EncodeStage(stage, t, xs) = PackAuto(xs)
    BY <1>7 DEF EncodeStage
  <2>3. DecodeStage(stage, t, PackAuto(xs)) = UnpackAuto(PackAuto(xs), t)
    BY <1>7 DEF DecodeStage
  <2>4. PackAuto(xs) \in Seq(Int) /\ UnpackAuto(PackAuto(xs), t) = xs
    BY <2>1, <2>2, PackAutoRoundTrip
  <2> QED BY <2>1, <2>2, <2>3, <2>4, BytesFit DEF Undone
<1>8. CASE id = "elias_fano"
  <2>1. t \in Sorted /\ After(stage, t) = "bytes"
    BY <1>8 DEF Buildable, TypeKeeping, ByteCoders, After
  <2>2. EncodeStage(stage, t, xs) = ToEliasFano(xs)
    BY <1>8 DEF EncodeStage
  <2>3. DecodeStage(stage, t, ToEliasFano(xs)) = FromEliasFano(ToEliasFano(xs), t)
    BY <1>8 DEF DecodeStage
  <2>4. ToEliasFano(xs) \in Seq(Int) /\ FromEliasFano(ToEliasFano(xs), t) = xs
    BY <2>1, <2>2, EliasFanoRoundTrip
  <2> QED BY <2>1, <2>2, <2>3, <2>4, BytesFit DEF Undone
<1>9. CASE id = "gorilla"
  <2>1. t \in Floats /\ After(stage, t) = "bytes"
    BY <1>9 DEF Buildable, TypeKeeping, ByteCoders, After
  <2>2. EncodeStage(stage, t, xs) = ToGorilla(xs, t)
    BY <1>9 DEF EncodeStage
  <2>3. DecodeStage(stage, t, ToGorilla(xs, t)) = FromGorilla(ToGorilla(xs, t), t)
    BY <1>9 DEF DecodeStage
  <2>4. ToGorilla(xs, t) \in Seq(Int) /\ FromGorilla(ToGorilla(xs, t), t) = xs
    BY <2>1, GorillaRoundTrip
  <2> QED BY <2>1, <2>2, <2>3, <2>4, BytesFit DEF Undone
<1>10. CASE id \in ByteCoders \cup {"pcodec"}
  <2>1. After(stage, t) = "bytes"
    BY <1>10 DEF TypeKeeping, After, ByteCoders
  <2>2. EncodeStage(stage, t, xs) = Framed(id, xs)
    BY <1>10 DEF EncodeStage, ByteCoders
  <2>3. DecodeStage(stage, t, Framed(id, xs)) = Unframed(id, Framed(id, xs))
    BY <1>10 DEF DecodeStage, ByteCoders
  <2>4. xs \in Seq(Int)
    BY DEF Fits
  <2> HIDE DEF id
  <2>5. Framed(id, xs) \in Seq(Int) /\ Unframed(id, Framed(id, xs)) = xs
    BY <1>10, <2>4, FrameRoundTrip
  <2> QED BY <2>1, <2>2, <2>3, <2>5, BytesFit DEF Undone
<1>11. \/ id \in {"delta", "delta_of_delta", "deltamin", "rle", "leb128", "bitpack_fixed",
                  "bitpack_auto", "elias_fano", "gorilla", "pcodec"}
       \/ id \in ByteCoders
  BY DEF Buildable, TypeKeeping, ByteCoders
<1> HIDE DEF id
<1> QED
  BY <1>1, <1>2, <1>3, <1>4, <1>5, <1>6, <1>7, <1>8, <1>9, <1>10, <1>11

(* What a stage reads of data that are cut off is cut off or refused.       *)
LEMMA StageCutShort ==
  ASSUME NEW stage, StageOK(stage), NEW t \in Types, Buildable(stage, t), NEW xs, Fits(xs, t),
         EncodeStage(stage, t, xs) # Fail, NEW p, CutShort(p, EncodeStage(stage, t, xs))
  PROVE  CutRead(DecodeStage(stage, t, p), xs)
<1> DEFINE id == stage.id
<1>0. Integral \subseteq Numeric
  BY DEF Numeric
<1>1. CASE id = "delta"
  <2>1. t \in Numeric
    BY <1>0, <1>1 DEF Buildable, TypeKeeping, ByteCoders
  <2>2. CutShort(p, Deltas(xs, t)) /\ DecodeStage(stage, t, p) = RunningSums(p, t)
    BY <1>1 DEF EncodeStage, DecodeStage
  <2>3. RunningSums(Deltas(xs, t), t) = xs
    BY <2>1, DeltaRoundTrip
  <2>4. CutShort(RunningSums(p, t), RunningSums(Deltas(xs, t), t))
    BY <2>1, <2>2, SumsCutShort
  <2> QED BY <2>2, <2>3, <2>4 DEF CutRead
<1>2. CASE id = "delta_of_delta"
  <2>1. t \in Numeric
    BY <1>0, <1>2 DEF Buildable, TypeKeeping, ByteCoders
  <2> DEFINE s == DeltasOfDeltas(xs, t)
  <2>2. CutShort(p, s) /\ DecodeStage(stage, t, p) = SumsOfSums(p, t)
    BY <1>2 DEF EncodeStage, DecodeStage
  <2>3. SumsOfSums(s, t) = xs
    BY <2>1, DeltaOfDeltaRoundTrip
  <2> HIDE DEF s
  <2>4. CutShort(RunningSums(p, t), RunningSums(s, t))
    BY <2>1, <2>2, SumsCutShort
  <2>5. CutShort(RunningSums(RunningSums(p, t), t), RunningSums(RunningSums(s, t), t))
    BY <2>1, <2>4, SumsCutShort
  <2>6. CutShort(SumsOfSums(p, t), SumsOfSums(s, t))
    BY <2>5 DEF SumsOfSums
  <2> QED BY <2>2, <2>3, <2>6 DEF CutRead
<1>3. CASE id = "deltamin"
  <2>1. t \in Numeric
    BY <1>0, <1>3 DEF Buildable, TypeKeeping, ByteCoders
  <2>2. CutShort(p, AboveMin(xs, t)) /\ DecodeStage(stage, t, p) = MinAdded(p, t)
    BY <1>3 DEF EncodeStage, DecodeStage
  <2>3. MinAdded(AboveMin(xs, t), t) = xs /\ xs \in Seq(Int)
    BY <2>1, DeltaMinRoundTrip DEF Fits
  <2>4. Len(AboveMin(xs, t)) >= 2
    BY <2>1, <2>2, <2>3, AboveMinLength
  <2>5. CutShort(MinAdded(p, t), MinAdded(AboveMin(xs, t), t))
    BY <2>1, <2>2, <2>4, MinCutShort
  <2> QED BY <2>2, <2>3, <2>5 DEF CutRead
<1>4. CASE id = "rle"
  <2>1. t \in Integral
    BY <1>4 DEF Buildable, TypeKeeping, ByteCoders
  <2>2. CutShort(p, RunLengths(xs, t)) /\ DecodeStage(stage, t, p) = RunsToValues(p)
    BY <1>4 DEF EncodeStage, DecodeStage
  <2> QED BY <2>1, <2>2, RunsCutShort
<1>5. CASE id = "leb128"
  <2>1. t \in Integral
    BY <1>5 DEF Buildable, TypeKeeping, ByteCoders
  <2> DEFINE s == ToLeb(xs, t)
  <2>2. CutShort(p, s) /\ DecodeStage(stage, t, p) = FromLeb(p, t)
    BY <1>5 DEF EncodeStage, DecodeStage
  <2>3. s \in Seq(Int) /\ FromLeb(s, t) = xs
    BY <2>1, LebRoundTrip
  <2>4. xs # Fail
    BY FailIsNoSequence DEF Fits
  <2> HIDE DEF s
  <2>5. CutRead(FromLeb(p, t), FromLeb(s, t))
    BY <2>1, <2>2, <2>3, <2>4, LebCutShort
  <2> QED BY <2>2, <2>3, <2>5
<1>6. CASE id = "bitpack_fixed"
  <2>1. t \in Integral /\ stage.width \in Nat
    BY <1>6 DEF Buildable, TypeKeeping, ByteCoders, StageOK
  <2> DEFINE w == stage.width
  <2>2. CutShort(p, PackFixed(xs, w)) /\ PackFixed(xs, w) # Fail
        /\ DecodeStage(stage, t, p) = UnpackFixed(p, w, t)
    BY <1>6 DEF EncodeStage, DecodeStage
  <2>3. w \in Nat
    BY <2>1
  <2> HIDE DEF w
  <2>4. UnpackFixed(p, w, t) = Fail
    BY <2>1, <2>2, <2>3, PackFixedCutShort
  <2> QED BY <2>2, <2>4 DEF CutRead
<1>7. CASE id = "bitpack_auto"
  <2>1. t \in Integral
    BY <1>7 DEF Buildable, TypeKeeping, ByteCoders
  <2>2. CutShort(p, PackAuto(xs)) /\ PackAuto(xs) # Fail
        /\ DecodeStage(stage, t, p) = UnpackAuto(p, t)
    BY <1>7 DEF EncodeStage, DecodeStage
  <2>3. UnpackAuto(p, t) = Fail
    BY <2>1, <2>2, PackAutoCutShort
  <2> QED BY <2>2, <2>3 DEF CutRead
<1>8. CASE id = "elias_fano"
  <2>1. t \in Sorted
    BY <1>8 DEF Buildable, TypeKeeping, ByteCoders
  <2>2. CutShort(p, ToEliasFano(xs)) /\ ToEliasFano(xs) # Fail
        /\ DecodeStage(stage, t, p) = FromEliasFano(p, t)
    BY <1>8 DEF EncodeStage, DecodeStage
  <2>3. FromEliasFano(p, t) = Fail
    BY <2>1, <2>2, EliasFanoCutShort
  <2> QED BY <2>2, <2>3 DEF CutRead
<1>9. CASE id = "gorilla"
  <2>1. t \in Floats
    BY <1>9 DEF Buildable, TypeKeeping, ByteCoders
  <2>2. CutShort(p, ToGorilla(xs, t)) /\ DecodeStage(stage, t, p) = FromGorilla(p, t)
    BY <1>9 DEF EncodeStage, DecodeStage
  <2>3. FromGorilla(p, t) = Fail
    BY <2>1, <2>2, GorillaCutShort
  <2> QED BY <2>2, <2>3 DEF CutRead
<1>10. CASE id \in ByteCoders \cup {"pcodec"}
  <2>1. CutShort(p, Framed(id, xs)) /\ DecodeStage(stage, t, p) = Unframed(id, p)
    BY <1>10 DEF EncodeStage, DecodeStage, ByteCoders
  <2>2. xs \in Seq(Int)
    BY DEF Fits
  <2> HIDE DEF id
  <2>3. Unframed(id, p) = Fail
    BY <1>10, <2>1, <2>2, FrameCutShort
  <2> QED BY <2>1, <2>3 DEF CutRead
<1>11. \/ id \in {"delta", "delta_of_delta", "deltamin", "rle", "leb128", "bitpack_fixed",
                  "bitpack_auto", "elias_fano", "gorilla", "pcodec"}
       \/ id \in ByteCoders
  BY DEF Buildable, TypeKeeping, ByteCoders
<1> HIDE DEF id
<1> QED
  BY <1>1, <1>2, <1>3, <1>4, <1>5, <1>6, <1>7, <1>8, <1>9, <1>10, <1>11

-----------------------------------------------------------------------------
(* Pipelines                                                                *)

\* The data after every stage, from the values on.
Staged(f, t, chain, xs) ==
  /\ f[0] = xs
  /\ \A i \in 1..Len(chain) : f[i] = Through(chain[i], TypeAt(t, chain, i), f[i - 1])

(* Encoding is the data after every stage.                                  *)
LEMMA EncodeIs ==
  ASSUME NEW t, NEW chain, Len(chain) \in Nat, NEW xs
  PROVE  \E f : Staged(f, t, chain, xs) /\ Encode(t, chain, xs) = f[Len(chain)]
<1> DEFINE n == Len(chain)
           Step(i, d) == Through(chain[i], TypeAt(t, chain, i), d)
           body(g) == [i \in 0..n |-> IF i = 0 THEN xs ELSE Step(i, g[i - 1])]
           state == CHOOSE g : g = body(g)
           upto(g, k) == /\ DOMAIN g = 0..k /\ g = [i \in DOMAIN g |-> g[i]] /\ g[0] = xs
                         /\ \A i \in 1..k : g[i] = Step(i, g[i - 1])
           S == {k \in Nat : \E g : upto(g, k)}
<1>1. 0 \in S
  <2> DEFINE g == [i \in 0..0 |-> xs]
  <2>1. upto(g, 0)
    OBVIOUS
  <2> HIDE DEF upto
  <2> QED BY <2>1
<1>2. ASSUME NEW k \in Nat \ {0}, k - 1 \in S PROVE k \in S
  <2> HIDE DEF Step
  <2>1. PICK g : upto(g, k - 1)
    <3> HIDE DEF upto
    <3> QED BY <1>2
  <2> DEFINE h == [i \in 0..k |-> IF i = k THEN Step(k, g[k - 1]) ELSE g[i]]
  <2>2. DOMAIN h = 0..k /\ h = [i \in DOMAIN h |-> h[i]]
    OBVIOUS
  <2>3. h[0] = xs
    BY <2>1
  <2>4. \A i \in 1..k : h[i] = Step(i, h[i - 1])
    <3> TAKE i \in 1..k
    <3>1. i \in 0..k /\ i - 1 \in 0..k /\ i - 1 # k
      OBVIOUS
    <3>2. h[i - 1] = g[i - 1]
      BY <3>1
    <3>3. CASE i = k
      BY <3>1, <3>2, <3>3
    <3>4. CASE i # k
      <4>1. i \in 1..(k - 1) /\ h[i] = g[i]
        BY <3>1, <3>4
      <4>2. g[i] = Step(i, g[i - 1])
        BY <2>1, <4>1
      <4> QED BY <3>2, <4>1, <4>2
    <3> QED BY <3>3, <3>4
  <2>5. upto(h, k)
    <3> HIDE DEF h
    <3> QED BY <2>2, <2>3, <2>4
  <2> HIDE DEF upto
  <2> QED BY <2>5
<1>3. n \in S
  <2>1. Nat \subseteq S
    <3> HIDE DEF S
    <3> QED BY <1>1, <1>2, SetInduction
  <2> HIDE DEF S
  <2> QED BY <2>1
<1>4. PICK f : upto(f, n)
  <2> HIDE DEF upto
  <2> QED BY <1>3
<1> HIDE DEF S
<1>5. f = body(f)
  <2> HIDE DEF Step
  <2>1. \A i \in 0..n : f[i] = IF i = 0 THEN xs ELSE Step(i, f[i - 1])
    BY <1>4
  <2>2. DOMAIN f = 0..n /\ f = [i \in DOMAIN f |-> f[i]]
    BY <1>4
  <2>3. f = [i \in 0..n |-> f[i]]
    <3> HIDE DEF upto
    <3> QED BY <2>2, Zenon
  <2> QED BY <2>1, <2>3
<1>6. state = body(state)
  <2> HIDE DEF body
  <2> QED BY <1>5
<1>7. Encode(t, chain, xs) = state[n]
  BY DEF Encode
<1> HIDE DEF state, Step
<1>8. \A i \in 0..n : state[i] = f[i]
  <2> DEFINE R == {i \in Nat : i <= n => state[i] = f[i]}
  <2>1. 0 \in R
    BY <1>6, <1>4
  <2>2. ASSUME NEW k \in Nat \ {0}, k - 1 \in R PROVE k \in R
    <3> SUFFICES ASSUME k <= n PROVE state[k] = f[k]
      OBVIOUS
    <3>1. k \in 1..n /\ state[k - 1] = f[k - 1]
      BY <2>2
    <3>2. state[k] = Step(k, state[k - 1])
      BY <1>6, <3>1
    <3> QED BY <3>1, <3>2, <1>4
  <2>3. Nat \subseteq R
    <3> HIDE DEF R
    <3> QED BY <2>1, <2>2, SetInduction
  <2> QED BY <2>3
<1>9. Staged(f, t, chain, xs)
  BY <1>4 DEF Staged, Step
<1>10. state[n] = f[n]
  BY <1>8
<1> QED
  BY <1>7, <1>9, <1>10

\* The data before every stage, from the bytes on.
Unstaged(g, t, others, bytes) ==
  /\ g[0] = bytes
  /\ \A k \in 1..Len(others) :
       g[k] = Back(others[Len(others) - k + 1], TypeAt(t, others, Len(others) - k + 1), g[k - 1])

(* Decoding is the data before every stage.                                 *)
LEMMA DecodeIs ==
  ASSUME NEW t, NEW others, Len(others) \in Nat, NEW bytes
  PROVE  \E g : Unstaged(g, t, others, bytes) /\ Decode(t, others, bytes) = g[Len(others)]
<1> DEFINE n == Len(others)
           Step(i, d) == Back(others[n - i + 1], TypeAt(t, others, n - i + 1), d)
           body(g) == [i \in 0..n |-> IF i = 0 THEN bytes ELSE Step(i, g[i - 1])]
           state == CHOOSE g : g = body(g)
           upto(g, k) == /\ DOMAIN g = 0..k /\ g = [i \in DOMAIN g |-> g[i]] /\ g[0] = bytes
                         /\ \A i \in 1..k : g[i] = Step(i, g[i - 1])
           S == {k \in Nat : \E g : upto(g, k)}
<1>1. 0 \in S
  <2> DEFINE g == [i \in 0..0 |-> bytes]
  <2>1. upto(g, 0)
    OBVIOUS
  <2> HIDE DEF upto
  <2> QED BY <2>1
<1>2. ASSUME NEW k \in Nat \ {0}, k - 1 \in S PROVE k \in S
  <2> HIDE DEF Step
  <2>1. PICK g : upto(g, k - 1)
    <3> HIDE DEF upto
    <3> QED BY <1>2
  <2> DEFINE h == [i \in 0..k |-> IF i = k THEN Step(k, g[k - 1]) ELSE g[i]]
  <2>2. DOMAIN h = 0..k /\ h = [i \in DOMAIN h |-> h[i]]
    OBVIOUS
  <2>3. h[0] = bytes
    BY <2>1
  <2>4. \A i \in 1..k : h[i] = Step(i, h[i - 1])
    <3> TAKE i \in 1..k
    <3>1. i \in 0..k /\ i - 1 \in 0..k /\ i - 1 # k
      OBVIOUS
    <3>2. h[i - 1] = g[i - 1]
      BY <3>1
    <3>3. CASE i = k
      BY <3>1, <3>2, <3>3
    <3>4. CASE i # k
      <4>1. i \in 1..(k - 1) /\ h[i] = g[i]
        BY <3>1, <3>4
      <4>2. g[i] = Step(i, g[i - 1])
        BY <2>1, <4>1
      <4> QED BY <3>2, <4>1, <4>2
    <3> QED BY <3>3, <3>4
  <2>5. upto(h, k)
    <3> HIDE DEF h
    <3> QED BY <2>2, <2>3, <2>4
  <2> HIDE DEF upto
  <2> QED BY <2>5
<1>3. n \in S
  <2>1. Nat \subseteq S
    <3> HIDE DEF S
    <3> QED BY <1>1, <1>2, SetInduction
  <2> HIDE DEF S
  <2> QED BY <2>1
<1>4. PICK f : upto(f, n)
  <2> HIDE DEF upto
  <2> QED BY <1>3
<1> HIDE DEF S
<1>5. f = body(f)
  <2> HIDE DEF Step
  <2>1. \A i \in 0..n : f[i] = IF i = 0 THEN bytes ELSE Step(i, f[i - 1])
    BY <1>4
  <2>2. DOMAIN f = 0..n /\ f = [i \in DOMAIN f |-> f[i]]
    BY <1>4
  <2>3. f = [i \in 0..n |-> f[i]]
    <3> HIDE DEF upto
    <3> QED BY <2>2, Zenon
  <2> QED BY <2>1, <2>3
<1>6. state = body(state)
  <2> HIDE DEF body
  <2> QED BY <1>5
<1>7. Decode(t, others, bytes) = state[n]
  BY DEF Decode
<1> HIDE DEF state, Step
<1>8. \A i \in 0..n : state[i] = f[i]
  <2> DEFINE R == {i \in Nat : i <= n => state[i] = f[i]}
  <2>1. 0 \in R
    BY <1>6, <1>4
  <2>2. ASSUME NEW k \in Nat \ {0}, k - 1 \in R PROVE k \in R
    <3> SUFFICES ASSUME k <= n PROVE state[k] = f[k]
      OBVIOUS
    <3>1. k \in 1..n /\ state[k - 1] = f[k - 1]
      BY <2>2
    <3>2. state[k] = Step(k, state[k - 1])
      BY <1>6, <3>1
    <3> QED BY <3>1, <3>2, <1>4
  <2>3. Nat \subseteq R
    <3> HIDE DEF R
    <3> QED BY <2>1, <2>2, SetInduction
  <2> QED BY <2>3
<1>9. Unstaged(f, t, others, bytes)
  BY <1>4 DEF Unstaged, Step
<1>10. state[n] = f[n]
  BY <1>8
<1> QED
  BY <1>7, <1>9, <1>10

(* The type is the one before as long as the stages keep it.                *)
LEMMA TypeAfter ==
  ASSUME NEW t \in Types, NEW chain, NEW i \in Nat \ {0}
  PROVE  /\ TypeAt(t, chain, 1) = t
         /\ TypeAt(t, chain, i) \in Types
         /\ TypeAt(t, chain, i + 1) = After(chain[i], TypeAt(t, chain, i))
<1> DEFINE K(j) == chain[j].id \in TypeKeeping
<1>1. TypeAt(t, chain, 1) = t
  BY DEF TypeAt
<1>2. TypeAt(t, chain, i) \in Types
  BY DEF TypeAt, Types
<1>3. TypeAt(t, chain, i) = IF \A j \in 1..(i - 1) : K(j) THEN t ELSE "bytes"
  BY DEF TypeAt
<1>4. TypeAt(t, chain, i + 1) = IF \A j \in 1..i : K(j) THEN t ELSE "bytes"
  <2>1. (i + 1) - 1 = i
    OBVIOUS
  <2> HIDE DEF K
  <2> QED BY <2>1 DEF TypeAt, K
<1>5. After(chain[i], TypeAt(t, chain, i)) = IF K(i) THEN TypeAt(t, chain, i) ELSE "bytes"
  BY DEF After
<1> HIDE DEF K
<1>6. (\A j \in 1..i : K(j)) <=> (K(i) /\ \A j \in 1..(i - 1) : K(j))
  <2>1. \A j \in 1..i : j = i \/ j \in 1..(i - 1)
    OBVIOUS
  <2>2. i \in 1..i /\ \A j \in 1..(i - 1) : j \in 1..i
    OBVIOUS
  <2> QED BY <2>1, <2>2
<1>7. TypeAt(t, chain, i + 1) = After(chain[i], TypeAt(t, chain, i))
  BY <1>3, <1>4, <1>5, <1>6
<1> QED
  BY <1>1, <1>2, <1>7

\* A pipeline that can be built, without the order of its blocks.
Runs(t, chain) ==
  /\ Len(chain) \in Nat
  /\ \A i \in 1..Len(chain) : StageOK(chain[i]) /\ Buildable(chain[i], TypeAt(t, chain, i))

(* If the last stage does not fail, no stage does, and each is undone.      *)
LEMMA EachUndone ==
  ASSUME NEW t \in Types, NEW chain, Runs(t, chain), NEW xs, Fits(xs, t),
         NEW f, Staged(f, t, chain, xs), f[Len(chain)] # Fail
  PROVE  /\ Fits(f[Len(chain)], OutputType(t, chain))
         /\ \A i \in 1..Len(chain) :
              /\ f[i] # Fail
              /\ f[i] = EncodeStage(chain[i], TypeAt(t, chain, i), f[i - 1])
              /\ DecodeStage(chain[i], TypeAt(t, chain, i), f[i]) = f[i - 1]
              /\ Fits(f[i - 1], TypeAt(t, chain, i))
<1> DEFINE n == Len(chain)
           Ty(i) == TypeAt(t, chain, i)
           Step(i) == EncodeStage(chain[i], Ty(i), f[i - 1])
<1>1. n \in Nat /\ \A i \in 1..n : StageOK(chain[i]) /\ Buildable(chain[i], Ty(i))
  BY DEF Runs
<1>2. f[0] = xs /\ \A i \in 1..n : f[i] = IF f[i - 1] = Fail THEN Fail ELSE Step(i)
  BY DEF Staged, Through
<1> HIDE DEF Step
<1>3. \A i \in 0..n : f[i] # Fail
  <2> DEFINE S == {k \in Nat : k <= n => f[n - k] # Fail}
  <2>1. 0 \in S
    BY <1>1
  <2>2. ASSUME NEW k \in Nat \ {0}, k - 1 \in S PROVE k \in S
    <3> SUFFICES ASSUME k <= n PROVE f[n - k] # Fail
      OBVIOUS
    <3> DEFINE i == n - (k - 1)
    <3>1. i \in 1..n /\ i - 1 = n - k /\ f[i] # Fail
      BY <1>1, <2>2
    <3> HIDE DEF i
    <3> QED BY <1>2, <3>1
  <2>3. Nat \subseteq S
    <3> HIDE DEF S
    <3> QED BY <2>1, <2>2, SetInduction
  <2>4. ASSUME NEW i \in 0..n PROVE f[i] # Fail
    <3>1. n - i \in Nat /\ n - i <= n /\ n - (n - i) = i
      BY <1>1
    <3> QED BY <2>3, <3>1
  <2> QED BY <2>4
<1>4. \A i \in 1..n : f[i] = Step(i) /\ f[i] # Fail
  <2> TAKE i \in 1..n
  <2>1. i - 1 \in 0..n /\ i \in 0..n
    BY <1>1
  <2> QED BY <2>1, <1>2, <1>3
<1>5. \A i \in 1..n : Fits(f[i - 1], Ty(i)) => Undone(chain[i], Ty(i), f[i - 1])
  <2> SUFFICES ASSUME NEW i \in 1..n, Fits(f[i - 1], Ty(i))
               PROVE  Undone(chain[i], Ty(i), f[i - 1])
    OBVIOUS
  <2>1. Step(i) # Fail
    BY <1>4
  <2>2. i \in Nat \ {0}
    BY <1>1
  <2>3. Ty(i) \in Types
    BY <2>2, TypeAfter
  <2> QED BY <1>1, <2>1, <2>3, StageRoundTrip DEF Step
<1>6. \A i \in 0..n : Fits(f[i], Ty(i + 1))
  <2> DEFINE S == {k \in Nat : k <= n => Fits(f[k], Ty(k + 1))}
  <2>1. 0 \in S
    <3>1. Ty(1) = t
      <4>1. 1 \in Nat \ {0}
        OBVIOUS
      <4> QED BY <4>1, TypeAfter
    <3>2. 0 + 1 = 1
      OBVIOUS
    <3> HIDE DEF Ty
    <3>3. Fits(f[0], Ty(0 + 1))
      BY <1>2, <3>1, <3>2
    <3> QED BY <3>3
  <2>2. ASSUME NEW k \in Nat \ {0}, k - 1 \in S PROVE k \in S
    <3> SUFFICES ASSUME k <= n PROVE Fits(f[k], Ty(k + 1))
      OBVIOUS
    <3>1. k \in 1..n /\ (k - 1) + 1 = k /\ k - 1 <= n
      BY <1>1
    <3>2. Ty(k + 1) = After(chain[k], Ty(k))
      BY TypeAfter
    <3> HIDE DEF Ty
    <3>3. Fits(f[k - 1], Ty(k))
      BY <2>2, <3>1
    <3>4. Undone(chain[k], Ty(k), f[k - 1])
      BY <1>5, <3>1, <3>3
    <3>5. f[k] = EncodeStage(chain[k], Ty(k), f[k - 1])
      BY <1>4, <3>1 DEF Step, Ty
    <3> QED BY <3>2, <3>4, <3>5 DEF Undone
  <2>3. Nat \subseteq S
    <3> HIDE DEF S
    <3> QED BY <2>1, <2>2, SetInduction
  <2> QED BY <2>3, <1>1
<1>7. ASSUME NEW i \in 1..n
      PROVE  /\ f[i] # Fail /\ f[i] = EncodeStage(chain[i], Ty(i), f[i - 1])
             /\ DecodeStage(chain[i], Ty(i), f[i]) = f[i - 1]
             /\ Fits(f[i - 1], Ty(i))
  <2>1. i - 1 \in 0..n /\ (i - 1) + 1 = i
    BY <1>1
  <2> HIDE DEF Ty
  <2>2. Fits(f[i - 1], Ty(i))
    BY <1>6, <2>1
  <2>3. Undone(chain[i], Ty(i), f[i - 1])
    BY <1>5, <2>2
  <2>4. f[i] # Fail /\ f[i] = EncodeStage(chain[i], Ty(i), f[i - 1])
    BY <1>4 DEF Step, Ty
  <2> QED BY <2>2, <2>3, <2>4 DEF Undone
<1>8. Fits(f[n], OutputType(t, chain))
  <2>1. n \in 0..n
    BY <1>1
  <2>2. Fits(f[n], Ty(n + 1))
    <3> HIDE DEF Ty
    <3> QED BY <1>6, <2>1
  <2> QED BY <2>2 DEF OutputType
<1> QED
  BY <1>7, <1>8

\* The pipeline that a reader builds: the same coders, and widths where they count.
SameCoders(chain, others) ==
  /\ Len(others) = Len(chain)
  /\ \A i \in 1..Len(chain) :
       /\ others[i].id = chain[i].id
       /\ chain[i].id = "bitpack_fixed" => others[i].width = chain[i].width

(* HEC0 keeps the names of the stages: they decode the same without the widths. *)
LEMMA SameDecoders ==
  ASSUME NEW chain, NEW others, SameCoders(chain, others), Len(chain) \in Nat,
         NEW i \in 1..Len(chain), NEW t, NEW u, NEW xs
  PROVE  /\ TypeAt(t, others, i) = TypeAt(t, chain, i)
         /\ DecodeStage(others[i], u, xs) = DecodeStage(chain[i], u, xs)
<1>1. \A j \in 1..(i - 1) : others[j].id = chain[j].id
  <2> TAKE j \in 1..(i - 1)
  <2>1. j \in 1..Len(chain)
    OBVIOUS
  <2> QED BY <2>1 DEF SameCoders
<1>2. TypeAt(t, others, i) = TypeAt(t, chain, i)
  BY <1>1 DEF TypeAt
<1>3. DecodeStage(others[i], u, xs) = DecodeStage(chain[i], u, xs)
  <2> DEFINE id == chain[i].id
  <2>1. others[i].id = id
    BY DEF SameCoders
  <2>2. CASE id = "bitpack_fixed"
    <3>1. others[i].width = chain[i].width
      BY <2>2 DEF SameCoders
    <3> QED BY <2>1, <2>2, <3>1 DEF DecodeStage
  <2>3. CASE id # "bitpack_fixed"
    BY <2>1, <2>3 DEF DecodeStage
  <2> QED BY <2>2, <2>3
<1> QED
  BY <1>2, <1>3

(* Whatever a pipeline encodes, it decodes.                                 *)
LEMMA PipelineRoundTrip ==
  ASSUME NEW t \in Types, NEW chain, Runs(t, chain), NEW xs, Fits(xs, t),
         Encode(t, chain, xs) # Fail, NEW others, SameCoders(chain, others)
  PROVE  /\ Fits(Encode(t, chain, xs), OutputType(t, chain))
         /\ Decode(t, others, Encode(t, chain, xs)) = xs
<1> DEFINE n == Len(chain)
           bytes == Encode(t, chain, xs)
<1>1. n \in Nat /\ Len(others) = n
  BY DEF Runs, SameCoders
<1>2. PICK f : Staged(f, t, chain, xs) /\ bytes = f[n]
  BY <1>1, EncodeIs
<1>3. PICK g : Unstaged(g, t, others, bytes) /\ Decode(t, others, bytes) = g[n]
  BY <1>1, DecodeIs
<1>4. Fits(f[n], OutputType(t, chain)) /\ f[0] = xs
      /\ \A i \in 1..n : f[i] # Fail
                         /\ DecodeStage(chain[i], TypeAt(t, chain, i), f[i]) = f[i - 1]
  BY <1>2, EachUndone DEF Staged
<1>5. /\ g[0] = bytes
      /\ \A k \in 1..n : g[k] = Back(others[n - k + 1], TypeAt(t, others, n - k + 1), g[k - 1])
  BY <1>1, <1>3 DEF Unstaged
<1> HIDE DEF bytes
<1> DEFINE S == {k \in Nat : k <= n => g[k] = f[n - k]}
<1>6. 0 \in S
  <2>1. n - 0 = n
    BY <1>1
  <2> QED BY <1>2, <1>5, <2>1
<1>7. ASSUME NEW k \in Nat \ {0}, k - 1 \in S PROVE k \in S
  <2> SUFFICES ASSUME k <= n PROVE g[k] = f[n - k]
    OBVIOUS
  <2> DEFINE i == n - k + 1
             u == TypeAt(t, others, i)
  <2>1. i \in 1..n /\ n - k = i - 1 /\ n - (k - 1) = i /\ k \in 1..n
    BY <1>1
  <2>2. g[k - 1] = f[i]
    BY <1>7, <2>1
  <2>3. g[k] = Back(others[i], u, f[i])
    BY <1>5, <2>1, <2>2
  <2> HIDE DEF i
  <2>4. u = TypeAt(t, chain, i)
    BY <1>1, <2>1, SameDecoders
  <2>5. f[i] # Fail /\ DecodeStage(chain[i], u, f[i]) = f[i - 1]
    BY <1>4, <2>1, <2>4
  <2> HIDE DEF u
  <2>6. DecodeStage(others[i], u, f[i]) = DecodeStage(chain[i], u, f[i])
    BY <1>1, <2>1, SameDecoders
  <2> QED BY <2>1, <2>3, <2>5, <2>6 DEF Back
<1>8. n \in S
  <2>1. Nat \subseteq S
    <3> HIDE DEF S
    <3> QED BY <1>6, <1>7, SetInduction
  <2> HIDE DEF S
  <2> QED BY <1>1, <2>1
<1>9. n - n = 0
  BY <1>1
<1> QED
  BY <1>2, <1>3, <1>4, <1>8, <1>9 DEF bytes

(* A pipeline refuses data that are cut off, or reads fewer values.         *)
LEMMA PipelineCutShort ==
  ASSUME NEW t \in Types, NEW chain, Runs(t, chain), NEW xs, Fits(xs, t),
         Encode(t, chain, xs) # Fail, NEW others, SameCoders(chain, others),
         NEW p, CutShort(p, Encode(t, chain, xs))
  PROVE  CutRead(Decode(t, others, p), xs)
<1> DEFINE n == Len(chain)
<1>1. n \in Nat /\ Len(others) = n
  BY DEF Runs, SameCoders
<1>2. PICK f : Staged(f, t, chain, xs) /\ Encode(t, chain, xs) = f[n]
  BY <1>1, EncodeIs
<1>3. PICK g : Unstaged(g, t, others, p) /\ Decode(t, others, p) = g[n]
  BY <1>1, DecodeIs
<1>4. /\ f[0] = xs
      /\ \A i \in 1..n : /\ f[i] # Fail
                         /\ f[i] = EncodeStage(chain[i], TypeAt(t, chain, i), f[i - 1])
                         /\ Fits(f[i - 1], TypeAt(t, chain, i))
  BY <1>2, EachUndone DEF Staged
<1>5. /\ g[0] = p
      /\ \A k \in 1..n : g[k] = Back(others[n - k + 1], TypeAt(t, others, n - k + 1), g[k - 1])
  BY <1>1, <1>3 DEF Unstaged
<1> DEFINE S == {k \in Nat : k <= n => CutRead(g[k], f[n - k])}
<1>6. 0 \in S
  <2>1. CutShort(p, f[n]) /\ n - 0 = n
    BY <1>1, <1>2
  <2> QED BY <2>1, <1>5 DEF CutRead
<1>7. ASSUME NEW k \in Nat \ {0}, k - 1 \in S PROVE k \in S
  <2> SUFFICES ASSUME k <= n PROVE CutRead(g[k], f[n - k])
    OBVIOUS
  <2> DEFINE i == n - k + 1
             u == TypeAt(t, chain, i)
             d == g[k - 1]
  <2>1. i \in 1..n /\ n - k = i - 1 /\ n - (k - 1) = i /\ k \in 1..n
    BY <1>1
  <2>2. CutRead(d, f[i])
    BY <1>7, <2>1
  <2>3. g[k] = Back(others[i], TypeAt(t, others, i), d)
    BY <1>5, <2>1
  <2> HIDE DEF i, d
  <2>4. TypeAt(t, others, i) = u
    BY <1>1, <2>1, SameDecoders
  <2>5. u \in Types
    <3>1. i \in Nat \ {0}
      BY <1>1, <2>1
    <3> QED BY <3>1, TypeAfter
  <2>6. Buildable(chain[i], u) /\ StageOK(chain[i])
    BY <2>1 DEF Runs
  <2>7. f[i] # Fail /\ f[i] = EncodeStage(chain[i], u, f[i - 1]) /\ Fits(f[i - 1], u)
    BY <1>4, <2>1
  <2> HIDE DEF u
  <2>8. CASE d = Fail
    BY <2>1, <2>3, <2>8 DEF Back, CutRead
  <2>9. CASE d # Fail
    <3>1. CutShort(d, f[i])
      BY <2>2, <2>9 DEF CutRead
    <3>2. CutRead(DecodeStage(chain[i], u, d), f[i - 1])
      BY <2>5, <2>6, <2>7, <3>1, StageCutShort
    <3>3. DecodeStage(others[i], u, d) = DecodeStage(chain[i], u, d)
      BY <1>1, <2>1, SameDecoders
    <3> QED BY <2>1, <2>3, <2>4, <2>9, <3>2, <3>3 DEF Back
  <2> QED BY <2>8, <2>9
<1>8. n \in S
  <2>1. Nat \subseteq S
    <3> HIDE DEF S
    <3> QED BY <1>6, <1>7, SetInduction
  <2> HIDE DEF S
  <2> QED BY <1>1, <2>1
<1>9. n - n = 0
  BY <1>1
<1> QED
  BY <1>3, <1>4, <1>8, <1>9

-----------------------------------------------------------------------------
(* HEC0                                                                     *)

\* The number n stands in front of the bytes.
CountAhead(tail, n) ==
  /\ tail \in Seq(Int) /\ LebLength(n) <= Len(tail)
  /\ \A i \in 1..LebLength(n) : tail[i] = LebBytes(n)[i]

(* The cells of a number are told from what follows them.                   *)
LEMMA CountIsFound ==
  ASSUME NEW n \in Words, NEW tail, CountAhead(tail, n)
  PROVE  /\ CountCells(tail) = LebLength(n) /\ LebLength(n) \in Nat \ {0}
         /\ SubSeq(tail, 1, LebLength(n)) = LebBytes(n) /\ LebNumber(LebBytes(n)) = n
         /\ Len(LebBytes(n)) = LebLength(n) /\ LebBytes(n) \in Seq(Int)
<1> DEFINE count == LebBytes(n)
           k == LebLength(n)
           ends == {i \in DOMAIN tail : tail[i] >= 0 /\ tail[i] < Group}
           first == CHOOSE i \in ends : \A j \in ends : i <= j
<1>1. LebCells(count, n, k) /\ k \in Nat \ {0}
  BY LebBytesAre
<1>2. /\ count \in Seq(Int) /\ Len(count) = k /\ count[k] \in 0..(Group - 1)
      /\ LebNumber(count) = n
      /\ \A i \in 1..(k - 1) : count[i] >= Group /\ i * (ByteBits - 1) < WordBits
  BY <1>1 DEF LebCells
<1>3. Group \in Nat /\ ByteBits - 1 \in Nat \ {0} /\ WordBits \in Nat \ {0}
  BY PlaceIs, CodersAssumption
<1>4. tail \in Seq(Int) /\ k <= Len(tail) /\ Len(tail) \in Nat
      /\ \A i \in 1..k : tail[i] = count[i]
  BY DEF CountAhead
<1> HIDE DEF count, k
<1>5. CountCells(tail) = IF ends = {} THEN 0
                         ELSE IF TooLong(SubSeq(tail, 1, first - 1)) THEN 0 ELSE first
  BY DEF CountCells
<1>6. k \in ends
  <2>1. k \in 1..k /\ k \in 1..Len(tail)
    BY <1>1, <1>4
  <2>2. tail[k] = count[k] /\ DOMAIN tail = 1..Len(tail)
    BY <1>4, <2>1
  <2> QED BY <1>2, <1>3, <2>1, <2>2
<1>7. \A j \in ends : k <= j
  <2> TAKE j \in ends
  <2>1. j \in 1..Len(tail) /\ tail[j] < Group
    BY <1>4
  <2>2. ASSUME j < k PROVE FALSE
    <3>1. j \in 1..(k - 1) /\ j \in 1..k
      BY <1>1, <2>1, <2>2
    <3>2. tail[j] = count[j] /\ count[j] >= Group /\ count[j] \in Int
      BY <1>2, <1>4, <3>1
    <3> QED BY <1>3, <2>1, <3>2
  <2> QED BY <1>1, <2>1, <2>2, <1>4
<1>8. first = k
  <2>1. ends \subseteq Int
    BY <1>1, <1>4
  <2> HIDE DEF ends
  <2>2. first \in ends /\ \A j \in ends : first <= j
    BY <1>6, <1>7
  <2> HIDE DEF first
  <2> QED BY <1>6, <1>7, <2>1, <2>2, <1>1
<1>9. ~TooLong(SubSeq(tail, 1, k - 1))
  <2> DEFINE s == SubSeq(tail, 1, k - 1)
             j == k - 1
             b == ByteBits - 1
  <2>1. Len(s) = k - 1
    BY <1>1, <1>4
  <2>2. CASE k = 1
    <3> HIDE DEF s
    <3>1. Len(s) = 0
      BY <2>1, <2>2
    <3>2. Len(s) * b = 0
      <4>1. b \in Int
        BY <1>3
      <4> HIDE DEF b
      <4> QED BY <3>1, <4>1
    <3>3. ~(Len(s) * b >= WordBits)
      <4> HIDE DEF b
      <4> QED BY <1>3, <3>2
    <3> QED BY <3>3 DEF TooLong, s
  <2>3. CASE k # 1
    <3>1. j \in 1..(k - 1) /\ Len(s) = j
      BY <1>1, <2>1, <2>3
    <3>2. j * b < WordBits
      BY <1>2, <3>1
    <3> DEFINE p == j * b
    <3>3. p \in Nat
      <4>1. j \in Nat /\ b \in Nat
        BY <1>3, <3>1
      <4> HIDE DEF j, b
      <4> QED BY <4>1
    <3> HIDE DEF p
    <3>4. ~(p >= WordBits)
      BY <1>3, <3>2, <3>3 DEF p
    <3> QED BY <3>1, <3>4 DEF TooLong, p
  <2> QED BY <2>2, <2>3
<1>10. CountCells(tail) = k
  <2> HIDE DEF ends
  <2>1. ends # {}
    BY <1>6
  <2> HIDE DEF first
  <2> QED BY <1>5, <1>8, <1>9, <2>1
<1>11. SubSeq(tail, 1, k) = count
  <2> DEFINE s == SubSeq(tail, 1, k)
  <2>1. s \in Seq(Int) /\ Len(s) = k /\ \A i \in 1..k : s[i] = tail[i]
    BY <1>1, <1>4
  <2> HIDE DEF s
  <2>2. \A i \in 1..Len(s) : s[i] = count[i]
    BY <1>4, <2>1
  <2>3. s = count
    BY <1>2, <2>1, <2>2, SameSeq
  <2> QED BY <2>3 DEF s
<1> QED
  BY <1>1, <1>2, <1>10, <1>11 DEF count, k

(* A number of values is found in front of what follows it.                 *)
LEMMA CountIsRead ==
  ASSUME NEW n \in Words, NEW body \in Seq(Int)
  PROVE  LET tail == LebBytes(n) \o body
             cells == CountCells(tail)
         IN /\ cells # 0
            /\ LebNumber(SubSeq(tail, 1, cells)) = n
            /\ SubSeq(tail, cells + 1, Len(tail)) = body
<1> DEFINE count == LebBytes(n)
           k == LebLength(n)
           T == Int
           tail == count \o body
           m == Len(body)
<1>1. LebCells(count, n, k) /\ k \in Nat \ {0}
  BY LebBytesAre
<1>2. count \in Seq(Int) /\ Len(count) = k
  BY <1>1 DEF LebCells
<1> HIDE DEF count, k
<1>3. /\ tail \in Seq(T) /\ m \in Nat /\ Len(tail) = k + m
      /\ \A i \in 1..k : tail[i] = count[i]
      /\ \A i \in 1..m : tail[k + i] = body[i]
  <2> HIDE DEF T
  <2>1. count \in Seq(T) /\ body \in Seq(T)
    BY <1>2 DEF T
  <2>2. m \in Nat
    BY <2>1
  <2>3. tail \in Seq(T) /\ Len(tail) = Len(count) + m
    BY <2>1, Joined
  <2>4. \A i \in 1..Len(count) : tail[i] = count[i]
    BY <2>1, ConcatElements
  <2>5. \A i \in 1..m : tail[Len(count) + i] = body[i]
    BY <2>1, ConcatElements
  <2> HIDE DEF tail
  <2> QED BY <1>2, <2>2, <2>3, <2>4, <2>5
<1> HIDE DEF m, tail
<1>4. CountAhead(tail, n)
  BY <1>1, <1>3 DEF CountAhead, count, k
<1>5. CountCells(tail) = k /\ SubSeq(tail, 1, k) = count /\ LebNumber(count) = n
  BY <1>4, CountIsFound DEF count, k
<1>6. SubSeq(tail, k + 1, Len(tail)) = body
  <2> DEFINE s == SubSeq(tail, k + 1, Len(tail))
  <2>1. s \in Seq(Int) /\ Len(s) = m /\ \A i \in 1..m : s[i] = tail[k + i]
    <3> DEFINE q == k + 1
               e == Len(tail)
    <3>1. e = k + m /\ q \in Nat \ {0} /\ e \in Nat /\ (e - q) + 1 = m /\ q <= e + 1
      BY <1>1, <1>3
    <3>2. \A i \in 1..m : k + i \in 1..e /\ q + i - 1 = k + i
      BY <1>1, <1>3
    <3> HIDE DEF q, e
    <3>3. Len(SubSeq(tail, q, e)) = m
      BY <3>1, <1>3 DEF e
    <3>4. \A i \in 1..m : SubSeq(tail, q, e)[i] = tail[q + i - 1]
      BY <3>1, <1>3 DEF e
    <3>5. SubSeq(tail, q, e) \in Seq(T)
      <4> HIDE DEF T
      <4> QED BY <3>1, <1>3 DEF e
    <3> QED BY <3>2, <3>3, <3>4, <3>5 DEF q, e
  <2> HIDE DEF s
  <2>2. \A i \in 1..Len(s) : s[i] = body[i]
    BY <1>3, <2>1
  <2>3. s = body
    BY <2>1, <2>2, SameSeq DEF m
  <2> QED BY <2>3 DEF s
<1>7. k # 0
  BY <1>1
<1> QED
  BY <1>5, <1>6, <1>7 DEF tail, count

(* A number that is cut off has no cells.                                   *)
LEMMA CountCutShort ==
  ASSUME NEW n \in Words, NEW p, CutShort(p, LebBytes(n))
  PROVE  CountCells(p) = 0
<1> DEFINE count == LebBytes(n)
           k == LebLength(n)
           ends == {i \in DOMAIN p : p[i] >= 0 /\ p[i] < Group}
<1>1. LebCells(count, n, k) /\ k \in Nat \ {0}
  BY LebBytesAre
<1>2. count \in Seq(Int) /\ Len(count) = k /\ \A i \in 1..(k - 1) : count[i] >= Group
  BY <1>1 DEF LebCells
<1>3. p \in Seq(Int) /\ Len(p) \in Nat /\ Len(p) < k /\ \A i \in 1..Len(p) : p[i] = count[i]
  BY <1>2 DEF CutShort
<1>4. Group \in Nat
  BY PlaceIs
<1> HIDE DEF count, k
<1>5. ASSUME NEW i \in DOMAIN p PROVE ~(p[i] < Group)
  <2>1. i \in 1..Len(p) /\ i \in 1..(k - 1)
    BY <1>1, <1>3
  <2>2. p[i] = count[i] /\ count[i] >= Group /\ p[i] \in Int
    BY <1>2, <1>3, <2>1
  <2> QED BY <1>4, <2>2
<1>6. ends = {}
  BY <1>5
<1> QED
  BY <1>6 DEF CountCells

\* A sequence of stages as a schema may state them.
Pipeline(chain) ==
  /\ Len(chain) \in Nat /\ DOMAIN chain = 1..Len(chain)
  /\ \A i \in 1..Len(chain) : StageOK(chain[i])

(* What can be built can be run.                                            *)
LEMMA BuildsRuns ==
  ASSUME NEW t, NEW chain, Pipeline(chain), Builds(t, chain)
  PROVE  Runs(t, chain)
<1>1. Len(chain) \in Nat /\ DOMAIN chain = 1..Len(chain)
  BY DEF Pipeline
<1>2. ASSUME NEW i \in 1..Len(chain)
      PROVE  StageOK(chain[i]) /\ Buildable(chain[i], TypeAt(t, chain, i))
  <2>2. StageOK(chain[i])
    BY DEF Pipeline
  <2>3. Buildable(chain[i], TypeAt(t, chain, i))
    BY <1>1 DEF Builds
  <2> QED BY <2>2, <2>3
<1> QED
  BY <1>1, <1>2 DEF Runs

(* A header without parameters names the same coders: one that needs its     *)
(* width is refused.                                                        *)
LEMMA BareIsSame ==
  ASSUME NEW t, NEW chain, Pipeline(chain), Builds(t, BareStages(chain))
  PROVE  SameCoders(chain, BareStages(chain))
<1> DEFINE bare == BareStages(chain)
           n == Len(chain)
<1>1. n \in Nat /\ DOMAIN chain = 1..n
  BY DEF Pipeline
<1>2. bare = [i \in 1..n |-> Stage(chain[i].id)]
  BY <1>1 DEF BareStages
<1>3. Len(bare) = n /\ DOMAIN bare = 1..n
  BY <1>1, <1>2
<1>4. ASSUME NEW i \in 1..n
      PROVE  /\ bare[i].id = chain[i].id
             /\ chain[i].id = "bitpack_fixed" => bare[i].width = chain[i].width
  <2>1. bare[i] = Stage(chain[i].id)
    BY <1>2
  <2>2. bare[i].id = chain[i].id /\ bare[i].width = Fail
    BY <2>1 DEF Stage
  <2>3. Buildable(bare[i], TypeAt(t, bare, i))
    BY <1>3 DEF Builds
  <2> HIDE DEF bare
  <2>4. bare[i].id # "bitpack_fixed"
    BY <2>2, <2>3 DEF Buildable, TypeKeeping, ByteCoders
  <2> QED BY <2>2, <2>4
<1> QED
  BY <1>3, <1>4 DEF SameCoders

(* A HEC0 buffer says all that is needed to read it.                        *)
LEMMA CompressRoundTrip ==
  ASSUME NEW t \in Types, NEW chain, Pipeline(chain), Builds(t, chain),
         NEW xs, Fits(xs, t), Len(xs) \in Words, Compress(t, chain, xs) # Fail
  PROVE  Decompress(Compress(t, chain, xs)) = xs
<1> DEFINE body == Encode(t, chain, xs)
           bare == BareStages(chain)
           tail == LebBytes(Len(xs)) \o body
           h == [type |-> t, stages |-> bare]
           whole == [header |-> << h >>, tail |-> tail]
           cells == CountCells(tail)
<1>1. /\ Compress(t, chain, xs) = whole /\ body # Fail /\ Builds(t, bare)
      /\ OutputType(t, chain) = "bytes"
  BY DEF Compress
<1>2. Runs(t, chain)
  BY BuildsRuns
<1>3. SameCoders(chain, bare)
  BY <1>1, BareIsSame
<1>4. Fits(body, OutputType(t, chain)) /\ Decode(t, bare, body) = xs
  <2> HIDE DEF bare
  <2> QED BY <1>1, <1>2, <1>3, PipelineRoundTrip
<1>5. body \in Seq(Int)
  BY <1>4 DEF Fits
<1> HIDE DEF body, bare
<1>6. cells # 0 /\ LebNumber(SubSeq(tail, 1, cells)) = Len(xs)
      /\ SubSeq(tail, cells + 1, Len(tail)) = body
  BY <1>5, CountIsRead
<1> HIDE DEF tail, cells
<1>7. /\ whole.header = << h >> /\ whole.header # <<>> /\ whole.tail = tail
      /\ whole.header[1] = h /\ h.type = t /\ h.stages = bare
  <2> HIDE DEF h
  <2>1. << h >> # <<>> /\ << h >>[1] = h
    OBVIOUS
  <2>2. whole.header = << h >> /\ whole.tail = tail
    OBVIOUS
  <2> QED BY <2>1, <2>2 DEF h
<1> HIDE DEF h, whole
<1>8. xs # Fail
  BY FailIsNoSequence DEF Fits
<1>9. RightCount(xs, Len(xs))
  BY DEF RightCount
<1>10. Decompress(whole)
         = IF whole.header = <<>> \/ cells = 0 THEN Fail
           ELSE IF ~Builds(t, bare) THEN Fail
           ELSE IF Decode(t, bare, SubSeq(tail, cells + 1, Len(tail))) = Fail THEN Fail
           ELSE IF ~RightCount(Decode(t, bare, SubSeq(tail, cells + 1, Len(tail))),
                               LebNumber(SubSeq(tail, 1, cells))) THEN Fail
           ELSE Decode(t, bare, SubSeq(tail, cells + 1, Len(tail)))
  BY <1>7, Zenon DEF Decompress, cells
<1>11. Decode(t, bare, SubSeq(tail, cells + 1, Len(tail))) = xs
  BY <1>4, <1>6
<1>12. Decompress(whole) = xs
  BY <1>1, <1>6, <1>7, <1>8, <1>9, <1>10, <1>11
<1> QED
  BY <1>1, <1>12

\* What is left of a HEC0 buffer: no header, or all of it and some of the rest.
HecCut(kept, whole) ==
  kept.header = <<>> \/ (kept.header = whole.header /\ CutShort(kept.tail, whole.tail))

(* A HEC0 buffer that is cut off is refused.                                *)
LEMMA CompressCutShort ==
  ASSUME NEW t \in Types, NEW chain, Pipeline(chain), Builds(t, chain),
         NEW xs, Fits(xs, t), Len(xs) \in Words, Compress(t, chain, xs) # Fail,
         NEW kept, HecCut(kept, Compress(t, chain, xs))
  PROVE  Decompress(kept) = Fail
<1> DEFINE body == Encode(t, chain, xs)
           bare == BareStages(chain)
           count == LebBytes(Len(xs))
           h == [type |-> t, stages |-> bare]
           p == kept.tail
           cells == CountCells(p)
           rest == SubSeq(p, cells + 1, Len(p))
           values == Decode(t, bare, rest)
<1>1. CASE kept.header = <<>>
  BY <1>1, Zenon DEF Decompress
<1>2. CASE kept.header # <<>>
  <2>1. /\ Compress(t, chain, xs) = [header |-> << h >>, tail |-> count \o body]
        /\ body # Fail /\ Builds(t, bare) /\ OutputType(t, chain) = "bytes"
    BY DEF Compress
  <2>2. Runs(t, chain)
    BY BuildsRuns
  <2>3. SameCoders(chain, bare)
    BY <2>1, BareIsSame
  <2>4. body \in Seq(Int)
    <3>1. Fits(body, OutputType(t, chain))
      <4> HIDE DEF bare
      <4> QED BY <2>1, <2>2, <2>3, PipelineRoundTrip
    <3> QED BY <3>1 DEF Fits
  <2>5. count \in Seq(Int)
    BY LebBytesAre DEF LebCells
  <2>6. kept.header = << h >> /\ CutShort(p, count \o body)
    <3> HIDE DEF h, count, body
    <3> QED BY <1>2, <2>1 DEF HecCut
  <2>7. kept.header[1].type = t /\ kept.header[1].stages = bare
    <3> HIDE DEF bare
    <3> QED BY <2>6
  <2>8. Decompress(kept)
          = IF kept.header = <<>> \/ cells = 0 THEN Fail
            ELSE IF ~Builds(t, bare) THEN Fail
            ELSE IF values = Fail THEN Fail
            ELSE IF ~RightCount(values, LebNumber(SubSeq(p, 1, cells))) THEN Fail
            ELSE values
    <3> HIDE DEF bare, h
    <3> QED BY <2>7, Zenon DEF Decompress
  <2> HIDE DEF count, h, p, body, bare
  <2>9. CASE Len(p) < Len(count)
    <3>1. CutShort(p, count)
      <4> DEFINE s == count \o body
      <4>1. CutShort(p, s)
        BY <2>6
      <4>2. \A i \in 1..Len(count) : s[i] = count[i]
        BY <2>4, <2>5, ConcatElements
      <4> HIDE DEF s
      <4>3. p \in Seq(Int) /\ Len(p) \in Nat /\ Len(count) \in Nat
            /\ \A i \in 1..Len(p) : p[i] = s[i]
        BY <2>5, <4>1 DEF CutShort
      <4>4. \A i \in 1..Len(p) : i \in 1..Len(count)
        BY <2>9, <4>3
      <4> QED BY <2>5, <2>9, <4>2, <4>3, <4>4 DEF CutShort
    <3>2. cells = 0
      BY <3>1, CountCutShort DEF count
    <3> HIDE DEF cells, values
    <3> QED BY <2>8, <3>2
  <2>10. CASE ~(Len(p) < Len(count))
    <3>1. CutBehind(p, count, body)
      <4>1. p \in Seq(Int) /\ Len(p) \in Nat /\ Len(count) \in Nat
        BY <2>5, <2>6 DEF CutShort
      <4>2. Len(count) <= Len(p)
        BY <2>10, <4>1
      <4> QED BY <2>4, <2>5, <2>6, <4>2, CutParts
    <3>2. LebLength(Len(xs)) = Len(count)
      BY LebBytesAre DEF LebCells, count
    <3>3. CountAhead(p, Len(xs))
      <4>1. p \in Seq(Int) /\ Len(p) \in Nat /\ Len(count) \in Nat
        BY <2>5, <2>6 DEF CutShort
      <4> QED BY <2>10, <3>1, <3>2, <4>1 DEF CountAhead, CutBehind, count
    <3>4. cells = Len(count) /\ SubSeq(p, 1, cells) = count /\ LebNumber(count) = Len(xs)
      BY <3>2, <3>3, CountIsFound DEF count
    <3>5. CutShort(rest, body)
      BY <3>1, <3>4 DEF CutBehind
    <3>6. CutRead(values, xs)
      <4> HIDE DEF rest
      <4> QED BY <2>1, <2>2, <2>3, <3>5, PipelineCutShort DEF body
    <3>7. values = Fail \/ ~RightCount(values, LebNumber(SubSeq(p, 1, cells)))
      <4>1. LebNumber(SubSeq(p, 1, cells)) = Len(xs)
        BY <3>4
      <4> HIDE DEF cells, values
      <4> QED BY <3>6, <4>1 DEF CutRead, CutShort, RightCount
    <3> HIDE DEF cells, values
    <3> QED BY <2>8, <3>7
  <2> QED BY <2>9, <2>10
<1> QED
  BY <1>1, <1>2

-----------------------------------------------------------------------------
(* The pipelines that the program chooses                                   *)

\* A sequence, whatever its elements are.
Counted(ids) == \E n \in Nat : DOMAIN ids = 1..n

(* Named coders are a pipeline.                                             *)
LEMMA StagesAre ==
  ASSUME NEW ids, Counted(ids)
  PROVE  Pipeline(Stages(ids))
<1> DEFINE p == Stages(ids)
<1>1. PICK n \in Nat : DOMAIN ids = 1..n
  BY DEF Counted
<1>2. p = [i \in 1..n |-> Stage(ids[i])]
  BY <1>1 DEF Stages
<1>3. Len(p) = n /\ DOMAIN p = 1..n
  BY <1>2
<1>4. \A i \in 1..n : StageOK(p[i])
  BY <1>2 DEF Stage, StageOK
<1> HIDE DEF p
<1> QED
  BY <1>3, <1>4 DEF Pipeline, p

(* The defaults and the typed codecs are pipelines.                         *)
LEMMA DefaultsAre ==
  ASSUME NEW t \in Types, NEW role
  PROVE  /\ Pipeline(CodecDefault(t)) /\ Pipeline(SchemaDefault(role, t))
         /\ \A p \in TypedCodecs(t) : Pipeline(p)
<1> DEFINE Named == {<<"leb128", "zstd">>, <<"delta", "leb128", "zstd">>, <<"gorilla", "zstd">>,
                     <<"zstd">>, <<"pcodec">>, <<"delta_of_delta", "leb128", "zstd">>,
                     <<"bitpack_auto", "zstd">>, <<"elias_fano">>}
<1>1. \A ids \in Named : Counted(ids)
  <2>1. /\ Counted(<<"leb128", "zstd">>) /\ Counted(<<"delta", "leb128", "zstd">>)
        /\ Counted(<<"gorilla", "zstd">>) /\ Counted(<<"zstd">>) /\ Counted(<<"pcodec">>)
        /\ Counted(<<"delta_of_delta", "leb128", "zstd">>)
        /\ Counted(<<"bitpack_auto", "zstd">>) /\ Counted(<<"elias_fano">>)
    BY DEF Counted
  <2> QED BY <2>1
<1>2. \A ids \in Named : Pipeline(Stages(ids))
  BY <1>1, StagesAre
<1>3. \E ids \in Named : CodecDefault(t) = Stages(ids)
  BY DEF CodecDefault, Types, Numeric
<1>4. \E ids \in Named : SchemaDefault(role, t) = Stages(ids)
  BY DEF SchemaDefault
<1>5. \A p \in TypedCodecs(t) : \E ids \in Named : p = Stages(ids)
  BY DEF TypedCodecs
<1> HIDE DEF Named
<1> QED
  BY <1>2, <1>3, <1>4, <1>5

(* What the optimizer tries is a pipeline.                                  *)
LEMMA CandidatesAre ==
  ASSUME NEW t \in Types, NEW role, NEW xs
  PROVE  \A ids \in Candidates(role, t, xs) : Counted(ids)
<1>1. /\ Counted(Leb) /\ Counted(DeltaLeb) /\ Counted(MinPacked) /\ Counted(RunsPacked)
      /\ Counted(Packed) /\ Counted(Pco)
  BY DEF Leb, DeltaLeb, MinPacked, RunsPacked, Packed, Pco, Counted
<1>2. /\ Counted(<<"zstd">>) /\ Counted(<<"elias_fano", "zstd">>)
      /\ Counted(<<"gorilla", "zstd">>) /\ Counted(<<"rle", "leb128", "zstd">>)
      /\ Counted(<<"delta_of_delta", "leb128", "zstd">>)
  BY DEF Counted
<1>3. \/ t \in {"i8", "i16", "i32", "i64", "u8", "u16", "u32", "u64", "bytes"}
      \/ t \in Floats
  BY EncodingAssumption DEF Types, Numeric, Integral
<1>4. \A ids \in DataCandidates(t, xs) : Counted(ids)
  BY <1>1, <1>2, <1>3 DEF DataCandidates
<1> QED
  BY <1>1, <1>2, <1>4 DEF Candidates

(* What the optimizer picks can be built.                                   *)
LEMMA FittingAre ==
  ASSUME NEW t \in Types, NEW role, NEW xs
  PROVE  \A p \in Fitting(role, t, xs) : Pipeline(p) /\ Builds(t, p)
BY CandidatesAre, StagesAre DEF Fitting

-----------------------------------------------------------------------------
(* One leaf, through a pipeline and back                                    *)

\* What holds on the way: the pipeline is one that can be built, and what is
\* kept of a column that was stored is what its encoding gave.
RoundTripInv ==
  /\ leaf \in Leaves
  /\ phase \in {"build", "built", "stored", "read"} => Pipeline(stages)
  /\ phase \in {"built", "stored", "read"} => Builds(Type, stages)
  /\ phase \in {"stored", "read"} => /\ column \in Values[leaf]
                                     /\ Stored(column) # Fail
                                     /\ ~cut => buffer = Stored(column)
  /\ RoundTrip

(* What EncodingAssumption says of a leaf.                                  *)
LEMMA LeavesAre ==
  leaf \in Leaves => /\ Type \in Types
                     /\ \A xs \in Values[leaf] : Fits(xs, Type) /\ Len(xs) \in Words
                     /\ \A p \in Stated[Type] : Pipeline(p)
<1> SUFFICES ASSUME leaf \in Leaves
             PROVE  /\ Type \in Types
                    /\ \A xs \in Values[leaf] : Fits(xs, Type) /\ Len(xs) \in Words
                    /\ \A p \in Stated[Type] : Pipeline(p)
  OBVIOUS
<1> DEFINE t == Type
<1>1. /\ t \in Integral \cup Floats \cup {"bytes"}
      /\ \A xs \in Values[leaf] :
           /\ xs \in Seq(Int) /\ Len(xs) < Pow(WordBits)
           /\ t # "bytes" => \A i \in DOMAIN xs : InRange(xs[i], t)
      /\ Stated[t] \subseteq Seq([id : STRING, width : Nat \cup {Fail}])
  BY EncodingAssumption DEF Type
<1> HIDE DEF t
<1>2. t \in Types
  BY <1>1 DEF Types, Numeric
<1>3. ASSUME NEW xs \in Values[leaf] PROVE Fits(xs, t) /\ Len(xs) \in Words
  <2>1. xs \in Seq(Int) /\ Len(xs) \in Nat /\ DOMAIN xs = 1..Len(xs)
        /\ \A i \in 1..Len(xs) : xs[i] \in Int
    BY <1>1
  <2>2. ASSUME t # "bytes", NEW i \in 1..Len(xs) PROVE Within(xs[i], t)
    <3>1. t \in Numeric
      BY <1>2, <2>2 DEF Types
    <3>2. InRange(xs[i], t)
      BY <1>1, <2>1, <2>2
    <3> QED BY <2>1, <3>1, <3>2, InRangeIs
  <2>3. Fits(xs, t)
    BY <2>1, <2>2 DEF Fits
  <2>4. Pow(WordBits) \in Nat
    BY PowIs, CodersAssumption
  <2>5. Len(xs) \in Words
    BY <1>1, <2>1, <2>4 DEF Words
  <2> QED BY <2>3, <2>5
<1>4. ASSUME NEW p \in Stated[t] PROVE Pipeline(p)
  <2>1. p \in Seq([id : STRING, width : Nat \cup {Fail}])
    BY <1>1
  <2> DEFINE S == [id : STRING, width : Nat \cup {Fail}]
  <2>2. \A s \in S : StageOK(s)
    BY DEF StageOK
  <2>3. p \in Seq(S)
    BY <2>1
  <2> HIDE DEF S
  <2>4. Len(p) \in Nat /\ DOMAIN p = 1..Len(p) /\ \A i \in 1..Len(p) : p[i] \in S
    BY <2>3
  <2> QED BY <2>2, <2>4 DEF Pipeline
<1> QED
  BY <1>2, <1>3, <1>4 DEF t

\* What reading gives.
Found == IF container = "hec0" THEN Decompress(buffer) ELSE Decode(Type, stages, buffer.tail)

(* What was stored is found, in any container, if it was not cut off.       *)
LEMMA StoredIsFound ==
  /\ leaf \in Leaves /\ Pipeline(stages) /\ Builds(Type, stages)
  /\ column \in Values[leaf] /\ Stored(column) # Fail /\ buffer = Stored(column)
  => Found = column
<1> SUFFICES ASSUME leaf \in Leaves, Pipeline(stages), Builds(Type, stages),
                    column \in Values[leaf], Stored(column) # Fail, buffer = Stored(column)
             PROVE  Found = column
  OBVIOUS
<1> DEFINE t == Type
           bytes == Encode(t, stages, column)
<1>1. t \in Types /\ Fits(column, t) /\ Len(column) \in Words
  BY LeavesAre
<1> HIDE DEF t
<1>2. CASE container = "hec0"
  <2>1. buffer = Compress(t, stages, column) /\ Compress(t, stages, column) # Fail
    BY <1>2 DEF Stored, t
  <2>2. Decompress(Compress(t, stages, column)) = column
    BY <1>1, <2>1, CompressRoundTrip DEF t
  <2> QED BY <1>2, <2>1, <2>2 DEF Found
<1>3. CASE container # "hec0"
  <2>1. bytes # Fail /\ buffer = [header |-> <<>>, tail |-> bytes]
    BY <1>3 DEF Stored, t
  <2>2. Runs(t, stages)
    BY BuildsRuns DEF t
  <2>3. SameCoders(stages, stages)
    BY DEF SameCoders
  <2>4. Decode(t, stages, bytes) = column
    BY <1>1, <2>1, <2>2, <2>3, PipelineRoundTrip
  <2> HIDE DEF bytes
  <2>5. buffer.tail = bytes
    BY <2>1
  <2> QED BY <1>3, <2>4, <2>5 DEF Found, t
<1> QED
  BY <1>2, <1>3

(* Inductive: one step per action.                                          *)
LEMMA RoundTripStep == RoundTripInv /\ [Next]_vars => RoundTripInv'
<1> SUFFICES ASSUME RoundTripInv, [Next]_vars PROVE RoundTripInv'
  OBVIOUS
<1> USE DEF RoundTripInv
<1>0. Type \in Types /\ \A p \in Stated[Type] : Pipeline(p)
  BY LeavesAre
<1>1. ASSUME NEW where, NEW from, NEW p, Pipeline(p), Choose(where, from, p)
      PROVE  RoundTripInv'
  <2>1. phase' = "build" /\ stages' = p /\ leaf' = leaf
    BY <1>1 DEF Choose
  <2>2. Pipeline(stages)'
    BY <1>1, <2>1 DEF Pipeline, StageOK
  <2> QED BY <2>1, <2>2 DEF RoundTrip
<1>2. CASE ChooseStated
  BY <1>0, <1>1, <1>2 DEF ChooseStated
<1>3. CASE ChooseDefault
  BY <1>0, <1>1, <1>3, DefaultsAre DEF ChooseDefault
<1>4. CASE ChooseTyped
  BY <1>0, <1>1, <1>4, DefaultsAre DEF ChooseTyped
<1>5. CASE Optimize
  <2>1. PICK sample \in Values[leaf] :
          \/ \E p \in Fitting(Role, Type, sample) : Choose("he", "optimizer", p)
          \/ phase' = "refused" /\ UNCHANGED leaf
    BY <1>5, Zenon DEF Optimize
  <2>2. CASE \E p \in Fitting(Role, Type, sample) : Choose("he", "optimizer", p)
    BY <1>0, <1>1, <2>2, FittingAre
  <2>3. CASE phase' = "refused" /\ UNCHANGED leaf
    BY <2>3 DEF RoundTrip
  <2> QED BY <2>1, <2>2, <2>3
<1>6. CASE Build
  <2>1. phase = "build" /\ UNCHANGED << leaf, stages >> /\ phase' \in {"built", "refused"}
        /\ (phase' = "built" => Builds(Type, stages))
    BY <1>6 DEF Build
  <2>2. Pipeline(stages)' /\ Type' = Type
    BY <2>1 DEF Type
  <2>3. phase' = "built" => Builds(Type, stages)'
    BY <2>1 DEF Type
  <2> QED BY <2>1, <2>2, <2>3 DEF RoundTrip
<1>7. CASE Store
  <2>1. PICK xs \in Values[leaf] : \E stored \in {Stored(xs)} :
          /\ column' = xs
          /\ IF stored = Fail THEN phase' = "rejected" /\ UNCHANGED buffer
             ELSE phase' = "stored" /\ buffer' = stored
    BY <1>7 DEF Store
  <2>2. /\ column' = xs
        /\ IF Stored(xs) = Fail THEN phase' = "rejected" /\ UNCHANGED buffer
           ELSE phase' = "stored" /\ buffer' = Stored(xs)
    BY <2>1
  <2>3. phase = "built" /\ UNCHANGED << leaf, stages, container, cut >>
    BY <1>7 DEF Store
  <2>4. CASE Stored(xs) = Fail
    BY <2>2, <2>3, <2>4 DEF RoundTrip
  <2>5. CASE Stored(xs) # Fail
    <3>1. phase' = "stored" /\ buffer' = Stored(xs) /\ column' = xs
      BY <2>2, <2>5
    <3>2. Stored(column)' = Stored(xs)
      BY <2>3, <3>1 DEF Stored, Type
    <3>3. Pipeline(stages)' /\ Builds(Type, stages)'
      BY <2>3 DEF Type
    <3> QED BY <2>1, <2>3, <2>5, <3>1, <3>2, <3>3 DEF RoundTrip
  <2> QED BY <2>4, <2>5
<1>8. CASE CutOff
  <2>1. phase = "stored" /\ cut' = TRUE
        /\ UNCHANGED << phase, leaf, origin, stages, container, column, result >>
    BY <1>8 DEF CutOff
  <2>2. Stored(column)' = Stored(column) /\ Pipeline(stages)' /\ Builds(Type, stages)'
    BY <2>1 DEF Stored, Type
  <2> QED BY <2>1, <2>2 DEF RoundTrip
<1>9. CASE Read
  <2>1. phase = "stored" /\ phase' = "read" /\ result' = Found
        /\ UNCHANGED << leaf, origin, stages, container, column, buffer, cut >>
    BY <1>9 DEF Read, Found
  <2>2. Stored(column)' = Stored(column) /\ Pipeline(stages)' /\ Builds(Type, stages)'
    BY <2>1 DEF Stored, Type
  <2>3. ~cut => Found = column
    BY <2>1, StoredIsFound
  <2> QED BY <2>1, <2>2, <2>3 DEF RoundTrip
<1>10. CASE UNCHANGED vars
  <2>1. UNCHANGED << phase, leaf, origin, stages, container, column, buffer, cut, result >>
    BY <1>10 DEF vars
  <2>2. Stored(column)' = Stored(column) /\ Type' = Type
    BY <2>1 DEF Stored, Type
  <2>3. Pipeline(stages)' = Pipeline(stages) /\ Builds(Type, stages)' = Builds(Type, stages)
    BY <2>1, <2>2
  <2> QED BY <2>1, <2>2, <2>3 DEF RoundTrip
<1> QED
  BY <1>2, <1>3, <1>4, <1>5, <1>6, <1>7, <1>8, <1>9, <1>10 DEF Next

(* Whatever any pipeline accepts it gives back.                             *)
THEOREM EncodingRoundTrips == Spec => []RoundTrip
<1>1. Init => RoundTripInv
  BY DEF Init, RoundTripInv, RoundTrip
<1>2. RoundTripInv /\ [Next]_vars => RoundTripInv'
  BY RoundTripStep
<1>3. RoundTripInv => RoundTrip
  BY DEF RoundTripInv
<1> QED
  BY <1>1, <1>2, <1>3, PTL DEF Spec

\* What a buffer of HEC0 is made of.
Buffer(whole) ==
  \E header, tail : whole = [header |-> header, tail |-> tail] /\ tail \in Seq(Int)

(* The parts of a HEC0 buffer.                                              *)
LEMMA CompressedParts ==
  ASSUME NEW t \in Types, NEW chain, Pipeline(chain), Builds(t, chain),
         NEW xs, Fits(xs, t), Len(xs) \in Words, Compress(t, chain, xs) # Fail
  PROVE  Buffer(Compress(t, chain, xs))
<1> DEFINE body == Encode(t, chain, xs)
           count == LebBytes(Len(xs))
           bare == BareStages(chain)
           header == << [type |-> t, stages |-> bare] >>
           tail == count \o body
<1>1. /\ Compress(t, chain, xs) = [header |-> header, tail |-> tail]
      /\ body # Fail /\ Builds(t, bare) /\ OutputType(t, chain) = "bytes"
  BY DEF Compress
<1>2. Runs(t, chain) /\ SameCoders(chain, bare)
  BY <1>1, BuildsRuns, BareIsSame
<1>3. body \in Seq(Int)
  <2>1. Fits(body, OutputType(t, chain))
    <3> HIDE DEF bare
    <3> QED BY <1>1, <1>2, PipelineRoundTrip
  <2> QED BY <1>1, <2>1 DEF Fits
<1>4. count \in Seq(Int)
  BY LebBytesAre DEF LebCells
<1> HIDE DEF body, count, header
<1>5. tail \in Seq(Int)
  BY <1>3, <1>4
<1> HIDE DEF tail
<1> QED
  BY <1>1, <1>5 DEF Buffer

(* Cutting off a buffer leaves its header or nothing.                       *)
LEMMA CutOffIs ==
  ASSUME NEW whole, Buffer(whole), NEW n \in 0..(Len(whole.tail) - 1)
  PROVE  HecCut([whole EXCEPT !.tail = SubSeq(whole.tail, 1, n)], whole)
<1>1. PICK header, tail : whole = [header |-> header, tail |-> tail] /\ tail \in Seq(Int)
  BY DEF Buffer
<1> DEFINE p == SubSeq(tail, 1, n)
           kept == [whole EXCEPT !.tail = SubSeq(whole.tail, 1, n)]
<1>2. whole.header = header /\ whole.tail = tail
  BY <1>1
<1>3. n \in Nat /\ n < Len(tail) /\ Len(tail) \in Nat
  BY <1>1, <1>2
<1>4. p \in Seq(Int) /\ Len(p) = n /\ \A i \in 1..n : p[i] = tail[i]
  BY <1>1, <1>3
<1>5. kept.header = header /\ kept.tail = p
  <2>1. kept = [whole EXCEPT !.tail = p]
    BY <1>2
  <2> HIDE DEF p, kept
  <2>2. kept = [header |-> header, tail |-> p]
    BY <1>1, <2>1
  <2> QED BY <2>2
<1> HIDE DEF p, kept
<1>6. CutShort(p, tail)
  BY <1>1, <1>3, <1>4 DEF CutShort
<1>7. HecCut(kept, whole)
  BY <1>2, <1>5, <1>6 DEF HecCut
<1> QED
  BY <1>7 DEF kept

\* What holds on the way: only a HEC0 buffer that was stored is cut off.
TruncationInv ==
  /\ RoundTripInv
  /\ cut \in BOOLEAN
  /\ cut => container = "hec0" /\ phase \in {"stored", "read"} /\ HecCut(buffer, Stored(column))
  /\ TruncationDetected

(* Inductive: only Read and CutOff find a buffer.                           *)
LEMMA TruncationStep == TruncationInv /\ [Next]_vars => TruncationInv'
<1> SUFFICES ASSUME TruncationInv, [Next]_vars PROVE TruncationInv'
  OBVIOUS
<1>0. RoundTripInv'
  BY RoundTripStep DEF TruncationInv
<1> USE DEF TruncationInv
<1>1. ASSUME cut' = cut, ~cut PROVE TruncationInv'
  BY <1>0, <1>1 DEF TruncationDetected
<1>2. ASSUME phase \notin {"stored", "read"}, cut' = cut PROVE TruncationInv'
  BY <1>1, <1>2
<1>3. CASE ChooseStated \/ ChooseDefault \/ ChooseTyped
  BY <1>2, <1>3 DEF ChooseStated, ChooseDefault, ChooseTyped, Choose
<1>4. CASE Optimize
  BY <1>2, <1>4, Zenon DEF Optimize, Choose
<1>5. CASE Build
  BY <1>2, <1>5 DEF Build
<1>6. CASE Store
  BY <1>2, <1>6 DEF Store
<1>7. CASE CutOff
  <2>1. /\ phase = "stored" /\ container = "hec0" /\ ~cut /\ cut' = TRUE
        /\ UNCHANGED << phase, leaf, origin, stages, container, column, result >>
        /\ \/ buffer' = [header |-> <<>>, tail |-> <<>>]
           \/ \E n \in 0..(Len(buffer.tail) - 1) :
                buffer' = [buffer EXCEPT !.tail = SubSeq(buffer.tail, 1, n)]
    BY <1>7 DEF CutOff
  <2>2. /\ leaf \in Leaves /\ Pipeline(stages) /\ Builds(Type, stages)
        /\ column \in Values[leaf] /\ Stored(column) # Fail /\ buffer = Stored(column)
    BY <2>1 DEF RoundTripInv
  <2>3. Type \in Types /\ Fits(column, Type) /\ Len(column) \in Words
    BY <2>2, LeavesAre
  <2>4. Stored(column) = Compress(Type, stages, column)
    BY <2>1 DEF Stored
  <2>5. Buffer(buffer)
    BY <2>2, <2>3, <2>4, CompressedParts
  <2>6. HecCut(buffer', buffer)
    <3>1. CASE buffer' = [header |-> <<>>, tail |-> <<>>]
      BY <3>1 DEF HecCut
    <3>2. CASE \E n \in 0..(Len(buffer.tail) - 1) :
                 buffer' = [buffer EXCEPT !.tail = SubSeq(buffer.tail, 1, n)]
      BY <2>5, <3>2, CutOffIs
    <3> QED BY <2>1, <3>1, <3>2
  <2>7. Stored(column)' = Stored(column)
    BY <2>1 DEF Stored, Type
  <2>8. HecCut(buffer, Stored(column))'
    BY <2>2, <2>6, <2>7 DEF HecCut
  <2> QED BY <1>0, <2>1, <2>8 DEF TruncationDetected
<1>8. CASE Read
  <2>1. phase = "stored" /\ phase' = "read" /\ result' = Found
        /\ UNCHANGED << leaf, origin, stages, container, column, buffer, cut >>
    BY <1>8 DEF Read, Found
  <2>2. CASE ~cut
    BY <1>1, <2>1, <2>2
  <2>3. CASE cut
    <3>1. /\ leaf \in Leaves /\ Pipeline(stages) /\ Builds(Type, stages)
          /\ column \in Values[leaf] /\ Stored(column) # Fail /\ container = "hec0"
          /\ HecCut(buffer, Stored(column))
      BY <2>1, <2>3 DEF RoundTripInv
    <3>2. Type \in Types /\ Fits(column, Type) /\ Len(column) \in Words
      BY <3>1, LeavesAre
    <3>3. Stored(column) = Compress(Type, stages, column)
      BY <3>1 DEF Stored
    <3>4. Decompress(buffer) = Fail
      BY <3>1, <3>2, <3>3, CompressCutShort
    <3>5. result' = Fail
      BY <2>1, <3>1, <3>4 DEF Found
    <3>6. Stored(column)' = Stored(column)
      BY <2>1 DEF Stored, Type
    <3>7. HecCut(buffer, Stored(column))'
      BY <2>1, <3>1, <3>6 DEF HecCut
    <3> QED BY <1>0, <2>1, <3>1, <3>5, <3>7 DEF TruncationDetected
  <2> QED BY <2>2, <2>3
<1>9. CASE UNCHANGED vars
  <2>1. UNCHANGED << phase, leaf, origin, stages, container, column, buffer, cut, result >>
    BY <1>9 DEF vars
  <2>2. Stored(column)' = Stored(column)
    BY <2>1 DEF Stored, Type
  <2>3. cut => HecCut(buffer, Stored(column))'
    BY <2>1, <2>2 DEF HecCut
  <2> QED BY <1>0, <2>1, <2>3 DEF TruncationDetected
<1> QED
  BY <1>3, <1>4, <1>5, <1>6, <1>7, <1>8, <1>9 DEF Next

(* A HEC0 buffer that is cut off anywhere is refused and never read as a     *)
(* shorter column, by any pipeline that can be built.                       *)
THEOREM EncodingTruncationDetected == Spec => []TruncationDetected
<1>1. Init => TruncationInv
  BY DEF Init, TruncationInv, RoundTripInv, RoundTrip, TruncationDetected
<1>2. TruncationInv /\ [Next]_vars => TruncationInv'
  BY TruncationStep
<1>3. TruncationInv => TruncationDetected
  BY DEF TruncationInv
<1> QED
  BY <1>1, <1>2, <1>3, PTL DEF Spec

-----------------------------------------------------------------------------
(* Why a leaf is refused                                                    *)

\* A stage that has a cause to reject xs.
Risky(stage, t, xs) ==
  \/ stage.id = "bitpack_fixed"
  \/ stage.id = "bitpack_auto" /\ t \in Signed /\ \E j \in DOMAIN xs : xs[j] < 0
  \/ stage.id = "elias_fano" /\ t \in Sorted /\ ~Increasing(xs)

(* bitpack_auto rejects only negative values.                               *)
LEMMA PackAutoRejects ==
  ASSUME NEW t \in Integral, NEW xs, Fits(xs, t), PackAuto(xs) = Fail
  PROVE  t \in Signed /\ \E j \in DOMAIN xs : xs[j] < 0
<1>1. xs \in Seq(Int) /\ DOMAIN xs = 1..Len(xs)
  BY DEF Fits
<1>2. \E j \in DOMAIN xs : xs[j] < 0
  <2> SUFFICES ASSUME ~\E j \in DOMAIN xs : xs[j] < 0 PROVE FALSE
    OBVIOUS
  <2> DEFINE w == BitsFor(MaxOf(xs))
             bytes == Pack(xs, w)
             n == Len(xs)
  <2>1. \A i \in 1..Len(xs) : xs[i] >= 0
    BY <1>1
  <2>2. PackedTo(xs, w, t)
    BY <2>1, PackAutoIs
  <2> HIDE DEF w
  <2>3. w \in Nat /\ Packable(xs, w, t) /\ PackAuto(xs) = << n, w >> \o bytes
    BY <2>2 DEF PackedTo
  <2>4. bytes \in Seq(Int)
    BY <2>3, PackRoundTrip DEF Packs
  <2>5. n \in Int
    BY <1>1
  <2> HIDE DEF bytes, n
  <2>6. << n, w >> \o bytes \in Seq(Int)
    BY <2>3, <2>4, <2>5
  <2> QED BY <2>3, <2>6, FailIsNoSequence
<1>3. t \in Signed
  <2> SUFFICES ASSUME t \in Unsigned PROVE FALSE
    BY DEF Integral
  <2>1. PICK j \in 1..Len(xs) : xs[j] < 0 /\ xs[j] \in Int
    BY <1>1, <1>2
  <2>2. t # "bytes" /\ t \in Numeric
    BY LargestIs
  <2>3. Within(xs[j], t)
    BY <1>1, <2>2 DEF Fits
  <2>4. xs[j] \in Nat
    BY <2>1, <2>3, UnsignedIs
  <2> QED BY <2>1, <2>4
<1> QED
  BY <1>2, <1>3

(* elias_fano rejects only what does not increase.                          *)
LEMMA EliasFanoRejects ==
  ASSUME NEW t \in Sorted, NEW xs, Fits(xs, t), ToEliasFano(xs) = Fail
  PROVE  ~Increasing(xs)
<1> SUFFICES ASSUME Increasing(xs) PROVE FALSE
  OBVIOUS
<1>1. CASE xs = <<>>
  <2>1. ToEliasFano(xs) = << 0, 0, 0 >>
    BY <1>1 DEF ToEliasFano
  <2>2. << 0, 0, 0 >> \in Seq(Int)
    OBVIOUS
  <2> QED BY <2>1, <2>2, FailIsNoSequence
<1>2. CASE xs # <<>>
  <2> DEFINE l == LowWidth(xs)
             n == Len(xs)
  <2>1. PICK hs, ls, a, b : EliasWritten(xs, l, hs, ls, a, b)
    BY <1>2, ToEliasFanoIs
  <2>2. l \in Nat /\ n \in Nat
    BY <1>2, LowWidthIs DEF Fits
  <2> HIDE DEF l
  <2>3. a \in Seq(Int) /\ b \in Seq(Int)
    BY <2>1 DEF EliasWritten, HeldIn
  <2>4. ToEliasFano(xs) = <<n, l, Len(a)>> \o a \o b
    BY <2>1 DEF EliasWritten
  <2>5. Len(a) \in Nat
    BY <2>3
  <2> DEFINE h == <<n, l, Len(a)>>
             c == h \o a
  <2> HIDE DEF n
  <2>6. h \in Seq(Int)
    BY <2>2, <2>5
  <2> HIDE DEF h
  <2>7. c \in Seq(Int)
    BY <2>3, <2>6
  <2> HIDE DEF c
  <2>8. c \o b \in Seq(Int)
    BY <2>3, <2>7
  <2>9. ToEliasFano(xs) \in Seq(Int)
    BY <2>4, <2>8 DEF c, h
  <2> QED BY <2>9, FailIsNoSequence
<1> QED
  BY <1>1, <1>2

(* No other coder rejects values of its type.                               *)
LEMMA StageFails ==
  ASSUME NEW stage, NEW t \in Types, Buildable(stage, t), NEW xs, Fits(xs, t),
         EncodeStage(stage, t, xs) = Fail
  PROVE  Risky(stage, t, xs)
<1> DEFINE id == stage.id
<1>0. Integral \subseteq Numeric
  BY DEF Numeric
<1>1. ASSUME NEW ys, ys \in Seq(Int), EncodeStage(stage, t, xs) = ys PROVE FALSE
  BY <1>1, FailIsNoSequence
<1>2. CASE id = "delta"
  <2>1. t \in Numeric /\ EncodeStage(stage, t, xs) = Deltas(xs, t)
    BY <1>0, <1>2 DEF Buildable, TypeKeeping, ByteCoders, EncodeStage
  <2>2. Deltas(xs, t) \in Seq(Int)
    BY <2>1, DeltasFit DEF Fits
  <2> QED BY <1>1, <2>1, <2>2
<1>3. CASE id = "delta_of_delta"
  <2>1. t \in Numeric /\ EncodeStage(stage, t, xs) = DeltasOfDeltas(xs, t)
    BY <1>0, <1>3 DEF Buildable, TypeKeeping, ByteCoders, EncodeStage
  <2>2. DeltasOfDeltas(xs, t) \in Seq(Int)
    BY <2>1, DeltaOfDeltaRoundTrip DEF Fits
  <2> QED BY <1>1, <2>1, <2>2
<1>4. CASE id = "deltamin"
  <2>1. t \in Numeric /\ EncodeStage(stage, t, xs) = AboveMin(xs, t)
    BY <1>0, <1>4 DEF Buildable, TypeKeeping, ByteCoders, EncodeStage
  <2>2. AboveMin(xs, t) \in Seq(Int)
    BY <2>1, DeltaMinRoundTrip DEF Fits
  <2> QED BY <1>1, <2>1, <2>2
<1>5. CASE id = "rle"
  <2>1. t \in Integral /\ EncodeStage(stage, t, xs) = RunLengths(xs, t)
    BY <1>5 DEF Buildable, TypeKeeping, ByteCoders, EncodeStage
  <2>2. RunLengths(xs, t) \in Seq(Int)
    BY <2>1, RunsRoundTrip DEF Fits
  <2> QED BY <1>1, <2>1, <2>2
<1>6. CASE id = "leb128"
  <2>1. t \in Integral /\ EncodeStage(stage, t, xs) = ToLeb(xs, t)
    BY <1>6 DEF Buildable, TypeKeeping, ByteCoders, EncodeStage
  <2>2. ToLeb(xs, t) \in Seq(Int)
    BY <2>1, LebRoundTrip
  <2> QED BY <1>1, <2>1, <2>2
<1>7. CASE id = "bitpack_fixed"
  BY <1>7 DEF Risky
<1>8. CASE id = "bitpack_auto"
  <2>1. t \in Integral /\ PackAuto(xs) = Fail
    BY <1>8 DEF Buildable, TypeKeeping, ByteCoders, EncodeStage
  <2>2. t \in Signed /\ \E j \in DOMAIN xs : xs[j] < 0
    BY <2>1, PackAutoRejects
  <2> QED BY <1>8, <2>2 DEF Risky
<1>9. CASE id = "elias_fano"
  <2>1. t \in Sorted /\ ToEliasFano(xs) = Fail
    BY <1>9 DEF Buildable, TypeKeeping, ByteCoders, EncodeStage
  <2>2. ~Increasing(xs)
    BY <2>1, EliasFanoRejects
  <2> QED BY <1>9, <2>1, <2>2 DEF Risky
<1>10. CASE id = "gorilla"
  <2>1. t \in Floats /\ EncodeStage(stage, t, xs) = ToGorilla(xs, t)
    BY <1>10 DEF Buildable, TypeKeeping, ByteCoders, EncodeStage
  <2>2. ToGorilla(xs, t) \in Seq(Int)
    BY <2>1, GorillaRoundTrip
  <2> QED BY <1>1, <2>1, <2>2
<1>11. CASE id \in ByteCoders \cup {"pcodec"}
  <2>1. EncodeStage(stage, t, xs) = Framed(id, xs) /\ xs \in Seq(Int)
    BY <1>11 DEF EncodeStage, ByteCoders, Fits
  <2> HIDE DEF id
  <2>2. Framed(id, xs) \in Seq(Int)
    BY <1>11, <2>1, FrameRoundTrip
  <2> QED BY <1>1, <2>1, <2>2
<1>12. \/ id \in {"delta", "delta_of_delta", "deltamin", "rle", "leb128", "bitpack_fixed",
                  "bitpack_auto", "elias_fano", "gorilla", "pcodec"}
       \/ id \in ByteCoders
  BY DEF Buildable, TypeKeeping, ByteCoders
<1> HIDE DEF id
<1> QED
  BY <1>2, <1>3, <1>4, <1>5, <1>6, <1>7, <1>8, <1>9, <1>10, <1>11, <1>12

\* Stage i has a cause; the first one has it in the values themselves.
RejectedAt(t, chain, xs, i) ==
  \E d : Risky(chain[i], TypeAt(t, chain, i), d) /\ (i = 1 => d = xs)

(* A pipeline rejects only what one of its stages has a cause to reject.    *)
LEMMA PipelineFails ==
  ASSUME NEW t \in Types, NEW chain, Runs(t, chain), NEW xs, Fits(xs, t),
         Encode(t, chain, xs) = Fail
  PROVE  \E i \in 1..Len(chain) : RejectedAt(t, chain, xs, i)
<1> DEFINE n == Len(chain)
           Ty(i) == TypeAt(t, chain, i)
           Caused == \E i \in 1..n : RejectedAt(t, chain, xs, i)
<1>1. n \in Nat /\ \A i \in 1..n : StageOK(chain[i]) /\ Buildable(chain[i], Ty(i))
  BY DEF Runs
<1>2. PICK f : Staged(f, t, chain, xs) /\ Encode(t, chain, xs) = f[n]
  BY <1>1, EncodeIs
<1>3. f[0] = xs /\ \A i \in 1..n : f[i] = Through(chain[i], Ty(i), f[i - 1])
  BY <1>2 DEF Staged
<1>4. \A i \in Nat \ {0} : Ty(i) \in Types /\ Ty(i + 1) = After(chain[i], Ty(i))
  BY TypeAfter
<1>5. Ty(1) = t
  <2>1. 1 \in Nat \ {0}
    OBVIOUS
  <2> QED BY <2>1, TypeAfter
<1> DEFINE S == {k \in Nat : k <= n => Caused \/ (f[k] # Fail /\ Fits(f[k], Ty(k + 1)))}
<1>6. 0 \in S
  <2>1. 0 + 1 = 1
    OBVIOUS
  <2>2. xs # Fail
    BY FailIsNoSequence DEF Fits
  <2> HIDE DEF Ty, Caused
  <2>3. f[0] # Fail /\ Fits(f[0], Ty(0 + 1))
    BY <1>3, <1>5, <2>1, <2>2
  <2> QED BY <2>3
<1>7. ASSUME NEW k \in Nat \ {0}, k - 1 \in S PROVE k \in S
  <2> SUFFICES ASSUME k <= n, ~Caused PROVE f[k] # Fail /\ Fits(f[k], Ty(k + 1))
    OBVIOUS
  <2> DEFINE d == f[k - 1]
             u == Ty(k)
             s == chain[k]
  <2>1. k \in 1..n /\ (k - 1) + 1 = k /\ k - 1 <= n /\ k - 1 \in Nat
    BY <1>1
  <2>2. d # Fail /\ Fits(d, u)
    <3> HIDE DEF Caused, Ty
    <3> QED BY <1>7, <2>1
  <2>3. f[k] = EncodeStage(s, u, d)
    BY <1>3, <2>1, <2>2 DEF Through
  <2>4. u \in Types /\ StageOK(s) /\ Buildable(s, u) /\ Ty(k + 1) = After(s, u)
    BY <1>1, <1>4, <2>1
  <2>5. k = 1 => d = xs
    BY <1>3
  <2> HIDE DEF d
  <2>6. EncodeStage(s, u, d) # Fail
    <3> SUFFICES ASSUME EncodeStage(s, u, d) = Fail PROVE FALSE
      OBVIOUS
    <3>1. Risky(s, u, d)
      <4> HIDE DEF u, s
      <4> QED BY <2>2, <2>4, StageFails
    <3>2. RejectedAt(t, chain, xs, k)
      BY <2>5, <3>1 DEF RejectedAt
    <3> QED BY <2>1, <3>2
  <2> HIDE DEF u, s, Ty
  <2>7. Undone(s, u, d)
    BY <2>2, <2>4, <2>6, StageRoundTrip
  <2> QED BY <2>3, <2>4, <2>6, <2>7 DEF Undone
<1>8. n \in S
  <2>1. Nat \subseteq S
    <3> HIDE DEF S
    <3> QED BY <1>6, <1>7, SetInduction
  <2> HIDE DEF S
  <2> QED BY <1>1, <2>1
<1> QED
  BY <1>2, <1>8

\* Why a pipeline that was built rejects xs in a container.
Cause(t, chain, where, xs) ==
  LET Uses(id) == \E i \in DOMAIN chain : chain[i].id = id
      StartsWith(id) == chain # <<>> /\ chain[1].id = id
  IN \/ Uses("elias_fano") /\ (StartsWith("elias_fano") => ~Increasing(xs))
     \/ Uses("bitpack_fixed")
     \/ /\ Uses("bitpack_auto") /\ t \in Signed
        /\ StartsWith("bitpack_auto") => \E i \in DOMAIN xs : xs[i] < 0
     \/ where # "he" /\ OutputType(t, chain) # "bytes"
     \/ where = "hec0" /\ Len(chain) > MaxStages

(* A coder of bits is the first one or gets the values of the first ones: behind *)
(* another coder of bits there are only bytes.                              *)
LEMMA RiskyIsFirst ==
  ASSUME NEW t \in Types, NEW chain, Runs(t, chain), NEW i \in 1..Len(chain),
         chain[i].id \in {"bitpack_auto", "elias_fano"}, chain[1].id = chain[i].id
  PROVE  i = 1
<1>1. Buildable(chain[i], TypeAt(t, chain, i)) /\ Len(chain) \in Nat
  BY DEF Runs
<1>2. TypeAt(t, chain, i) # "bytes"
  <2>1. TypeAt(t, chain, i) \in Integral
    BY <1>1, CodersAssumption DEF Buildable, TypeKeeping, ByteCoders, Integral
  <2> QED BY <2>1, CodersAssumption
<1>3. \A j \in 1..(i - 1) : chain[j].id \in TypeKeeping
  BY <1>2 DEF TypeAt
<1>4. chain[1].id \notin TypeKeeping
  BY DEF TypeKeeping
<1> QED
  BY <1>1, <1>3, <1>4

(* A stage that rejects is a cause.                                         *)
LEMMA EncodeFailsForCause ==
  ASSUME NEW t \in Types, NEW chain, Pipeline(chain), Builds(t, chain), NEW xs, Fits(xs, t),
         Encode(t, chain, xs) = Fail, NEW where
  PROVE  Cause(t, chain, where, xs)
<1>1. Runs(t, chain) /\ DOMAIN chain = 1..Len(chain) /\ Len(chain) \in Nat
  BY BuildsRuns DEF Pipeline
<1>2. PICK i \in 1..Len(chain) : RejectedAt(t, chain, xs, i)
  BY <1>1, PipelineFails
<1> DEFINE u == TypeAt(t, chain, i)
<1>3. PICK d : Risky(chain[i], u, d) /\ (i = 1 => d = xs)
  BY <1>2 DEF RejectedAt
<1>4. u \in {t, "bytes"}
  BY DEF TypeAt
<1> HIDE DEF u
<1>5. CASE chain[i].id = "bitpack_fixed"
  BY <1>1, <1>5 DEF Cause
<1>6. CASE chain[i].id = "bitpack_auto"
  <2>1. u \in Signed /\ \E j \in DOMAIN d : d[j] < 0
    BY <1>3, <1>6 DEF Risky
  <2>2. t \in Signed
    BY <1>4, <2>1, CodersAssumption DEF Integral
  <2>3. chain[1].id = "bitpack_auto" => \E j \in DOMAIN xs : xs[j] < 0
    BY <1>1, <1>3, <1>6, <2>1, RiskyIsFirst
  <2> QED BY <1>1, <1>6, <2>2, <2>3 DEF Cause
<1>7. CASE chain[i].id = "elias_fano"
  <2>1. ~Increasing(d)
    BY <1>3, <1>7 DEF Risky
  <2>2. chain[1].id = "elias_fano" => ~Increasing(xs)
    BY <1>1, <1>3, <1>7, <2>1, RiskyIsFirst
  <2> QED BY <1>1, <1>7, <2>2 DEF Cause
<1> QED
  BY <1>3, <1>5, <1>6, <1>7 DEF Risky

(* A header names coders.                                                   *)
LEMMA HeaderIs ==
  ASSUME NEW t \in Types, NEW chain, Pipeline(chain), Builds(t, BareStages(chain))
  PROVE  << [type |-> t, stages |-> BareStages(chain)] >> \in Seq(Headers)
<1> DEFINE bare == BareStages(chain)
           n == Len(chain)
           S == [id : Registered, width : {Fail}]
           h == [type |-> t, stages |-> bare]
<1>1. n \in Nat /\ bare = [i \in 1..n |-> Stage(chain[i].id)]
  BY DEF Pipeline, BareStages
<1>2. DOMAIN bare = 1..n
  BY <1>1
<1>3. ASSUME NEW i \in 1..n PROVE Stage(chain[i].id) \in S
  <2>1. Buildable(bare[i], TypeAt(t, bare, i)) /\ bare[i] = Stage(chain[i].id)
    BY <1>1, <1>2 DEF Builds
  <2> DEFINE s == Stage(chain[i].id)
             id == chain[i].id
  <2>2. s.id = id /\ s = [id |-> id, width |-> Fail]
    BY DEF Stage
  <2>3. Buildable(s, TypeAt(t, bare, i))
    BY <2>1
  <2> HIDE DEF bare, s
  <2>4. s.id \in Registered
    BY <2>3 DEF Buildable, Registered, Blocks, TypeKeeping, ByteCoders
  <2> HIDE DEF id
  <2>5. s \in S
    BY <2>2, <2>4
  <2> QED BY <2>5 DEF s, id
<1> HIDE DEF S
<1>4. bare \in Seq(S)
  BY <1>1, <1>3
<1>5. t \in Integral \cup Floats \cup {"bytes"}
  BY DEF Types, Numeric
<1> HIDE DEF bare
<1>6. h \in Headers
  BY <1>4, <1>5 DEF Headers, S
<1> HIDE DEF h
<1>7. << h >> \in Seq(Headers)
  BY <1>6
<1> QED
  BY <1>7 DEF h, bare

(* Bare stages are built like those with parameters, but for the one that has one. *)
LEMMA BareBuilds ==
  ASSUME NEW t \in Types, NEW chain, Pipeline(chain), Builds(t, chain),
         \A i \in 1..Len(chain) : chain[i].id # "bitpack_fixed"
  PROVE  Builds(t, BareStages(chain))
<1> DEFINE bare == BareStages(chain)
           n == Len(chain)
<1>1. n \in Nat /\ DOMAIN chain = 1..n /\ bare = [i \in 1..n |-> Stage(chain[i].id)]
  BY DEF Pipeline, BareStages
<1>2. DOMAIN bare = 1..n /\ \A i \in 1..n : bare[i].id = chain[i].id
  BY <1>1 DEF Stage
<1> HIDE DEF bare
<1>3. ASSUME NEW i \in 1..n PROVE Buildable(bare[i], TypeAt(t, bare, i))
  <2>1. \A j \in 1..(i - 1) : j \in 1..n
    BY <1>1
  <2>2. TypeAt(t, bare, i) = TypeAt(t, chain, i)
    BY <1>2, <2>1 DEF TypeAt
  <2>3. Buildable(chain[i], TypeAt(t, chain, i))
    BY <1>1 DEF Builds
  <2> DEFINE u == TypeAt(t, chain, i)
  <2> HIDE DEF u
  <2>4. Buildable(bare[i], u)
    <3>1. Buildable(chain[i], u) /\ bare[i].id = chain[i].id /\ chain[i].id # "bitpack_fixed"
      BY <1>2, <2>3 DEF u
    <3> QED BY <3>1 DEF Buildable, TypeKeeping, ByteCoders
  <2> QED BY <2>2, <2>4 DEF u
<1>4. \A i, j \in 1..n : i < j /\ bare[i].id \in Blocks => bare[j].id \in Blocks
  BY <1>1, <1>2 DEF Builds
<1> QED
  BY <1>2, <1>3, <1>4 DEF Builds, bare

(* What is rejected after its pipeline was built is rejected for a cause.    *)
LEMMA StoredFails ==
  ASSUME leaf \in Leaves, Pipeline(stages), Builds(Type, stages),
         container = "he" => OutputType(Type, stages) = "bytes",
         NEW xs \in Values[leaf], Stored(xs) = Fail
  PROVE  Cause(Type, stages, container, xs)
<1> DEFINE t == Type
           chain == stages
           body == Encode(t, chain, xs)
           bare == BareStages(chain)
           where == container
           n == Len(chain)
<1>1. t \in Types /\ Fits(xs, t) /\ Len(xs) \in Words
  BY LeavesAre
<1>2. Pipeline(chain) /\ Builds(t, chain) /\ Runs(t, chain) /\ DOMAIN chain = 1..n /\ n \in Nat
  BY BuildsRuns DEF Pipeline
<1>3. SameCoders(chain, chain)
  BY DEF SameCoders
<1>4. CASE body = Fail
  <2> HIDE DEF t, chain, where
  <2>1. Cause(t, chain, where, xs)
    BY <1>1, <1>2, <1>4, EncodeFailsForCause
  <2> QED BY <2>1 DEF t, chain, where
<1>5. CASE body # Fail /\ OutputType(t, chain) # "bytes"
  BY <1>5 DEF Cause
<1>6. CASE body # Fail /\ OutputType(t, chain) = "bytes"
  <2>1. body \in Seq(Int)
    <3>1. Fits(body, OutputType(t, chain))
      <4> HIDE DEF t, chain
      <4> QED BY <1>1, <1>2, <1>3, <1>6, PipelineRoundTrip
    <3> QED BY <1>6, <3>1 DEF Fits
  <2>2. CASE where # "hec0"
    <3> DEFINE kept == [header |-> <<>>, tail |-> body]
    <3>1. Stored(xs) = kept
      BY <1>6, <2>2 DEF Stored
    <3>2. <<>> \in Seq(Headers)
      OBVIOUS
    <3> HIDE DEF body
    <3>3. kept \in Buffers
      BY <2>1, <3>2 DEF Buffers
    <3> QED BY <3>1, <3>3, EncodingAssumption
  <2>3. CASE where = "hec0"
    <3>1. Compress(t, chain, xs) = Fail
      BY <2>3 DEF Stored
    <3>2. CASE n > MaxStages
      BY <2>3, <3>2 DEF Cause
    <3>3. CASE ~(n > MaxStages)
      <4>1. Len(bare) = n
        BY <1>2 DEF BareStages
      <4>2. ~Builds(t, bare)
        <5> SUFFICES ASSUME Builds(t, bare) PROVE FALSE
          OBVIOUS
        <5> DEFINE h == << [type |-> t, stages |-> bare] >>
                   tail == LebBytes(Len(xs)) \o body
                   kept == [header |-> h, tail |-> tail]
        <5>1. Compress(t, chain, xs) = kept
          BY <1>6, <3>3, <4>1 DEF Compress
        <5>2. h \in Seq(Headers)
          <6> HIDE DEF t, chain
          <6> QED BY <1>1, <1>2, HeaderIs
        <5>3. LebBytes(Len(xs)) \in Seq(Int)
          BY <1>1, LebBytesAre DEF LebCells
        <5>4. tail \in Seq(Int)
          <6> HIDE DEF body
          <6> QED BY <2>1, <5>3
        <5> HIDE DEF h, tail
        <5>5. kept \in Buffers
          BY <5>2, <5>4 DEF Buffers
        <5> QED BY <3>1, <5>1, <5>5, EncodingAssumption
      <4>3. \E i \in DOMAIN chain : chain[i].id = "bitpack_fixed"
        <5> HIDE DEF t, chain
        <5> QED BY <1>1, <1>2, <4>2, BareBuilds
      <4> QED BY <4>3 DEF Cause
    <3> QED BY <3>2, <3>3
  <2> QED BY <2>2, <2>3
<1> QED
  BY <1>4, <1>5, <1>6

-----------------------------------------------------------------------------
(* The pipelines that the program chooses itself                            *)

\* A pipeline that a writer accepts.
Accepted(t, chain) ==
  Pipeline(chain) /\ Builds(t, chain) /\ OutputType(t, chain) = "bytes"

(* One coder that does not keep the type.                                   *)
LEMMA OneStage ==
  ASSUME NEW t, NEW a, a \notin TypeKeeping, Buildable(Stage(a), t)
  PROVE  Accepted(t, Stages(<<a>>))
<1> DEFINE chain == Stages(<<a>>)
<1>1. DOMAIN chain = 1..1 /\ Len(chain) = 1 /\ chain[1] = Stage(a)
  BY DEF Stages
<1>2. chain[1].id = a
  BY <1>1 DEF Stage
<1>3. Pipeline(chain)
  <2>1. Counted(<<a>>)
    BY DEF Counted
  <2> QED BY <2>1, StagesAre
<1> HIDE DEF chain
<1>4. TypeAt(t, chain, 1) = t
  BY DEF TypeAt
<1>5. OutputType(t, chain) = "bytes"
  BY <1>1, <1>2 DEF OutputType, TypeAt
<1>6. Builds(t, chain)
  BY <1>1, <1>4 DEF Builds
<1> QED
  BY <1>3, <1>5, <1>6 DEF Accepted, chain

(* Two, the second one of bytes.                                            *)
LEMMA TwoStages ==
  ASSUME NEW t, NEW a, a \notin TypeKeeping, Buildable(Stage(a), t)
  PROVE  Accepted(t, Stages(<<a, "zstd">>))
<1> DEFINE chain == Stages(<<a, "zstd">>)
<1>1. DOMAIN chain = 1..2 /\ Len(chain) = 2 /\ chain[1] = Stage(a) /\ chain[2] = Stage("zstd")
  BY DEF Stages
<1>2. chain[1].id = a /\ chain[2].id = "zstd"
  BY <1>1 DEF Stage
<1>3. Pipeline(chain)
  <2>1. Counted(<<a, "zstd">>)
    BY DEF Counted
  <2> QED BY <2>1, StagesAre
<1> HIDE DEF chain
<1>4. TypeAt(t, chain, 1) = t /\ TypeAt(t, chain, 2) = "bytes"
  BY <1>2 DEF TypeAt
<1>5. OutputType(t, chain) = "bytes"
  BY <1>1, <1>2 DEF OutputType, TypeAt
<1>6. Buildable(chain[2], "bytes")
  BY <1>1, <1>2 DEF Buildable, ByteCoders, TypeKeeping
<1>7. "zstd" \in Blocks
  BY DEF Blocks, ByteCoders
<1>8. Builds(t, chain)
  BY <1>1, <1>2, <1>4, <1>6, <1>7 DEF Builds
<1> QED
  BY <1>3, <1>5, <1>8 DEF Accepted, chain

(* Three, the first one keeps the type.                                     *)
LEMMA ThreeStages ==
  ASSUME NEW t, NEW a, a \in TypeKeeping, Buildable(Stage(a), t),
         NEW b, b \notin TypeKeeping, Buildable(Stage(b), t), a \in Blocks => b \in Blocks
  PROVE  Accepted(t, Stages(<<a, b, "zstd">>))
<1> DEFINE chain == Stages(<<a, b, "zstd">>)
<1>1. /\ DOMAIN chain = 1..3 /\ Len(chain) = 3
      /\ chain[1] = Stage(a) /\ chain[2] = Stage(b) /\ chain[3] = Stage("zstd")
  BY DEF Stages
<1>2. chain[1].id = a /\ chain[2].id = b /\ chain[3].id = "zstd"
  BY <1>1 DEF Stage
<1>3. Pipeline(chain)
  <2>1. Counted(<<a, b, "zstd">>)
    BY DEF Counted
  <2> QED BY <2>1, StagesAre
<1> HIDE DEF chain
<1>4. TypeAt(t, chain, 1) = t /\ TypeAt(t, chain, 2) = t /\ TypeAt(t, chain, 3) = "bytes"
  BY <1>2 DEF TypeAt
<1>5. OutputType(t, chain) = "bytes"
  BY <1>1, <1>2 DEF OutputType, TypeAt
<1>6. Buildable(chain[3], "bytes")
  BY <1>1, <1>2 DEF Buildable, ByteCoders, TypeKeeping
<1>7. "zstd" \in Blocks
  BY DEF Blocks, ByteCoders
<1>8. \A i \in 1..3 : i = 1 \/ i = 2 \/ i = 3
  OBVIOUS
<1>9. \A i \in 1..3 : Buildable(chain[i], TypeAt(t, chain, i))
  BY <1>1, <1>4, <1>6, <1>8
<1>10. \A i, j \in 1..3 : i < j /\ chain[i].id \in Blocks => chain[j].id \in Blocks
  BY <1>2, <1>7, <1>8
<1>11. Builds(t, chain)
  BY <1>1, <1>9, <1>10 DEF Builds
<1> QED
  BY <1>3, <1>5, <1>11 DEF Accepted, chain

(* The pipelines for integers that the program knows.                       *)
LEMMA IntegersAccepted ==
  ASSUME NEW t \in Integral
  PROVE  /\ Accepted(t, Stages(<<"leb128", "zstd">>))
         /\ Accepted(t, Stages(<<"delta", "leb128", "zstd">>))
         /\ Accepted(t, Stages(<<"delta_of_delta", "leb128", "zstd">>))
         /\ Accepted(t, Stages(<<"bitpack_auto", "zstd">>))
<1>1. /\ Buildable(Stage("leb128"), t) /\ Buildable(Stage("bitpack_auto"), t)
      /\ Buildable(Stage("delta"), t) /\ Buildable(Stage("delta_of_delta"), t)
  BY DEF Stage, Buildable, TypeKeeping, ByteCoders
<1>2. /\ "leb128" \notin TypeKeeping /\ "bitpack_auto" \notin TypeKeeping
      /\ "delta" \in TypeKeeping /\ "delta_of_delta" \in TypeKeeping
      /\ "delta" \notin Blocks /\ "delta_of_delta" \notin Blocks
  BY DEF TypeKeeping, Blocks, ByteCoders
<1> QED
  BY <1>1, <1>2, TwoStages, ThreeStages

(* Those for floats, for bytes, for numbers, and for ascending numbers.     *)
LEMMA OthersAccepted ==
  /\ \A t \in Floats : Accepted(t, Stages(<<"gorilla", "zstd">>))
  /\ Accepted("bytes", Stages(<<"zstd">>))
  /\ \A t \in Numeric : Accepted(t, Stages(<<"pcodec">>))
  /\ \A t \in Sorted : Accepted(t, Stages(<<"elias_fano">>))
<1>1. /\ \A t \in Floats : Buildable(Stage("gorilla"), t)
      /\ Buildable(Stage("zstd"), "bytes")
      /\ \A t \in Numeric : Buildable(Stage("pcodec"), t)
      /\ \A t \in Sorted : Buildable(Stage("elias_fano"), t)
  BY DEF Stage, Buildable, TypeKeeping, ByteCoders, Numeric
<1>2. /\ "gorilla" \notin TypeKeeping /\ "zstd" \notin TypeKeeping
      /\ "pcodec" \notin TypeKeeping /\ "elias_fano" \notin TypeKeeping
  BY DEF TypeKeeping
<1> QED
  BY <1>1, <1>2, OneStage, TwoStages

\* The roles that say something of the type.
RoleFits(role, t) ==
  /\ role \in {"offsets", "indices", "present", "tag"} => t \in Integral
  /\ role = "data" <=> t = "bytes"

(* No default, and no pipeline of a TypedCodec, is refused.                  *)
LEMMA DefaultsAccepted ==
  ASSUME NEW t \in Types
  PROVE  /\ Accepted(t, CodecDefault(t))
         /\ \A role : RoleFits(role, t) => Accepted(t, SchemaDefault(role, t))
         /\ \A p \in TypedCodecs(t) : Accepted(t, p)
<1>1. t \in Integral \/ t \in Floats \/ t = "bytes"
  BY DEF Types, Numeric
<1>2. /\ t \in Floats => t \notin Integral /\ t \notin Small
      /\ t \in Floats \cup Integral => t # "bytes" /\ t \in Numeric
      /\ t \in Floats => t \in {"f32", "f64"}
  BY EncodingAssumption, CodersAssumption DEF Small, Integral, Numeric
<1>3. Accepted(t, CodecDefault(t))
  <2>1. CASE t \in Integral
    <3>1. \/ CodecDefault(t) = Stages(<<"leb128", "zstd">>)
          \/ CodecDefault(t) = Stages(<<"delta", "leb128", "zstd">>)
      BY <1>2, <2>1 DEF CodecDefault
    <3> QED BY <2>1, <3>1, IntegersAccepted
  <2>2. CASE t \in Floats
    BY <1>2, <2>2, OthersAccepted DEF CodecDefault
  <2>3. CASE t = "bytes"
    BY <1>2, <2>3, OthersAccepted DEF CodecDefault, Small
  <2> QED BY <1>1, <2>1, <2>2, <2>3
<1>4. ASSUME NEW role, RoleFits(role, t) PROVE Accepted(t, SchemaDefault(role, t))
  <2>1. CASE role \in {"offsets", "indices"}
    <3>1. SchemaDefault(role, t) = Stages(<<"delta", "leb128", "zstd">>) /\ t \in Integral
      BY <1>4, <2>1 DEF SchemaDefault, RoleFits
    <3> QED BY <3>1, IntegersAccepted
  <2>2. CASE role \notin {"offsets", "indices", "data"} /\ t = "u8"
    <3>1. t \in Integral
      BY <1>1, <1>2, <2>2
    <3> QED BY <2>2, <3>1, IntegersAccepted DEF SchemaDefault
  <2>3. CASE role = "data"
    BY <1>4, <2>3, OthersAccepted DEF SchemaDefault, RoleFits
  <2>4. CASE role \notin {"offsets", "indices", "data"} /\ t # "u8"
    <3>1. t \in Numeric
      BY <1>1, <1>2, <1>4, <2>4 DEF RoleFits
    <3> QED BY <2>4, <3>1, OthersAccepted DEF SchemaDefault
  <2> QED BY <2>1, <2>2, <2>3, <2>4
<1>5. ASSUME NEW p \in TypedCodecs(t) PROVE Accepted(t, p)
  <2>1. CASE t = "i64"
    BY <1>1, <1>2, <1>5, <2>1, IntegersAccepted DEF TypedCodecs
  <2>2. CASE t = "f64"
    <3>1. t \in Floats
      BY <1>1, <2>2, EncodingAssumption DEF Integral
    <3> QED BY <1>5, <2>2, <3>1, OthersAccepted DEF TypedCodecs
  <2>3. CASE t = "u32"
    <3>1. t \in Unsigned
      BY <1>1, <2>3, EncodingAssumption DEF Integral
    <3>2. t \in Sorted /\ t \in Integral
      BY <2>3, <3>1, EncodingAssumption DEF Integral
    <3> QED BY <1>5, <2>3, <3>2, IntegersAccepted, OthersAccepted DEF TypedCodecs
  <2>4. CASE t \notin {"i64", "f64", "u32"}
    BY <1>5, <2>4 DEF TypedCodecs
  <2> QED BY <2>1, <2>2, <2>3, <2>4
<1> QED
  BY <1>3, <1>4, <1>5

\* A sequence of names with one of a coder that gives bytes whatever it gets.
Closed(ids) == Counted(ids) /\ \E j \in DOMAIN ids : ids[j] \in {"zstd", "pcodec"}

(* What the optimizer tries ends in bytes.                                  *)
LEMMA CandidatesClosed ==
  ASSUME NEW t \in Types, NEW role, NEW xs
  PROVE  \A ids \in Candidates(role, t, xs) : Closed(ids)
<1>1. ASSUME NEW ids, Counted(ids), \E j \in DOMAIN ids : ids[j] \in {"zstd", "pcodec"}
      PROVE  Closed(ids)
  BY <1>1 DEF Closed
<1>2. /\ \E j \in DOMAIN Leb : Leb[j] \in {"zstd", "pcodec"}
      /\ \E j \in DOMAIN DeltaLeb : DeltaLeb[j] \in {"zstd", "pcodec"}
      /\ \E j \in DOMAIN MinPacked : MinPacked[j] \in {"zstd", "pcodec"}
      /\ \E j \in DOMAIN RunsPacked : RunsPacked[j] \in {"zstd", "pcodec"}
      /\ \E j \in DOMAIN Packed : Packed[j] \in {"zstd", "pcodec"}
      /\ \E j \in DOMAIN Pco : Pco[j] \in {"zstd", "pcodec"}
  BY DEF Leb, DeltaLeb, MinPacked, RunsPacked, Packed, Pco
<1> DEFINE A == <<"zstd">>
           B == <<"elias_fano", "zstd">>
           C == <<"gorilla", "zstd">>
           D == <<"rle", "leb128", "zstd">>
           E == <<"delta_of_delta", "leb128", "zstd">>
           Ends(ids) == \E j \in DOMAIN ids : ids[j] \in {"zstd", "pcodec"}
<1>3. A[1] = "zstd" /\ 1 \in DOMAIN A
  OBVIOUS
<1>4. B[2] = "zstd" /\ 2 \in DOMAIN B
  OBVIOUS
<1>5. C[2] = "zstd" /\ 2 \in DOMAIN C
  OBVIOUS
<1>6. D[3] = "zstd" /\ 3 \in DOMAIN D
  OBVIOUS
<1>7. E[3] = "zstd" /\ 3 \in DOMAIN E
  OBVIOUS
<1> HIDE DEF A, B, C, D, E
<1>8. Ends(A) /\ Ends(B) /\ Ends(C) /\ Ends(D) /\ Ends(E)
  BY <1>3, <1>4, <1>5, <1>6, <1>7
<1>9. /\ Ends(Leb) /\ Ends(DeltaLeb) /\ Ends(MinPacked)
      /\ Ends(RunsPacked) /\ Ends(Packed) /\ Ends(Pco)
  BY <1>2
<1> HIDE DEF Ends
<1>10. \/ t \in {"i8", "i16", "i32", "i64", "u8", "u16", "u32", "u64", "bytes"}
       \/ t \in Floats
  BY EncodingAssumption DEF Types, Numeric, Integral
<1>11. \A ids \in DataCandidates(t, xs) : Ends(ids)
  BY <1>8, <1>9, <1>10 DEF DataCandidates, A, B, C, D, E
<1>12. \A ids \in Candidates(role, t, xs) : Ends(ids)
  BY <1>8, <1>9, <1>11 DEF Candidates, A, B, C, D, E
<1> QED
  BY <1>12, CandidatesAre DEF Closed, Ends

(* Behind such a coder there are bytes.                                     *)
LEMMA ClosedEnds ==
  ASSUME NEW t, NEW ids, Closed(ids)
  PROVE  OutputType(t, Stages(ids)) = "bytes"
<1> DEFINE p == Stages(ids)
<1>1. PICK n \in Nat : DOMAIN ids = 1..n
  BY DEF Closed, Counted
<1>2. PICK j \in 1..n : ids[j] \in {"zstd", "pcodec"}
  BY <1>1 DEF Closed
<1>3. p = [i \in 1..n |-> Stage(ids[i])]
  BY <1>1 DEF Stages
<1>4. Len(p) = n
  BY <1>3
<1>5. p[j].id \notin TypeKeeping
  BY <1>2, <1>3 DEF Stage, TypeKeeping
<1> HIDE DEF p
<1>6. j \in 1..((Len(p) + 1) - 1)
  BY <1>1, <1>2, <1>4
<1>7. OutputType(t, p) = "bytes"
  BY <1>5, <1>6 DEF OutputType, TypeAt
<1> QED
  BY <1>7 DEF p

(* A writer accepts what the optimizer picks.                               *)
LEMMA FittingAccepted ==
  ASSUME NEW t \in Types, NEW role, NEW xs
  PROVE  \A p \in Fitting(role, t, xs) : Accepted(t, p)
<1>1. ASSUME NEW p \in Fitting(role, t, xs) PROVE OutputType(t, p) = "bytes"
  <2>1. PICK ids \in Candidates(role, t, xs) : p = Stages(ids)
    BY <1>1 DEF Fitting
  <2> QED BY <2>1, CandidatesClosed, ClosedEnds
<1> QED
  BY <1>1, FittingAre DEF Accepted

\* No coder that rejects values.
Calm(ids) ==
  \A i \in DOMAIN ids : ids[i] \notin {"bitpack_fixed", "bitpack_auto", "elias_fano"}

(* A pipeline of other coders rejects nothing.                              *)
LEMMA CalmEncodes ==
  ASSUME NEW t \in Types, NEW ids, Counted(ids), Calm(ids), Builds(t, Stages(ids)),
         NEW xs, Fits(xs, t)
  PROVE  Encode(t, Stages(ids), xs) # Fail
<1> DEFINE p == Stages(ids)
<1> SUFFICES ASSUME Encode(t, p, xs) = Fail PROVE FALSE
  OBVIOUS
<1>1. PICK n \in Nat : DOMAIN ids = 1..n
  BY DEF Counted
<1>2. p = [i \in 1..n |-> Stage(ids[i])]
  BY <1>1 DEF Stages
<1>3. Len(p) = n /\ \A i \in 1..n : p[i].id = ids[i]
  BY <1>2 DEF Stage
<1>4. Pipeline(p)
  BY StagesAre
<1> HIDE DEF p
<1>5. Builds(t, p)
  BY DEF p
<1>6. Runs(t, p)
  BY <1>4, <1>5, BuildsRuns
<1>7. PICK i \in 1..Len(p) : RejectedAt(t, p, xs, i)
  BY <1>6, PipelineFails
<1>8. p[i].id \in {"bitpack_fixed", "bitpack_auto", "elias_fano"}
  BY <1>7 DEF RejectedAt, Risky
<1> QED
  BY <1>1, <1>3, <1>8 DEF Calm

(* The optimizer finds a pipeline for every sample.                         *)
LEMMA FittingFound ==
  ASSUME NEW t \in Types, NEW role, RoleFits(role, t), NEW xs, Fits(xs, t)
  PROVE  Fitting(role, t, xs) # {}
<1> DEFINE Good(ids) == Counted(ids) /\ Calm(ids) /\ Builds(t, Stages(ids))
<1> SUFFICES \E ids \in Candidates(role, t, xs) : Good(ids)
  <2>1. ASSUME NEW ids \in Candidates(role, t, xs), Good(ids)
        PROVE  Stages(ids) \in Fitting(role, t, xs)
    <3>1. Encode(t, Stages(ids), xs) # Fail
      BY <2>1, CalmEncodes
    <3> QED BY <2>1, <3>1 DEF Fitting
  <2> QED BY <2>1
<1>1. /\ Counted(<<"leb128", "zstd">>) /\ Counted(<<"delta", "leb128", "zstd">>)
      /\ Counted(<<"gorilla", "zstd">>) /\ Counted(<<"zstd">>)
  BY DEF Counted
<1>2. /\ Calm(<<"leb128", "zstd">>) /\ Calm(<<"delta", "leb128", "zstd">>)
      /\ Calm(<<"gorilla", "zstd">>) /\ Calm(<<"zstd">>)
  BY DEF Calm
<1>3. t \in Integral => Good(Leb) /\ Good(DeltaLeb)
  BY <1>1, <1>2, IntegersAccepted DEF Accepted, Leb, DeltaLeb
<1>4. t \in Floats => Good(<<"gorilla", "zstd">>)
  BY <1>1, <1>2, OthersAccepted DEF Accepted
<1>5. t = "bytes" => Good(<<"zstd">>)
  BY <1>1, <1>2, OthersAccepted DEF Accepted
<1> HIDE DEF Good
<1>6. t \in Integral \/ t \in Floats \/ t = "bytes"
  BY DEF Types, Numeric
<1>7. CASE role = "offsets"
  <2>1. t \in Integral /\ DeltaLeb \in Candidates(role, t, xs)
    BY <1>7 DEF RoleFits, Candidates
  <2> QED BY <1>3, <2>1
<1>8. CASE role \in {"present", "tag", "indices"}
  <2>1. t \in Integral /\ Leb \in Candidates(role, t, xs)
    BY <1>8 DEF RoleFits, Candidates
  <2> QED BY <1>3, <2>1
<1>9. CASE role = "data"
  <2>1. t = "bytes" /\ <<"zstd">> \in Candidates(role, t, xs)
    BY <1>9 DEF RoleFits, Candidates
  <2> QED BY <1>5, <2>1
<1>10. CASE role \notin {"offsets", "present", "tag", "indices", "data"}
  <2>1. Candidates(role, t, xs) = DataCandidates(t, xs)
    BY <1>10 DEF Candidates
  <2>2. CASE t \in Integral
    <3>1. t \in {"i8", "i16", "i32", "i64", "u8", "u16", "u32", "u64"} /\ t \notin Floats
      BY <2>2, EncodingAssumption, CodersAssumption DEF Integral
    <3>2. Leb \in DataCandidates(t, xs)
      BY <3>1 DEF DataCandidates
    <3> QED BY <1>3, <2>1, <2>2, <3>2
  <2>3. CASE t \in Floats
    <3>1. t \in {"f32", "f64"}
      BY <2>3, EncodingAssumption
    <3>2. <<"gorilla", "zstd">> \in DataCandidates(t, xs)
      BY <2>3, <3>1 DEF DataCandidates
    <3> QED BY <1>4, <2>1, <2>3, <3>2
  <2>4. CASE t = "bytes"
    <3>1. t \notin Floats
      BY <2>4, CodersAssumption
    <3>2. <<"zstd">> \in DataCandidates(t, xs)
      BY <2>4, <3>1 DEF DataCandidates
    <3> QED BY <1>5, <2>1, <2>4, <3>2
  <2> QED BY <1>6, <2>2, <2>3, <2>4
<1> QED
  BY <1>7, <1>8, <1>9, <1>10

-----------------------------------------------------------------------------
(* No leaf is refused without a cause                                       *)

\* What holds on the way: whatever is not stated is accepted.
CauseInv ==
  /\ leaf \in Leaves
  /\ phase \in {"build", "built"} => Pipeline(stages)
  /\ phase = "build" /\ origin # "stated" =>
       Builds(Type, stages) /\ OutputType(Type, stages) = "bytes"
  /\ phase = "built" =>
       Builds(Type, stages) /\ (container = "he" => OutputType(Type, stages) = "bytes")
  /\ phase = "refused" => origin = "stated"
  /\ phase = "rejected" => Cause(Type, stages, container, column)

(* The role of a leaf says something of its type.                           *)
LEMMA LeafRoles == leaf \in Leaves => RoleFits(Role, Type)
BY EncodingAssumption DEF Role, Type, RoleFits

(* Inductive: Choose gets accepted pipelines unless they are stated, and what *)
(* Store does not store has a cause.                                        *)
LEMMA CauseStep == CauseInv /\ [Next]_vars => CauseInv'
<1> SUFFICES ASSUME CauseInv, [Next]_vars PROVE CauseInv'
  OBVIOUS
<1>0. leaf \in Leaves /\ Type \in Types /\ RoleFits(Role, Type)
  BY LeavesAre, LeafRoles DEF CauseInv
<1>1. ASSUME NEW where, NEW from, NEW p, Pipeline(p), from = "stated" \/ Accepted(Type, p),
             Choose(where, from, p)
      PROVE  CauseInv'
  <2>1. phase' = "build" /\ stages' = p /\ origin' = from /\ leaf' = leaf
    BY <1>1 DEF Choose
  <2>2. Pipeline(stages)' /\ Type' = Type
    BY <1>1, <2>1 DEF Type
  <2>3. origin' # "stated" => Builds(Type, stages)' /\ (OutputType(Type, stages) = "bytes")'
    BY <1>1, <2>1, <2>2 DEF Accepted
  <2> QED BY <1>0, <2>1, <2>2, <2>3 DEF CauseInv
<1>2. CASE ChooseStated
  BY <1>0, <1>1, <1>2, LeavesAre DEF ChooseStated
<1>3. CASE ChooseDefault
  <2>1. Accepted(Type, CodecDefault(Type)) /\ Accepted(Type, SchemaDefault(Role, Type))
    BY <1>0, DefaultsAccepted
  <2> QED BY <1>1, <1>3, <2>1 DEF ChooseDefault, Accepted
<1>4. CASE ChooseTyped
  <2>1. \A p \in TypedCodecs(Type) : Accepted(Type, p)
    BY <1>0, DefaultsAccepted
  <2> QED BY <1>1, <1>4, <2>1 DEF ChooseTyped, Accepted
<1>5. CASE Optimize
  <2>1. PICK sample \in Values[leaf] :
          \/ \E p \in Fitting(Role, Type, sample) : Choose("he", "optimizer", p)
          \/ Fitting(Role, Type, sample) = {}
    BY <1>5, Zenon DEF Optimize
  <2>2. Fits(sample, Type)
    BY <1>0, LeavesAre
  <2>3. Fitting(Role, Type, sample) # {}
    BY <1>0, <2>2, FittingFound
  <2>4. \A p \in Fitting(Role, Type, sample) : Accepted(Type, p)
    BY <1>0, FittingAccepted
  <2> QED BY <1>1, <2>1, <2>3, <2>4 DEF Accepted
<1>6. CASE Build
  <2>1. /\ phase = "build" /\ UNCHANGED << leaf, origin, stages, container, column >>
        /\ phase' = IF /\ Builds(Type, stages)
                       /\ container = "he" => OutputType(Type, stages) = "bytes"
                    THEN "built" ELSE "refused"
    BY <1>6 DEF Build
  <2>2. Type' = Type
    BY <2>1 DEF Type
  <2>3. CASE phase' = "built"
    <3>1. Builds(Type, stages)' /\ (container = "he" => OutputType(Type, stages) = "bytes")'
      BY <2>1, <2>2, <2>3
    <3>2. Pipeline(stages)'
      BY <2>1 DEF CauseInv
    <3> QED BY <1>0, <2>1, <2>3, <3>1, <3>2 DEF CauseInv
  <2>4. CASE phase' = "refused"
    <3>1. origin = "stated"
      BY <2>1, <2>4 DEF CauseInv
    <3> QED BY <1>0, <2>1, <2>4, <3>1 DEF CauseInv
  <2> QED BY <2>1, <2>3, <2>4
<1>7. CASE Store
  <2>1. PICK xs \in Values[leaf] : \E stored \in {Stored(xs)} :
          /\ column' = xs
          /\ IF stored = Fail THEN phase' = "rejected" /\ UNCHANGED buffer
             ELSE phase' = "stored" /\ buffer' = stored
    BY <1>7 DEF Store
  <2>2. /\ column' = xs
        /\ IF Stored(xs) = Fail THEN phase' = "rejected" /\ UNCHANGED buffer
           ELSE phase' = "stored" /\ buffer' = Stored(xs)
    BY <2>1
  <2>3. phase = "built" /\ UNCHANGED << leaf, origin, stages, container >>
    BY <1>7 DEF Store
  <2>4. Type' = Type
    BY <2>3 DEF Type
  <2>5. CASE Stored(xs) = Fail
    <3>1. Cause(Type, stages, container, xs)
      BY <1>0, <2>3, <2>5, StoredFails DEF CauseInv
    <3>2. Cause(Type, stages, container, column)'
      BY <2>2, <2>3, <2>4, <3>1
    <3> QED BY <1>0, <2>2, <2>3, <2>5, <3>2 DEF CauseInv
  <2>6. CASE Stored(xs) # Fail
    BY <1>0, <2>2, <2>3, <2>6 DEF CauseInv
  <2> QED BY <2>5, <2>6
<1>8. CASE CutOff
  BY <1>0, <1>8 DEF CutOff, CauseInv
<1>9. CASE Read
  BY <1>0, <1>9 DEF Read, CauseInv
<1>10. CASE UNCHANGED vars
  <2>1. UNCHANGED << phase, leaf, origin, stages, container, column >>
    BY <1>10 DEF vars
  <2>2. Type' = Type
    BY <2>1 DEF Type
  <2> QED BY <2>1, <2>2 DEF CauseInv
<1> QED
  BY <1>2, <1>3, <1>4, <1>5, <1>6, <1>7, <1>8, <1>9, <1>10 DEF Next

(* Only a stated pipeline is refused, and one that was built rejects values *)
(* only for the causes that RejectedForCause lists: no default rejects a value. *)
THEOREM EncodingRejectedForCause == Spec => []RejectedForCause
<1>1. Init => CauseInv
  BY DEF Init, CauseInv
<1>2. CauseInv /\ [Next]_vars => CauseInv'
  BY CauseStep
<1>3. CauseInv => RejectedForCause
  BY DEF CauseInv, RejectedForCause, Cause
<1> QED
  BY <1>1, <1>2, <1>3, PTL DEF Spec
=============================================================================
