-------------------------------- MODULE Coders --------------------------------
(***************************************************************************)
(* The coders of src/src/coders.  A coder turns a sequence of numbers of   *)
(* one type into one of another type, or fails.  All widths are scaled     *)
(* down: Width[t] bits for type t, ByteBits for a byte.  A float is its    *)
(* bit pattern.  A count that the code stores in a fixed number of bytes   *)
(* is one cell among the bytes of an output.                               *)
(***************************************************************************)
EXTENDS Integers, Sequences, FiniteSets, SequencesExt

CONSTANTS Width,     \* type -> its bits; "bytes" is no key
          Signed,    \* the signed integer types
          Unsigned,  \* the unsigned ones
          Floats,
          Sorted,    \* the types of elias_fano
          ByteBits, WordBits,
          MaxStages, \* the stages that fit the 255 bytes of a HEC0 header
          Fail

Integral == Signed \cup Unsigned

ASSUME CodersAssumption ==
  /\ WordBits \in Nat \ {0}
  /\ \A t \in Integral \cup Floats : Width[t] \in 2..WordBits
  /\ Signed \cap Unsigned = {}
  /\ Floats \cap Integral = {}
  /\ "bytes" \notin Integral \cup Floats
  /\ Sorted \subseteq Unsigned
  /\ ByteBits \in Nat /\ ByteBits >= 2
  /\ Fail \notin Seq(Int)

CeilDiv(a, b) == (a + b - 1) \div b
PowersOfTwo[n \in Nat] == IF n = 0 THEN 1 ELSE 2 * PowersOfTwo[n - 1]
Pow(n) == PowersOfTwo[n]

\* Rust's wrapping arithmetic: the number of type t that n stands for.
Wrap(n, t) == LET m == Pow(Width[t])
              IN IF t \in Signed THEN ((n + m \div 2) % m) - m \div 2 ELSE n % m
InRange(n, t) == Wrap(n, t) = n
Largest(t) == IF t \in Signed THEN Pow(Width[t] - 1) - 1 ELSE Pow(Width[t]) - 1

-----------------------------------------------------------------------------
(* Bits.  BitWriter and BitReader put the highest bit first, bitpack the    *)
(* lowest; the last byte is filled up with zeros.                           *)
Bits(n, count) == [i \in 1..count |-> (n \div Pow(count - i)) % 2]
Number(bits) ==
  LET high[i \in 0..Len(bits)] == IF i = 0 THEN 0 ELSE 2 * high[i - 1] + bits[i]
  IN high[Len(bits)]

Chunk(bits, i) ==
  [j \in 1..ByteBits |-> LET at == (i - 1) * ByteBits + j
                         IN IF at <= Len(bits) THEN bits[at] ELSE 0]
ToBytes(bits) ==
  [i \in 1..CeilDiv(Len(bits), ByteBits) |-> Number(Chunk(bits, i))]
FromBytes(bytes) ==
  FlattenSeq([i \in DOMAIN bytes |-> Bits(bytes[i], ByteBits)])

ToBytesLow(bits) ==
  [i \in 1..CeilDiv(Len(bits), ByteBits) |-> Number(Reverse(Chunk(bits, i)))]
FromBytesLow(bytes) ==
  FlattenSeq([i \in DOMAIN bytes |-> Reverse(Bits(bytes[i], ByteBits))])

-----------------------------------------------------------------------------
(* rle: pairs of a value and how often it stands; a run longer than its     *)
(* type can count is split.                                                 *)
\* Mutant: a run goes on as long as the value stays.
AnyRun(count, t) == TRUE
RoomInRun(count, t) == count < Largest(t)

AddToRuns(out, x, t) ==
  IF /\ out # <<>>
     /\ out[Len(out) - 1] = x
     /\ RoomInRun(out[Len(out)], t)
  THEN [out EXCEPT ![Len(out)] = Wrap(@ + 1, t)]
  ELSE out \o <<x, 1>>

RunLengths(xs, t) ==
  LET runs[i \in 0..Len(xs)] ==
        IF i = 0 THEN <<>> ELSE AddToRuns(runs[i - 1], xs[i], t)
  IN runs[Len(xs)]

RunsToValues(xs) ==
  IF Len(xs) % 2 = 1 \/ \E i \in 1..Len(xs) \div 2 : xs[2 * i] <= 0
  THEN Fail
  ELSE FlattenSeq([i \in 1..Len(xs) \div 2 |->
                     [j \in 1..xs[2 * i] |-> xs[2 * i - 1]]])

-----------------------------------------------------------------------------
(* delta, delta_of_delta and deltamin, all in wrapping arithmetic.          *)
\* Mutant: differences that do not wrap.
PlainDeltas(xs, t) ==
  [i \in DOMAIN xs |-> xs[i] - (IF i = 1 THEN 0 ELSE xs[i - 1])]
Deltas(xs, t) ==
  [i \in DOMAIN xs |-> Wrap(xs[i] - (IF i = 1 THEN 0 ELSE xs[i - 1]), t)]

RunningSums(xs, t) ==
  LET sum[i \in 0..Len(xs)] == IF i = 0 THEN 0 ELSE Wrap(sum[i - 1] + xs[i], t)
  IN [i \in DOMAIN xs |-> sum[i]]

DeltasOfDeltas(xs, t) == Deltas(Deltas(xs, t), t)
SumsOfSums(xs, t) == RunningSums(RunningSums(xs, t), t)

\* The minimum comes first, followed by how far the values are above it.
AboveMin(xs, t) ==
  LET least == CHOOSE m \in ToSet(xs) : \A x \in ToSet(xs) : m <= x
  IN IF xs = <<>> THEN <<>>
     ELSE << least >> \o [i \in DOMAIN xs |-> Wrap(xs[i] - least, t)]
MinAdded(xs, t) ==
  IF xs = <<>> THEN <<>>
  ELSE [i \in 1..Len(xs) - 1 |-> Wrap(xs[1] + xs[i + 1], t)]

-----------------------------------------------------------------------------
(* leb128: groups of all bits of a byte but one, the lowest first; the      *)
(* remaining bit says that another group follows.                           *)
Group == Pow(ByteBits - 1)
Place(i) == Pow((ByteBits - 1) * (i - 1))

LebBytes(n) ==
  LET groups == CHOOSE k \in 1..WordBits :
                  n < Place(k + 1) /\ (k = 1 \/ n >= Place(k))
  IN [i \in 1..groups |-> ((n \div Place(i)) % Group)
                            + (IF i < groups THEN Group ELSE 0)]
LebNumber(groups) ==
  LET value[i \in 0..Len(groups)] ==
        IF i = 0 THEN 0 ELSE value[i - 1] + (groups[i] % Group) * Place(i)
  IN value[Len(groups)] % Pow(WordBits)
TooLong(groups) == Len(groups) * (ByteBits - 1) >= WordBits

ZigZag(n) == IF n >= 0 THEN 2 * n ELSE -2 * n - 1
UnZigZag(u) == IF u % 2 = 0 THEN u \div 2 ELSE -((u + 1) \div 2)

ToLeb(xs, t) ==
  FlattenSeq([i \in DOMAIN xs |->
                LebBytes(IF t \in Signed THEN ZigZag(xs[i]) ELSE xs[i])])

ReadLeb(s, b) ==
  LET groups == Append(s.open, b)
  IN IF b < Group
     THEN [s EXCEPT !.out = Append(@, LebNumber(groups)), !.open = <<>>]
     ELSE [s EXCEPT !.open = groups, !.bad = @ \/ TooLong(groups)]

FromLeb(bytes, t) ==
  LET state[i \in 0..Len(bytes)] ==
        IF i = 0 THEN [out |-> <<>>, open |-> <<>>, bad |-> FALSE]
        ELSE ReadLeb(state[i - 1], bytes[i])
      read == state[Len(bytes)]
      values == [i \in DOMAIN read.out |->
                   IF t \in Signed THEN UnZigZag(read.out[i]) ELSE read.out[i]]
  IN IF \/ read.open # <<>> \/ read.bad
        \/ \E i \in DOMAIN values : ~InRange(values[i], t)
     THEN Fail ELSE values

-----------------------------------------------------------------------------
(* bitpack_fixed and bitpack_auto: the count, the width unless the schema   *)
(* declares it, and that many bits of every value.                          *)
BitsFor(max) == IF max = 0 THEN 0
                ELSE CHOOSE w \in 1..WordBits : Pow(w - 1) <= max /\ max < Pow(w)
MaxOf(xs) == IF xs = <<>> THEN 0
             ELSE CHOOSE m \in ToSet(xs) : \A x \in ToSet(xs) : x <= m

Pack(xs, w) ==
  ToBytesLow(FlattenSeq([i \in DOMAIN xs |-> Reverse(Bits(xs[i], w))]))
Unpack(bytes, count, w, t) ==
  LET bits == FromBytesLow(bytes)
      values == [i \in 1..count |->
                   Number(Reverse(SubSeq(bits, (i - 1) * w + 1, i * w)))]
  IN IF \/ Len(bytes) < CeilDiv(count * w, ByteBits)
        \/ \E i \in 1..count : ~InRange(values[i], t)
     THEN Fail ELSE values

PackFixed(xs, w) ==
  IF \E i \in DOMAIN xs : xs[i] < 0 \/ xs[i] >= Pow(w) THEN Fail
  ELSE << Len(xs) >> \o Pack(xs, w)
UnpackFixed(bytes, w, t) ==
  IF bytes = <<>> THEN Fail ELSE Unpack(Tail(bytes), bytes[1], w, t)

PackAuto(xs) ==
  IF \E i \in DOMAIN xs : xs[i] < 0 THEN Fail
  ELSE << Len(xs), BitsFor(MaxOf(xs)) >> \o Pack(xs, BitsFor(MaxOf(xs)))
UnpackAuto(bytes, t) ==
  IF Len(bytes) < 2 THEN Fail
  ELSE IF bytes[2] > WordBits THEN Fail
  ELSE Unpack(SubSeq(bytes, 3, Len(bytes)), bytes[1], bytes[2], t)

-----------------------------------------------------------------------------
(* elias_fano: the low bits of strictly increasing values as they are, the  *)
(* high ones as gaps in unary.                                              *)
Increasing(xs) == \A i \in 1..Len(xs) - 1 : xs[i] < xs[i + 1]

LowWidth(xs) == LET q == Last(xs) \div Len(xs)
                IN IF q = 0 THEN 0 ELSE BitsFor(q) - 1

Unary(gap) == [j \in 1..gap |-> 0] \o <<1>>

ToEliasFano(xs) ==
  IF xs = <<>> THEN <<0, 0, 0>>
  ELSE IF ~Increasing(xs) THEN Fail
  ELSE LET l == LowWidth(xs)
           High(i) == IF i = 0 THEN 0 ELSE xs[i] \div Pow(l)
           high == ToBytes(FlattenSeq([i \in DOMAIN xs |->
                                         Unary(High(i) - High(i - 1))]))
           low == ToBytes(FlattenSeq([i \in DOMAIN xs |->
                                        Bits(xs[i] % Pow(l), l)]))
       IN << Len(xs), l, Len(high) >> \o high \o low

\* A 0 is one more of the gap; a 1 ends it.
ReadGap(s, bit) == IF bit = 1 THEN [s EXCEPT !.out = Append(@, s.high)]
                   ELSE [s EXCEPT !.high = @ + 1]

Highs(bits) ==
  LET state[i \in 0..Len(bits)] ==
        IF i = 0 THEN [high |-> 0, out |-> <<>>] ELSE ReadGap(state[i - 1], bits[i])
  IN state[Len(bits)].out

FromEliasFano(bytes, t) ==
  IF Len(bytes) < 3 THEN Fail
  ELSE IF bytes[2] >= WordBits \/ Len(bytes) < 3 + bytes[3] THEN Fail
  ELSE LET n == bytes[1]
           l == bytes[2]
           highs == Highs(FromBytes(SubSeq(bytes, 4, 3 + bytes[3])))
           low == FromBytes(SubSeq(bytes, 4 + bytes[3], Len(bytes)))
           values == [i \in 1..n |->
                        highs[i] * Pow(l)
                          + Number(SubSeq(low, (i - 1) * l + 1, i * l))]
       IN IF Len(highs) < n \/ Len(low) < n * l THEN Fail
          ELSE IF \E i \in 1..n : ~InRange(values[i], t) THEN Fail
          ELSE values

-----------------------------------------------------------------------------
(* gorilla: the XOR with the value before, as the bits of a window.  A       *)
(* window is its leading and trailing zeros; it is used again while the      *)
(* XOR fits it.                                                              *)
FieldBits(t) == BitsFor(Width[t] - 1)
Xor(a, b, w) ==
  Number([i \in 1..w |-> (Bits(a, w)[i] + Bits(b, w)[i]) % 2])
LeadingZeros(n, w) == w - BitsFor(n)
TrailingZeros(n) == CHOOSE z \in 0..WordBits : n % Pow(z) = 0 /\ n % Pow(z + 1) # 0

OwnWindow(xor, w) == << LeadingZeros(xor, w), TrailingZeros(xor) >>
Meaningful(window, w) == w - window[1] - window[2]

Reuses(window, own) ==
  window # <<>> /\ own[1] >= window[1] /\ own[2] >= window[2]

Inside(xor, window, w) == Bits(xor \div Pow(window[2]), Meaningful(window, w))

\* What is written for one value, and the window that is then known.
Entry(xor, window, t) ==
  LET w == Width[t]
      own == OwnWindow(xor, w)
  IN IF xor = 0 THEN <<0>>
     ELSE IF Reuses(window, own) THEN <<1, 0>> \o Inside(xor, window, w)
     ELSE <<1, 1>> \o Bits(own[1], FieldBits(t))
            \o Bits(Meaningful(own, w) - 1, FieldBits(t)) \o Inside(xor, own, w)
NextWindow(xor, window, w) ==
  IF xor = 0 \/ Reuses(window, OwnWindow(xor, w)) THEN window ELSE OwnWindow(xor, w)

WriteXor(s, x, t) ==
  LET xor == Xor(s.prev, x, Width[t])
  IN [bits |-> s.bits \o Entry(xor, s.window, t),
      prev |-> x,
      window |-> NextWindow(xor, s.window, Width[t])]

ToGorilla(xs, t) ==
  LET state[i \in 0..Len(xs) - 1] ==
        IF i = 0 THEN [bits |-> Bits(xs[1], Width[t]), prev |-> xs[1], window |-> <<>>]
        ELSE WriteXor(state[i - 1], xs[i + 1], t)
  IN IF xs = <<>> THEN <<0>>
     ELSE << Len(xs) >> \o ToBytes(state[Len(xs) - 1].bits)

\* s.at counts the bits read.  A value that needs more bits than there are, or
\* a window before any is known, is an error.
BitField(bits, from, count) == Number(SubSeq(bits, from + 1, from + count))

Took(s, count, window, value) ==
  [at |-> s.at + count, window |-> window, bad |-> s.bad, out |-> Append(s.out, value)]

ReadInside(s, bits, read, window, w) ==
  LET count == Meaningful(window, w)
      xor == BitField(bits, s.at + read, count) * Pow(window[2])
  IN IF window[2] < 0 \/ s.at + read + count > Len(bits) THEN [s EXCEPT !.bad = TRUE]
     ELSE Took(s, read + count, window, Xor(Last(s.out), xor, w))

ReadXor(s, bits, t) ==
  LET w == Width[t]
      f == FieldBits(t)
      lz == BitField(bits, s.at + 2, f)
      length == BitField(bits, s.at + 2 + f, f) + 1
      Enough(count) == s.at + count <= Len(bits)
      Flag(n) == bits[s.at + n]
      bad == [s EXCEPT !.bad = TRUE]
  IN IF s.bad \/ ~Enough(1) THEN bad
     ELSE IF Flag(1) = 0
     THEN Took(s, 1, s.window, Last(s.out))
     ELSE IF ~Enough(2) THEN bad
     ELSE IF Flag(2) = 0 /\ s.window # <<>> THEN ReadInside(s, bits, 2, s.window, w)
     ELSE IF Flag(2) = 1 /\ Enough(2 + 2 * f)
     THEN ReadInside(s, bits, 2 + 2 * f, << lz, w - lz - length >>, w)
     ELSE bad

FromGorilla(bytes, t) ==
  LET w == Width[t]
      bits == FromBytes(Tail(bytes))
      state[i \in 0..bytes[1] - 1] ==
        IF i = 0 THEN [at |-> w, window |-> <<>>, bad |-> FALSE,
                       out |-> << BitField(bits, 0, w) >>]
        ELSE ReadXor(state[i - 1], bits, t)
      end == state[bytes[1] - 1]
  IN IF bytes = <<>> THEN Fail
     ELSE IF bytes[1] = 0 THEN <<>>
     ELSE IF Len(bits) < w \/ end.bad THEN Fail
     ELSE end.out
=============================================================================
