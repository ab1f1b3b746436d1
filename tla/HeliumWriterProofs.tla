------------------------- MODULE HeliumWriterProofs -------------------------
(***************************************************************************)
(* Proofs about HeliumWriter, for any schema, values, number of stripes    *)
(* and number of failed calls.  The sink only grows while the writer       *)
(* lives, and a recorded location is where the leaf went, so every         *)
(* recorded leaf keeps reading back with its CRC; a file opens only whole, *)
(* the writer implements StripeTable, and slices of it are faithful.       *)
(***************************************************************************)
EXTENDS HeliumWriter, SequenceLemmas

USE SchemaAssumption, ValueAssumption, FitsAssumption

-----------------------------------------------------------------------------
(* Sequences *)

(* A slice of a sequence is untouched by what is appended.                  *)
LEMMA SliceOfPrefix ==
  ASSUME NEW S, NEW s \in Seq(S), NEW t \in Seq(S), NEW a \in Nat, NEW l \in Nat,
         a + l <= Len(s)
  PROVE  Slice(s \o t, a, l) = Slice(s, a, l)
<1>1. Slice(s \o t, a, l) \in Seq(S) /\ Slice(s, a, l) \in Seq(S)
  BY DEF Slice
<1>2. Len(Slice(s \o t, a, l)) = l /\ Len(Slice(s, a, l)) = l
  BY DEF Slice
<1>3. ASSUME NEW i \in 1..l
      PROVE  Slice(s \o t, a, l)[i] = Slice(s, a, l)[i]
  BY <1>3 DEF Slice
<1> QED
  BY <1>1, <1>2, <1>3

(* What was appended is the slice that starts at the old end.               *)
LEMMA SliceOfSuffix ==
  ASSUME NEW S, NEW s \in Seq(S), NEW t \in Seq(S)
  PROVE  Slice(s \o t, Len(s), Len(t)) = t
<1>1. Slice(s \o t, Len(s), Len(t)) \in Seq(S)
  BY DEF Slice
<1>2. Len(Slice(s \o t, Len(s), Len(t))) = Len(t)
  BY DEF Slice
<1>3. ASSUME NEW i \in 1..Len(t)
      PROVE  Slice(s \o t, Len(s), Len(t))[i] = t[i]
  BY <1>3 DEF Slice
<1> QED
  BY <1>1, <1>2, <1>3

(* Appending to the sink keeps every leaf that was intact.                  *)
LEMMA AppendKeepsLeaf ==
  ASSUME NEW S, NEW s \in Seq(S), NEW t \in Seq(S), NEW loc \in Locations,
         LeafOK(s, loc)
  PROVE  LeafOK(s \o t, loc)
<1>1. loc.offset \in Nat /\ loc.length \in Nat
  BY DEF Locations
<1>2. BodyStart + loc.offset + loc.length <= Len(s \o t)
  BY <1>1 DEF LeafOK, BodyStart
<1>3. Slice(s \o t, BodyStart + loc.offset, loc.length)
        = Slice(s, BodyStart + loc.offset, loc.length)
  BY <1>1, SliceOfPrefix DEF LeafOK, BodyStart
<1> QED
  BY <1>2, <1>3 DEF LeafOK, Fetch

LEMMA FunctionIsSeq ==
  ASSUME NEW S, NEW n \in Nat, NEW f \in [1..n -> S]
  PROVE  f \in Seq(S)
OBVIOUS

(* An encoded leaf is a sequence of leaf cells.                             *)
LEMMA EncodeType ==
  ASSUME NEW c \in ColumnNames, NEW v \in Value, NEW j \in 1..NLeaves[c]
  PROVE  Encode(c, v, j) \in Seq(LeafCells)
<1>1. ToSet(Encode(c, v, j)) \subseteq LeafCells
  <2> DEFINE ofColumn(d, w) == UNION {ToSet(Encode(d, w, k)) : k \in 1..NLeaves[d]}
  <2>1. LeafCells = UNION {ofColumn(d, w) : d \in ColumnNames, w \in Value}
    BY DEF LeafCells
  <2>2. ToSet(Encode(c, v, j)) \subseteq ofColumn(c, v)
    OBVIOUS
  <2>3. ofColumn(c, v) \subseteq LeafCells
    <3> HIDE DEF ofColumn
    <3> QED BY <2>1
  <2> QED BY <2>2, <2>3
<1>2. EncLen[v] \in Nat
  BY ValueAssumption
<1>3. \A k \in 1..EncLen[v] : Encode(c, v, j)[k] \in LeafCells
  BY <1>1, <1>2 DEF ToSet, Encode
<1>4. Encode(c, v, j) \in [1..EncLen[v] -> LeafCells]
  BY <1>2, <1>3 DEF Encode
<1> QED
  BY <1>2, <1>4, FunctionIsSeq


(* A location recorded for a leaf that is being appended finds that leaf.   *)
LEMMA NewLeafOK ==
  ASSUME NEW S, NEW s \in Seq(S), NEW t \in Seq(S), Len(s) >= BodyStart
  PROVE  LeafOK(s \o t, Location(Len(s) - BodyStart, t))
<1> DEFINE loc == Location(Len(s) - BodyStart, t)
<1>1. BodyStart + loc.offset = Len(s) /\ loc.length = Len(t) /\ loc.crc32c = t
  BY DEF Location, BodyStart
<1>2. Len(s \o t) = Len(s) + Len(t)
  OBVIOUS
<1>3. Fetch(s \o t, loc) = t
  BY <1>1, SliceOfSuffix DEF Fetch
<1> QED
  BY <1>1, <1>2, <1>3 DEF LeafOK

-----------------------------------------------------------------------------
(* Type correctness *)

\* The preamble stays at the head of a live sink, and the call in progress has
\* not written more leaves than its column has.
HeadOK ==
  /\ status # "dead" => Len(disk) >= BodyStart /\ disk[1] \in [header : {0, 1}]
  /\ call # None => Len(phys_locs) <= NLeaves[call[1]]

TInv == TypeOK /\ HeadOK

LEMMA InitTInv == Init => TInv
<1> SUFFICES ASSUME Init PROVE TInv
  OBVIOUS
<1>1. PICK flags \in {0, 1} : disk = Preamble(flags, Columns)
  BY DEF Init
<1>2. /\ disk \in Seq(Cells)
      /\ Len(disk) = BodyStart
      /\ disk[1] \in [header : {0, 1}]
  BY <1>1 DEF Preamble, BodyStart, Cells
<1> QED
  <2>1. current_written \in [ColumnNames -> Seq(Locations) \cup {None}]
    BY DEF Init
  <2>2. stripes \in Seq(StripeIndexes) /\ phys_locs \in Seq(Locations)
    BY DEF Init
  <2>3. failures \in 0..MaxFailures
    BY BoundsAssumption DEF Init
  <2> QED BY <1>2, <2>1, <2>2, <2>3 DEF Init, TInv, TypeOK, HeadOK

(* The trailer of a live sink is made of cells.                             *)
LEMMA TrailerType ==
  ASSUME TInv, status # "dead", NEW idx \in Seq(StripeIndexes)
  PROVE  Trailer(disk[1].header, idx) \in Seq(Cells)
<1>1. disk[1].header \in {0, 1}
  BY DEF TInv, HeadOK
<1>2. /\ [footer |-> idx] \in Cells
      /\ [footer_len |-> FooterLen] \in Cells
      /\ [crc |-> idx] \in Cells
      /\ [header |-> disk[1].header] \in Cells
  BY <1>1 DEF Cells
<1> QED
  BY <1>2 DEF Trailer

(* The stripe that finish_stripe builds is well-typed.                      *)
LEMMA NewStripeType ==
  ASSUME TInv, AllWritten
  PROVE  NewStripe \in StripeIndexes
<1>1. ASSUME NEW i \in 1..Len(Columns)
      PROVE  current_written[Columns[i]] \in Seq(Locations)
  <2>1. Columns[i] \in ColumnNames
    BY DEF ColumnNames, ToSet
  <2> QED BY <2>1 DEF TInv, TypeOK, AllWritten
<1>2. Len(Columns) \in Nat
  OBVIOUS
<1>3. NewStripe.columns \in Seq(Seq(Locations))
  BY <1>1, <1>2 DEF NewStripe
<1>4. NewStripe.row_count \in Nat
  BY DEF NewStripe, TInv, TypeOK
<1> QED
  BY <1>3, <1>4 DEF NewStripe, StripeIndexes

(* What finish puts in the footer is well-typed.                            *)
LEMMA FinalStripesType ==
  ASSUME TInv, CanFinish
  PROVE  FinalStripes \in Seq(StripeIndexes)
BY NewStripeType DEF TInv, TypeOK, FinalStripes, CanFinish


(* Every step keeps the types.                                              *)
LEMMA StepTInv == TInv /\ [Next]_vars => TInv'
<1> SUFFICES ASSUME TInv, [Next]_vars PROVE TInv'
  OBVIOUS
<1> USE BoundsAssumption DEF TInv, TypeOK, HeadOK, callVars, memVars
<1>1. ASSUME NEW c \in ColumnNames, NEW v \in Value, BeginColumn(c, v)
      PROVE  TInv'
  BY <1>1 DEF BeginColumn, Accepted, Ready
<1>2. ASSUME NEW c \in ColumnNames, NEW v \in Value, ColumnRefused(c, v)
      PROVE  TInv'
  BY <1>2 DEF ColumnRefused, Accepted, Ready
<1>3. ASSUME WriteLeaf PROVE TInv'
  <2>1. NextLeaf \in Seq(LeafCells)
    BY <1>3, EncodeType DEF WriteLeaf, MoreLeaves, NextLeaf
  <2>2. disk' \in Seq(Cells) /\ Len(disk') >= Len(disk) /\ disk'[1] = disk[1]
    BY <1>3, <2>1 DEF WriteLeaf, Cells, BodyStart
  <2>3. Location(Offset, NextLeaf) \in Locations
    BY <1>3, <2>1 DEF WriteLeaf, Location, Locations, Offset, BodyStart
  <2>4. phys_locs' \in Seq(Locations) /\ Len(phys_locs') <= NLeaves[call[1]]
    BY <1>3, <2>3 DEF WriteLeaf, MoreLeaves
  <2> QED BY <1>3, <2>2, <2>4 DEF WriteLeaf, BodyStart
<1>4. ASSUME LeafFails PROVE TInv'
  <2>1. NextLeaf \in Seq(LeafCells)
    BY <1>4, EncodeType DEF LeafFails, MoreLeaves, NextLeaf
  <2>2. PICK torn \in 0..(Len(NextLeaf) - 1) :
          disk' = disk \o SubSeq(NextLeaf, 1, torn)
    BY <1>4 DEF LeafFails
  <2>3. SubSeq(NextLeaf, 1, torn) \in Seq(Cells)
    BY <2>1, <2>2 DEF Cells
  <2>4. disk' \in Seq(Cells) /\ Len(disk') >= Len(disk) /\ disk'[1] = disk[1]
    BY <1>4, <2>2, <2>3 DEF LeafFails, BodyStart
  <2> QED BY <1>4, <2>4 DEF LeafFails, BodyStart
<1>5. ASSUME ColumnWritten PROVE TInv'
  BY <1>5 DEF ColumnWritten
<1>6. ASSUME FinishStripe PROVE TInv'
  BY <1>6, NewStripeType DEF FinishStripe, Ready
<1>7. ASSUME Finish PROVE TInv'
  <2>1. Trailer(disk[1].header, FinalStripes) \in Seq(Cells)
    BY <1>7, TrailerType, FinalStripesType DEF Finish, Ready
  <2>2. disk' \in Seq(Cells) /\ Len(disk') >= Len(disk) /\ disk'[1] = disk[1]
    BY <1>7, <2>1 DEF Finish, Ready, BodyStart
  <2> QED BY <1>7, <2>2 DEF Finish, Ready, BodyStart
<1>8. ASSUME FinishFails PROVE TInv'
  <2>1. CASE ~CanFinish /\ disk' = disk
    BY <1>8, <2>1 DEF FinishFails, Ready
  <2>2. CASE CanFinish
    <3>1. Trailer(disk[1].header, FinalStripes) \in Seq(Cells)
      BY <1>8, <2>2, TrailerType, FinalStripesType DEF FinishFails, Ready
    <3>2. PICK n \in 0..(FooterLen + TrailerLen) :
            disk' = disk \o SubSeq(Trailer(disk[1].header, FinalStripes), 1, n)
      BY <1>8, <2>2 DEF FinishFails
    <3>3. SubSeq(Trailer(disk[1].header, FinalStripes), 1, n) \in Seq(Cells)
      BY <3>1, <3>2 DEF FooterLen, TrailerLen, Trailer
    <3>4. disk' \in Seq(Cells) /\ Len(disk') >= Len(disk) /\ disk'[1] = disk[1]
      BY <1>8, <3>2, <3>3 DEF FinishFails, Ready, BodyStart
    <3> QED BY <1>8, <3>4 DEF FinishFails, Ready, BodyStart
  <2> QED BY <1>8, <2>1, <2>2 DEF FinishFails
<1>9. ASSUME Die PROVE TInv'
  BY <1>9 DEF Die
<1>10. CASE UNCHANGED vars
  BY <1>10 DEF vars
<1> QED
  BY <1>1, <1>2, <1>3, <1>4, <1>5, <1>6, <1>7, <1>8, <1>9, <1>10 DEF Next

(* The sink and the index always have the shape the reader expects.         *)
THEOREM WriterType == Spec => []TypeOK
<1>1. TInv => TypeOK
  BY DEF TInv
<1> QED
  BY InitTInv, StepTInv, <1>1, PTL DEF Spec

-----------------------------------------------------------------------------
(* Every recorded leaf reads back                                           *)

LEMMA IndexedLocations ==
  ASSUME TInv, NEW s \in 1..Len(stripes), NEW i \in 1..Len(stripes[s].columns)
  PROVE  stripes[s].columns[i] \in Seq(Locations)
<1>1. stripes[s] \in StripeIndexes
  BY DEF TInv, TypeOK
<1>2. stripes[s].columns \in Seq(Seq(Locations))
  BY <1>1 DEF StripeIndexes
<1> QED
  BY <1>2

(* Whatever is appended to the sink, the leaves already recorded stay.      *)
LEMMA AppendKeepsLeaves ==
  ASSUME TInv, LeavesIntact, status # "dead", status' # "dead",
         NEW t \in Seq(Cells), disk' = disk \o t,
         UNCHANGED <<stripes, current_written, phys_locs>>
  PROVE  LeavesIntact'
<1>1. ASSUME NEW locs \in Seq(Locations), NEW j \in 1..Len(locs), LeafOK(disk, locs[j])
      PROVE  LeafOK(disk', locs[j])
  BY <1>1, AppendKeepsLeaf DEF TInv, TypeOK
<1>2. ASSUME NEW s \in 1..Len(stripes), NEW i \in 1..Len(stripes[s].columns)
      PROVE  stripes[s].columns[i] \in Seq(Locations)
  BY <1>2, IndexedLocations
<1>3. \A c \in ColumnNames : current_written[c] # None =>
        current_written[c] \in Seq(Locations)
  BY DEF TInv, TypeOK
<1>4. phys_locs \in Seq(Locations)
  BY DEF TInv, TypeOK
<1> QED
  BY <1>1, <1>2, <1>3, <1>4 DEF LeavesIntact

(* A location records where its leaf went, and the sink never loses or      *)
(* overwrites it: torn leaves of failed calls lie between the good ones.    *)
LEMMA StepLeavesIntact == TInv /\ LeavesIntact /\ [Next]_vars => LeavesIntact'
<1> SUFFICES ASSUME TInv, LeavesIntact, [Next]_vars PROVE LeavesIntact'
  OBVIOUS
<1> USE DEF callVars, memVars
<1>1. ASSUME NEW c \in ColumnNames, NEW v \in Value, BeginColumn(c, v)
      PROVE  LeavesIntact'
  BY <1>1 DEF BeginColumn, LeavesIntact, TInv, TypeOK
<1>2. ASSUME NEW c \in ColumnNames, NEW v \in Value, ColumnRefused(c, v)
      PROVE  LeavesIntact'
  BY <1>2 DEF ColumnRefused, LeavesIntact
<1>3. ASSUME WriteLeaf PROVE LeavesIntact'
  <2> DEFINE loc == Location(Offset, NextLeaf)
  <2>1. NextLeaf \in Seq(Cells)
    <3>1. NextLeaf \in Seq(LeafCells)
      BY <1>3, EncodeType DEF WriteLeaf, MoreLeaves, NextLeaf, TInv, TypeOK
    <3> QED BY <3>1 DEF Cells
  <2>2. LeafOK(disk', loc)
    BY <1>3, <2>1, NewLeafOK DEF WriteLeaf, Offset, TInv, TypeOK, HeadOK
  <2>3. ASSUME NEW l \in Locations, LeafOK(disk, l) PROVE LeafOK(disk', l)
    BY <1>3, <2>1, <2>3, AppendKeepsLeaf DEF WriteLeaf, TInv, TypeOK
  <2>4. \A j \in 1..Len(phys_locs') : LeafOK(disk', phys_locs'[j])
    BY <1>3, <2>2, <2>3 DEF WriteLeaf, LeavesIntact, TInv, TypeOK
  <2>5. \A c \in ColumnNames : current_written[c] # None =>
          \A j \in 1..Len(current_written[c]) : LeafOK(disk', current_written[c][j])
    BY <1>3, <2>3 DEF WriteLeaf, LeavesIntact, TInv, TypeOK
  <2>6. \A s \in 1..Len(stripes) : \A i \in 1..Len(stripes[s].columns) :
          \A j \in 1..Len(stripes[s].columns[i]) :
            LeafOK(disk', stripes[s].columns[i][j])
    <3>1. ASSUME NEW s \in 1..Len(stripes), NEW i \in 1..Len(stripes[s].columns),
                 NEW j \in 1..Len(stripes[s].columns[i])
          PROVE  LeafOK(disk', stripes[s].columns[i][j])
      <4>1. stripes[s].columns[i][j] \in Locations
        BY IndexedLocations
      <4>2. LeafOK(disk, stripes[s].columns[i][j])
        BY <1>3 DEF WriteLeaf, LeavesIntact
      <4> QED BY <2>3, <4>1, <4>2
    <3> QED BY <3>1
  <2> QED BY <1>3, <2>4, <2>5, <2>6 DEF WriteLeaf, LeavesIntact
<1>4. ASSUME LeafFails PROVE LeavesIntact'
  <2>1. NextLeaf \in Seq(Cells)
    <3>1. NextLeaf \in Seq(LeafCells)
      BY <1>4, EncodeType DEF LeafFails, MoreLeaves, NextLeaf, TInv, TypeOK
    <3> QED BY <3>1 DEF Cells
  <2>2. PICK torn \in 0..(Len(NextLeaf) - 1) :
          disk' = disk \o SubSeq(NextLeaf, 1, torn)
    BY <1>4 DEF LeafFails
  <2>3. SubSeq(NextLeaf, 1, torn) \in Seq(Cells)
    BY <2>1, <2>2
  <2>4. ASSUME NEW l \in Locations, LeafOK(disk, l) PROVE LeafOK(disk', l)
    BY <2>2, <2>3, <2>4, AppendKeepsLeaf DEF TInv, TypeOK
  <2>5. \A c \in ColumnNames : current_written[c] # None =>
          \A j \in 1..Len(current_written[c]) : LeafOK(disk', current_written[c][j])
    BY <1>4, <2>4 DEF LeafFails, LeavesIntact, TInv, TypeOK
  <2>6. \A s \in 1..Len(stripes) : \A i \in 1..Len(stripes[s].columns) :
          \A j \in 1..Len(stripes[s].columns[i]) :
            LeafOK(disk', stripes[s].columns[i][j])
    <3>1. ASSUME NEW s \in 1..Len(stripes), NEW i \in 1..Len(stripes[s].columns),
                 NEW j \in 1..Len(stripes[s].columns[i])
          PROVE  LeafOK(disk', stripes[s].columns[i][j])
      <4>1. stripes[s].columns[i][j] \in Locations
        <5>1. stripes[s].columns[i] \in Seq(Locations)
          BY IndexedLocations
        <5> QED BY <5>1
      <4>2. LeafOK(disk, stripes[s].columns[i][j])
        BY <1>4 DEF LeafFails, LeavesIntact
      <4> QED BY <2>4, <4>1, <4>2
    <3> QED BY <3>1
  <2> QED BY <1>4, <2>5, <2>6 DEF LeafFails, LeavesIntact
<1>5. ASSUME ColumnWritten PROVE LeavesIntact'
  <2>1. ASSUME NEW c \in ColumnNames, current_written'[c] # None
        PROVE  \A j \in 1..Len(current_written'[c]) : LeafOK(disk, current_written'[c][j])
    BY <1>5, <2>1 DEF ColumnWritten, LeavesIntact, TInv, TypeOK
  <2> QED BY <1>5, <2>1 DEF ColumnWritten, LeavesIntact
<1>6. ASSUME FinishStripe PROVE LeavesIntact'
  <2>1. \A i \in 1..Len(Columns) : Columns[i] \in ColumnNames
    OBVIOUS
  <2>2. \A i \in 1..Len(NewStripe.columns) : \A j \in 1..Len(NewStripe.columns[i]) :
          LeafOK(disk, NewStripe.columns[i][j])
    <3>1. NewStripe.columns = [i \in 1..Len(Columns) |-> current_written[Columns[i]]]
      BY DEF NewStripe
    <3>2. \A c \in ColumnNames : current_written[c] # None /\
            \A j \in 1..Len(current_written[c]) : LeafOK(disk, current_written[c][j])
      BY <1>6 DEF FinishStripe, Ready, AllWritten, LeavesIntact
    <3>3. Len(Columns) \in Nat
      BY SchemaAssumption
    <3>4. Len(NewStripe.columns) = Len(Columns)
      BY <3>1, <3>3
    <3> QED BY <2>1, <3>1, <3>2, <3>4
  <2>3. NewStripe \in StripeIndexes
    BY <1>6, NewStripeType DEF FinishStripe
  <2>4. \A s \in 1..Len(stripes') : \A i \in 1..Len(stripes'[s].columns) :
          \A j \in 1..Len(stripes'[s].columns[i]) :
            LeafOK(disk, stripes'[s].columns[i][j])
    <3>1. /\ stripes \in Seq(StripeIndexes)
          /\ stripes' = Append(stripes, NewStripe)
          /\ status # "dead"
      BY <1>6 DEF FinishStripe, Ready, TInv, TypeOK
    <3>2. \A s \in 1..Len(stripes') :
            \/ s \in 1..Len(stripes) /\ stripes'[s] = stripes[s]
            \/ stripes'[s] = NewStripe
      BY <2>3, <3>1
    <3> QED BY <2>2, <3>1, <3>2 DEF LeavesIntact
  <2> QED BY <1>6, <2>4 DEF FinishStripe, Ready, LeavesIntact
<1>7. ASSUME Finish PROVE LeavesIntact'
  BY <1>7, TrailerType, FinalStripesType, AppendKeepsLeaves DEF Finish, Ready
<1>8. ASSUME FinishFails PROVE LeavesIntact'
  <2>1. CASE ~CanFinish /\ disk' = disk
    BY <1>8, <2>1 DEF FinishFails, Ready, LeavesIntact
  <2>2. CASE CanFinish
    <3>1. Trailer(disk[1].header, FinalStripes) \in Seq(Cells)
      BY <1>8, <2>2, TrailerType, FinalStripesType DEF FinishFails, Ready
    <3>2. PICK n \in 0..(FooterLen + TrailerLen) :
            disk' = disk \o SubSeq(Trailer(disk[1].header, FinalStripes), 1, n)
      BY <1>8, <2>2 DEF FinishFails
    <3>3. SubSeq(Trailer(disk[1].header, FinalStripes), 1, n) \in Seq(Cells)
      BY <3>1, <3>2 DEF FooterLen, TrailerLen, Trailer
    <3> QED BY <1>8, <3>2, <3>3, AppendKeepsLeaves DEF FinishFails, Ready
  <2> QED BY <1>8, <2>1, <2>2 DEF FinishFails
<1>9. ASSUME Die PROVE LeavesIntact'
  BY <1>9 DEF Die, LeavesIntact
<1>10. CASE UNCHANGED vars
  BY <1>10 DEF vars, LeavesIntact
<1> QED
  BY <1>1, <1>2, <1>3, <1>4, <1>5, <1>6, <1>7, <1>8, <1>9, <1>10 DEF Next

(* While the sink is intact, every leaf the writer has recorded reads back  *)
(* from its location with its CRC, for any schema and any failures between. *)
THEOREM WriterLeavesIntact == Spec => []LeavesIntact
<1>1. Init => LeavesIntact
  BY DEF Init, LeavesIntact
<1> QED
  BY <1>1, InitTInv, StepTInv, StepLeavesIntact, PTL DEF Spec

-----------------------------------------------------------------------------
(* Truncation                                                               *)

\* None of the cells is a footer length.
Unsealed(cells) == \A i \in 1..Len(cells) : ~Holds(cells[i], "footer_len")

\* A footer length is never far from the end of the sink, and only a sink that
\* finish has written to has one.
TailOK ==
  /\ status \in {"open", "dead"} => Unsealed(disk)
  /\ \A i \in 1..Len(disk) : Holds(disk[i], "footer_len") => i >= Len(disk) - 2

(* No leaf is taken for a footer length.                                    *)
LEMMA LeafUnsealed ==
  ASSUME TypeOK, MoreLeaves
  PROVE  /\ NextLeaf \in Seq(Cells) /\ NextLeaf \in Seq(LeafCells)
         /\ Len(NextLeaf) \in Nat \ {0}
         /\ Unsealed(NextLeaf)
<1> DEFINE c == call[1]
           v == call[2]
           j == Len(phys_locs) + 1
<1>1. c \in ColumnNames /\ v \in Value /\ j \in 1..NLeaves[c]
  BY DEF TypeOK, MoreLeaves
<1>2. NextLeaf = Encode(c, v, j)
  BY DEF NextLeaf
<1> HIDE DEF c, v, j
<1>3. Encode(c, v, j) \in Seq(LeafCells)
  BY <1>1, EncodeType
<1>4. EncLen[v] \in Nat \ {0} /\ Len(Encode(c, v, j)) = EncLen[v]
  BY <1>1 DEF Encode
<1>5. \A k \in 1..EncLen[v] : Encode(c, v, j)[k] = [leaf |-> <<c, v, j, k>>]
  BY DEF Encode
<1>6. Unsealed(Encode(c, v, j))
  <2> SUFFICES ASSUME NEW k \in 1..EncLen[v] PROVE ~Holds(Encode(c, v, j)[k], "footer_len")
    BY <1>4 DEF Unsealed
  <2>1. \A x : DOMAIN [leaf |-> x] = {"leaf"}
    OBVIOUS
  <2>2. DOMAIN Encode(c, v, j)[k] = {"leaf"}
    BY <1>5, <2>1
  <2> QED BY <2>2 DEF Holds
<1> QED
  BY <1>2, <1>3, <1>4, <1>6 DEF Cells

(* What is appended to an unsealed sink while it is written.                *)
LEMMA ConcatUnsealed ==
  ASSUME NEW S, NEW s \in Seq(S), NEW t \in Seq(S), Unsealed(s), Unsealed(t)
  PROVE  Unsealed(s \o t)
<1> SUFFICES ASSUME NEW i \in 1..Len(s \o t) PROVE ~Holds((s \o t)[i], "footer_len")
  BY DEF Unsealed
<1>1. CASE i <= Len(s)
  <2>1. i \in 1..Len(s) /\ (s \o t)[i] = s[i]
    BY <1>1
  <2> QED BY <2>1 DEF Unsealed
<1>2. CASE i > Len(s)
  <2>1. i - Len(s) \in 1..Len(t) /\ (s \o t)[i] = t[i - Len(s)]
    BY <1>2
  <2> QED BY <2>1 DEF Unsealed
<1> QED
  BY <1>1, <1>2

LEMMA PrefixUnsealed ==
  ASSUME NEW S, NEW s \in Seq(S), NEW n \in 0..Len(s), Unsealed(s)
  PROVE  SubSeq(s, 1, n) \in Seq(S) /\ Unsealed(SubSeq(s, 1, n))
<1>1. SubSeq(s, 1, n) \in Seq(S) /\ Len(SubSeq(s, 1, n)) = n
  OBVIOUS
<1>2. \A i \in 1..n : SubSeq(s, 1, n)[i] = s[i]
  OBVIOUS
<1> QED
  BY <1>1, <1>2 DEF Unsealed

(* A file that opens has its footer length at the third cell from its end.  *)
LEMMA OpensHasTail ==
  ASSUME NEW S, NEW file \in Seq(S), Opens(file)
  PROVE  Len(file) - 2 \in 1..Len(file) /\ Holds(file[Len(file) - 2], "footer_len")
<1>1. Len(file) \in Nat /\ Len(file) >= BodyStart + TrailerLen
  BY DEF Opens
<1> QED
  BY <1>1 DEF Opens, BodyStart, TrailerLen

(* t is the first n cells of a trailer.                                     *)
TrailerPart(t, n, flags, idx) == t = SubSeq(Trailer(flags, idx), 1, n)

(* file is an unsealed sink s followed by the first n cells of a trailer.   *)
TornFile(file, S, s, t, n, flags, idx) ==
  /\ s \in Seq(S) /\ Unsealed(s)
  /\ t \in Seq(S) /\ n \in 0..4 /\ TrailerPart(t, n, flags, idx)
  /\ file = s \o t

(* The footer length of such a file is at most the third cell from its end, *)
(* so it does not open while the trailer is cut short.                      *)
LEMMA TrailerTail ==
  ASSUME NEW file, NEW S, NEW s, NEW t, NEW n, NEW flags, NEW idx,
         TornFile(file, S, s, t, n, flags, idx)
  PROVE  /\ Opens(file) => n = 4
         /\ \A i \in 1..Len(file) : Holds(file[i], "footer_len") => i >= Len(file) - 2
<1> DEFINE whole == Trailer(flags, idx)
<1>1. /\ s \in Seq(S) /\ Unsealed(s) /\ file = s \o t
      /\ t \in Seq(S) /\ n \in 0..4 /\ TrailerPart(t, n, flags, idx)
  BY DEF TornFile
<1>2. whole = <<[footer |-> idx], [footer_len |-> FooterLen], [crc |-> idx], [header |-> flags]>>
  BY DEF Trailer
<1>3. Len(t) = n /\ \A i \in 1..n : t[i] = whole[i]
  BY <1>1, <1>2 DEF TrailerPart
<1>4. \A i \in 1..n : Holds(t[i], "footer_len") => i = 2
  <2> SUFFICES ASSUME NEW i \in 1..n, i # 2 PROVE ~Holds(t[i], "footer_len")
    OBVIOUS
  <2>1. i \in {1, 3, 4} /\ t[i] = whole[i]
    BY <1>1, <1>3
  <2>2. t[i] = [footer |-> idx] \/ t[i] = [crc |-> idx] \/ t[i] = [header |-> flags]
    BY <1>2, <2>1
  <2>3. DOMAIN t[i] = {"footer"} \/ DOMAIN t[i] = {"crc"} \/ DOMAIN t[i] = {"header"}
    BY <2>2
  <2> HIDE DEF whole
  <2> QED BY <2>3 DEF Holds
<1>5. ASSUME NEW i \in 1..Len(s \o t), Holds((s \o t)[i], "footer_len")
      PROVE  i = Len(s) + 2
  <2>1. CASE i <= Len(s)
    <3>1. i \in 1..Len(s) /\ (s \o t)[i] = s[i]
      BY <1>1, <2>1
    <3> QED BY <1>1, <1>5, <3>1 DEF Unsealed
  <2>2. CASE i > Len(s)
    <3>1. i - Len(s) \in 1..n /\ (s \o t)[i] = t[i - Len(s)]
      BY <1>1, <1>3, <2>2
    <3>2. i - Len(s) = 2
      BY <1>4, <1>5, <3>1
    <3> QED BY <3>2
  <2> QED BY <2>1, <2>2
<1>6. Len(s \o t) = Len(s) + n /\ Len(s) \in Nat
  BY <1>1, <1>3, ConcatElements
<1>7. \A i \in 1..Len(s \o t) : i = Len(s) + 2 => i >= Len(s \o t) - 2
  BY <1>1, <1>6
<1>8. ASSUME Opens(s \o t) PROVE n = 4
  <2> DEFINE all == s \o t
  <2>1. all \in Seq(S) /\ Opens(all) /\ Len(all) = Len(s) + n
    BY <1>1, <1>6, <1>8, ConcatElements
  <2>2. \A i \in 1..Len(all) : Holds(all[i], "footer_len") => i = Len(s) + 2
    BY <1>5
  <2> HIDE DEF all
  <2>3. Len(all) - 2 \in 1..Len(all) /\ Holds(all[Len(all) - 2], "footer_len")
    BY <2>1, OpensHasTail
  <2>4. Len(all) - 2 = Len(s) + 2
    BY <2>2, <2>3
  <2> QED BY <1>1, <1>6, <2>1, <2>4
<1> QED
  <2>1. \A i \in 1..Len(s \o t) : Holds((s \o t)[i], "footer_len") => i >= Len(s \o t) - 2
    BY <1>5, <1>7
  <2> QED BY <1>1, <1>8, <2>1

LEMMA InitTailOK == Init => TailOK
<1> SUFFICES ASSUME Init PROVE TailOK
  OBVIOUS
<1>1. PICK flags \in {0, 1} : disk = <<[header |-> flags], [schema |-> Columns]>>
  BY DEF Init, Preamble
<1>2. Len(disk) = 2 /\ disk[1] = [header |-> flags] /\ disk[2] = [schema |-> Columns]
  BY <1>1
<1>3. DOMAIN disk[1] = {"header"} /\ DOMAIN disk[2] = {"schema"}
  BY <1>2
<1>4. Unsealed(disk)
  <2> SUFFICES ASSUME NEW i \in 1..Len(disk) PROVE ~Holds(disk[i], "footer_len")
    BY DEF Unsealed
  <2>1. i = 1 \/ i = 2
    BY <1>2
  <2> QED BY <1>3, <2>1 DEF Holds
<1> QED
  BY <1>4 DEF TailOK, Unsealed

(* Only finish puts a footer length into the sink, at its very end.         *)
LEMMA StepTailOK == TInv /\ TailOK /\ [Next]_vars => TailOK'
<1> SUFFICES ASSUME TInv, TailOK, [Next]_vars PROVE TailOK'
  OBVIOUS
<1>1. disk \in Seq(Cells) /\ TypeOK
  BY DEF TInv, TypeOK
<1>2. ASSUME disk' = disk, status \in {"open", "dead"} PROVE TailOK'
  BY <1>2 DEF TailOK, Unsealed
<1>3. ASSUME Unsealed(disk') PROVE TailOK'
  BY <1>3 DEF TailOK, Unsealed
<1>4. ASSUME NEW c \in ColumnNames, NEW v \in Value, BeginColumn(c, v) \/ ColumnRefused(c, v)
      PROVE  TailOK'
  BY <1>4, <1>2 DEF BeginColumn, ColumnRefused, Accepted, Ready
<1>5. ASSUME WriteLeaf PROVE TailOK'
  <2>1. NextLeaf \in Seq(Cells) /\ Unsealed(NextLeaf)
    BY <1>1, <1>5, LeafUnsealed DEF WriteLeaf
  <2>2. Unsealed(disk) /\ disk' = disk \o NextLeaf
    BY <1>5 DEF WriteLeaf, TailOK
  <2> QED BY <1>1, <1>3, <2>1, <2>2, ConcatUnsealed
<1>6. ASSUME LeafFails PROVE TailOK'
  <2>1. NextLeaf \in Seq(Cells) /\ Unsealed(NextLeaf) /\ Len(NextLeaf) \in Nat \ {0}
    BY <1>1, <1>6, LeafUnsealed DEF LeafFails
  <2>2. PICK torn \in 0..(Len(NextLeaf) - 1) :
          disk' = disk \o SubSeq(NextLeaf, 1, torn)
    BY <1>6 DEF LeafFails
  <2>3. torn \in 0..Len(NextLeaf)
    BY <2>1
  <2>4. SubSeq(NextLeaf, 1, torn) \in Seq(Cells) /\ Unsealed(SubSeq(NextLeaf, 1, torn))
    BY <2>1, <2>3, PrefixUnsealed
  <2>5. Unsealed(disk)
    BY <1>6 DEF LeafFails, TailOK
  <2> QED BY <1>1, <1>3, <2>2, <2>4, <2>5, ConcatUnsealed
<1>7. ASSUME ColumnWritten \/ FinishStripe PROVE TailOK'
  BY <1>7, <1>2 DEF ColumnWritten, FinishStripe, Ready
<1>8. ASSUME NEW n \in 0..(FooterLen + TrailerLen),
             disk' = disk \o SubSeq(Trailer(disk[1].header, FinalStripes), 1, n),
             CanFinish, status = "open", status' \in {"finished", "failed"}
      PROVE  TailOK'
  <2> DEFINE flags == disk[1].header
             idx == FinalStripes
             t == SubSeq(Trailer(flags, idx), 1, n)
  <2>1. Trailer(disk[1].header, FinalStripes) \in Seq(Cells)
    BY <1>8, TrailerType, FinalStripesType
  <2>2. t \in Seq(Cells)
    BY <1>8, <2>1 DEF FooterLen, TrailerLen, Trailer
  <2>3. Unsealed(disk)
    BY <1>8 DEF TailOK
  <2>4. TrailerPart(t, n, flags, idx)
    BY DEF TrailerPart
  <2>5. disk' = disk \o t
    BY <1>8
  <2> HIDE DEF flags, idx, t
  <2>6. \A i \in 1..Len(disk \o t) : Holds((disk \o t)[i], "footer_len") => i >= Len(disk \o t) - 2
    <3>1. n \in 0..4
      BY <1>8 DEF FooterLen, TrailerLen
    <3>2. TornFile(disk \o t, Cells, disk, t, n, flags, idx)
      BY <1>1, <2>2, <2>3, <2>4, <3>1 DEF TornFile
    <3> QED BY <3>2, TrailerTail
  <2> QED BY <1>8, <2>5, <2>6 DEF TailOK
<1>9. ASSUME Finish PROVE TailOK'
  <2> DEFINE whole == Trailer(disk[1].header, FinalStripes)
  <2>1. Len(whole) = FooterLen + TrailerLen /\ whole = SubSeq(whole, 1, FooterLen + TrailerLen)
    BY DEF Trailer, FooterLen, TrailerLen
  <2>2. disk' = disk \o whole /\ status = "open" /\ status' = "finished" /\ CanFinish
    BY <1>9 DEF Finish, Ready
  <2>3. FooterLen + TrailerLen \in 0..(FooterLen + TrailerLen)
    BY DEF FooterLen, TrailerLen
  <2> QED BY <1>8, <2>1, <2>2, <2>3
<1>10. ASSUME FinishFails PROVE TailOK'
  <2>1. CASE disk' = disk
    BY <1>10, <1>2, <2>1 DEF FinishFails, Ready
  <2>2. CASE CanFinish /\ \E n \in 0..(FooterLen + TrailerLen) :
               disk' = disk \o SubSeq(Trailer(disk[1].header, FinalStripes), 1, n)
    BY <1>8, <1>10, <2>2 DEF FinishFails, Ready
  <2> QED BY <1>10, <2>1, <2>2 DEF FinishFails
<1>11. ASSUME Die PROVE TailOK'
  <2>1. PICK n \in 0..Len(disk) : disk' = SubSeq(disk, 1, n)
    BY <1>11 DEF Die
  <2>2. Unsealed(disk)
    BY <1>11 DEF Die, TailOK
  <2> QED BY <1>1, <1>3, <2>1, <2>2, PrefixUnsealed
<1>12. CASE UNCHANGED vars
  BY <1>12 DEF vars, TailOK, Unsealed
<1> QED
  BY <1>4, <1>5, <1>6, <1>7, <1>9, <1>10, <1>11, <1>12 DEF Next

(* A file that was cut short is rejected, wherever the cut fell, whatever   *)
(* the writer did before and however finish failed.                         *)
THEOREM WriterTruncationDetected == Spec => []TruncationDetected
<1>1. ASSUME TInv, TailOK PROVE TruncationDetected
  <2>1. disk \in Seq(Cells) /\ Len(disk) \in Nat
    BY <1>1 DEF TInv, TypeOK
  <2>2. ASSUME NEW n \in 0..(Len(disk) - 1), Opens(SubSeq(disk, 1, n)) PROVE FALSE
    <3> DEFINE cut == SubSeq(disk, 1, n)
    <3>1. cut \in Seq(Cells) /\ Len(cut) = n
      BY <2>1
    <3>2. \A i \in 1..n : i \in 1..Len(disk) /\ cut[i] = disk[i]
      BY <2>1
    <3> HIDE DEF cut
    <3>3. n - 2 \in 1..n /\ Holds(cut[n - 2], "footer_len")
      BY <2>2, <3>1, OpensHasTail DEF cut
    <3>4. n - 2 \in 1..Len(disk) /\ Holds(disk[n - 2], "footer_len")
      BY <3>2, <3>3
    <3>5. n - 2 >= Len(disk) - 2
      BY <1>1, <3>4 DEF TailOK
    <3> QED BY <2>1, <3>5
  <2>3. ASSUME status \in {"open", "dead"}, Opens(disk) PROVE FALSE
    <3>1. Len(disk) - 2 \in 1..Len(disk) /\ Holds(disk[Len(disk) - 2], "footer_len")
      BY <2>1, <2>3, OpensHasTail
    <3> QED BY <1>1, <2>3, <3>1 DEF TailOK, Unsealed
  <2> QED BY <2>2, <2>3 DEF TruncationDetected
<1> QED
  BY <1>1, InitTInv, StepTInv, InitTailOK, StepTailOK, PTL DEF Spec

-----------------------------------------------------------------------------
(* What the index records                                                   *)

\* The locations are those of the leaves of value v in column c.
Records(c, locs, v) ==
  /\ Len(locs) = NLeaves[c]
  /\ \A j \in 1..Len(locs) : locs[j].crc32c = Encode(c, v, j)

\* The value they record; it does not depend on the sink.
Recorded(c, locs, rows) == CHOOSE v \in Value : Records(c, locs, v) /\ RowsOf[v] = rows

\* They record a value of that many rows.
HasRecord(c, locs, rows) == \E v \in Value : Records(c, locs, v) /\ RowsOf[v] = rows

(* A leaf tells which value it was made of.                                 *)
LEMMA EncodeTells ==
  ASSUME NEW c \in ColumnNames, NEW v \in Value, NEW w \in Value,
         Encode(c, v, 1) = Encode(c, w, 1)
  PROVE  v = w
<1>1. EncLen[v] \in Nat \ {0} /\ EncLen[w] \in Nat \ {0}
  OBVIOUS
<1>2. Encode(c, v, 1)[1] = [leaf |-> <<c, v, 1, 1>>] /\ Encode(c, w, 1)[1] = [leaf |-> <<c, w, 1, 1>>]
  BY <1>1 DEF Encode
<1>3. <<c, v, 1, 1>> = <<c, w, 1, 1>>
  BY <1>2
<1> QED
  BY <1>3

LEMMA RecordUnique ==
  ASSUME NEW c \in ColumnNames, NEW locs, NEW v \in Value, NEW rows,
         Records(c, locs, v), RowsOf[v] = rows
  PROVE  Recorded(c, locs, rows) = v
<1>1. NLeaves[c] \in Nat \ {0}
  OBVIOUS
<1>2. 1 \in 1..Len(locs)
  BY <1>1 DEF Records
<1>3. ASSUME NEW w \in Value, Records(c, locs, w) PROVE w = v
  BY <1>2, <1>3, EncodeTells DEF Records
<1> QED
  BY <1>3 DEF Recorded

(* Intact leaves read back as the value they record.                        *)
LEMMA PieceIs ==
  ASSUME NEW file, NEW c \in ColumnNames, NEW locs, NEW rows, HasRecord(c, locs, rows),
         \A j \in 1..Len(locs) : LeafOK(file, locs[j])
  PROVE  ReadPiece(file, c, locs, rows) = Recorded(c, locs, rows) /\ Recorded(c, locs, rows) \in Value
<1>1. PICK v \in Value : Records(c, locs, v) /\ RowsOf[v] = rows
  BY DEF HasRecord
<1>2. Recorded(c, locs, rows) = v
  BY <1>1, RecordUnique
<1> DEFINE vs == {w \in Value :
               /\ RowsOf[w] = rows
               /\ \A j \in 1..Len(locs) :
                    LeafOK(file, locs[j]) /\ Fetch(file, locs[j]) = Encode(c, w, j)}
<1>3. \A j \in 1..Len(locs) : Fetch(file, locs[j]) = Encode(c, v, j)
  BY <1>1 DEF Records, LeafOK
<1>4. v \in vs
  BY <1>1, <1>3
<1>5. ASSUME NEW w \in vs PROVE w = v
  <2>1. 1 \in 1..Len(locs)
    <3>1. NLeaves[c] \in Nat \ {0} /\ Len(locs) = NLeaves[c]
      BY <1>1 DEF Records
    <3> QED BY <3>1
  <2>2. Encode(c, w, 1) = Encode(c, v, 1) /\ w \in Value
    BY <1>3, <2>1
  <2> QED BY <2>2, EncodeTells
<1>6. ReadPiece(file, c, locs, rows) = IF vs = {} THEN None ELSE CHOOSE w \in vs : TRUE
  BY DEF ReadPiece
<1> HIDE DEF vs
<1>7. ReadPiece(file, c, locs, rows) = v
  BY <1>4, <1>5, <1>6
<1> QED
  BY <1>2, <1>7

\* Every column of the stripe is recorded with the stripe's row count.
StripeOK(stripe) ==
  /\ Len(stripe.columns) = Len(Columns)
  /\ \A i \in 1..Len(Columns) : HasRecord(Columns[i], stripe.columns[i], stripe.row_count)

\* Where a column is in the schema.
Position(c) == CHOOSE k \in 1..Len(Columns) : Columns[k] = c

\* The stripe that is recorded.
StripeOf(stripe) ==
  [c \in ColumnNames |-> Recorded(c, stripe.columns[Position(c)], stripe.row_count)]

\* All its leaves are in the file.
StripeIntact(file, stripe) ==
  \A i \in 1..Len(stripe.columns) : \A j \in 1..Len(stripe.columns[i]) :
    LeafOK(file, stripe.columns[i][j])

LEMMA PositionOf ==
  ASSUME NEW c \in ColumnNames
  PROVE  Position(c) \in 1..Len(Columns) /\ Columns[Position(c)] = c
<1>1. \E k \in 1..Len(Columns) : Columns[k] = c
  BY DEF ColumnNames, ToSet
<1> QED
  BY <1>1 DEF Position

LEMMA StripeIs ==
  ASSUME NEW file, NEW stripe, StripeOK(stripe), StripeIntact(file, stripe)
  PROVE  ReadStripe(file, stripe, Columns) = StripeOf(stripe)
<1>1. ASSUME NEW c \in ColumnNames
      PROVE  ReadPiece(file, c, stripe.columns[Position(c)], stripe.row_count)
               = Recorded(c, stripe.columns[Position(c)], stripe.row_count)
  <2> DEFINE locs == stripe.columns[Position(c)]
  <2>1. Position(c) \in 1..Len(Columns) /\ Columns[Position(c)] = c
    BY PositionOf
  <2>2. HasRecord(c, locs, stripe.row_count) /\ \A j \in 1..Len(locs) : LeafOK(file, locs[j])
    BY <2>1 DEF StripeOK, StripeIntact
  <2> HIDE DEF locs
  <2>3. ReadPiece(file, c, locs, stripe.row_count) = Recorded(c, locs, stripe.row_count)
    BY <2>2, PieceIs
  <2> QED BY <2>3 DEF locs
<1>2. ReadStripe(file, stripe, Columns)
        = [c \in ColumnNames |-> ReadPiece(file, c, stripe.columns[Position(c)], stripe.row_count)]
  BY DEF ReadStripe, Position, ColumnNames
<1> QED
  BY <1>1, <1>2 DEF StripeOf

\* While the writer is open, everything it has recorded is what its calls wrote;
\* the column being written is not recorded yet.
ContentInv ==
  status = "open" =>
    /\ disk[2] = [schema |-> Columns]
    /\ \A c \in ColumnNames : current_written[c] # None =>
         HasRecord(c, current_written[c], current_row_count)
    /\ call # None =>
         /\ current_written[call[1]] = None
         /\ current_row_count = RowsOf[call[2]]
         /\ \A j \in 1..Len(phys_locs) : phys_locs[j].crc32c = Encode(call[1], call[2], j)
    /\ \A s \in 1..Len(stripes) : StripeOK(stripes[s])

USE NoneAssumption

LEMMA InitContentInv == Init => ContentInv
<1> SUFFICES ASSUME Init PROVE ContentInv
  OBVIOUS
<1>1. PICK flags \in {0, 1} : disk = <<[header |-> flags], [schema |-> Columns]>>
  BY DEF Init, Preamble
<1>2. disk[2] = [schema |-> Columns]
  BY <1>1
<1> QED
  BY <1>2 DEF Init, ContentInv

(* A column that is written has the row count of the stripe.                *)
LEMMA WrittenCount ==
  ASSUME TInv, ContentInv, status = "open",
         NEW c \in ColumnNames, current_written[c] # None
  PROVE  current_row_count \in Nat /\ current_row_count # None
<1>1. PICK v \in Value : RowsOf[v] = current_row_count
  BY DEF ContentInv, HasRecord
<1> QED
  BY <1>1

LEMMA SchemaHasColumn == \E c \in ColumnNames : TRUE
<1>1. Len(Columns) \in Nat \ {0}
  OBVIOUS
<1>2. Columns[1] \in ColumnNames
  BY <1>1 DEF ColumnNames, ToSet
<1> QED
  BY <1>2

(* The stripe that is committed records what was written into it.           *)
LEMMA NewStripeOK ==
  ASSUME TInv, ContentInv, status = "open", AllWritten
  PROVE  /\ StripeOK(NewStripe)
         /\ NewStripe.row_count = current_row_count
         /\ \A i \in 1..Len(Columns) : NewStripe.columns[i] = current_written[Columns[i]]
         /\ Len(NewStripe.columns) = Len(Columns)
<1>1. current_row_count # None
  BY SchemaHasColumn, WrittenCount DEF AllWritten
<1>2. NewStripe.row_count = current_row_count
  BY <1>1 DEF NewStripe
<1>3. Len(Columns) \in Nat /\ \A i \in 1..Len(Columns) : Columns[i] \in ColumnNames
  OBVIOUS
<1>4. /\ \A i \in 1..Len(Columns) : NewStripe.columns[i] = current_written[Columns[i]]
      /\ Len(NewStripe.columns) = Len(Columns)
  BY <1>3 DEF NewStripe
<1>5. \A c \in ColumnNames : HasRecord(c, current_written[c], current_row_count)
  BY DEF AllWritten, ContentInv
<1>6. StripeOK(NewStripe)
  BY <1>2, <1>3, <1>4, <1>5 DEF StripeOK
<1> QED
  BY <1>2, <1>4, <1>6

(* What is appended to the sink leaves the schema slot where it is.         *)
LEMMA AppendKeepsHead ==
  ASSUME TInv, status # "dead", NEW t \in Seq(Cells)
  PROVE  (disk \o t)[1] = disk[1] /\ (disk \o t)[2] = disk[2]
BY DEF TInv, TypeOK, HeadOK, BodyStart

(* A call records its column only when all its leaves are written, under    *)
(* the row count it has claimed.                                            *)
LEMMA StepContentInv == TInv /\ ContentInv /\ [Next]_vars => ContentInv'
<1> SUFFICES ASSUME TInv, ContentInv, [Next]_vars, status' = "open" PROVE ContentInv'
  BY DEF ContentInv
<1>1. ASSUME NEW c \in ColumnNames, NEW v \in Value, Accepted(c, v),
             current_row_count' = RowsOf[v], UNCHANGED <<disk, current_written, stripes>>
      PROVE  /\ (disk[2] = [schema |-> Columns])'
             /\ (\A d \in ColumnNames : current_written[d] # None =>
                   HasRecord(d, current_written[d], current_row_count))'
             /\ (\A s \in 1..Len(stripes) : StripeOK(stripes[s]))'
  <2>1. status = "open"
    BY <1>1 DEF Accepted, Ready
  <2>2. \A d \in ColumnNames : current_written[d] # None => current_row_count' = current_row_count
    BY <1>1, <2>1, WrittenCount DEF Accepted
  <2> QED BY <1>1, <2>1, <2>2 DEF ContentInv
<1>2. ASSUME NEW c \in ColumnNames, NEW v \in Value, BeginColumn(c, v)
      PROVE  ContentInv'
  <2>1. /\ Accepted(c, v) /\ current_row_count' = RowsOf[v]
        /\ UNCHANGED <<disk, current_written, stripes>>
        /\ call' = <<c, v>> /\ phys_locs' = <<>>
    BY <1>2 DEF BeginColumn
  <2>2. current_written'[c] = None /\ call'[1] = c /\ call'[2] = v
    BY <2>1 DEF Accepted
  <2>3. \A j \in 1..Len(phys_locs') : FALSE
    BY <2>1
  <2> QED BY <1>1, <2>1, <2>2, <2>3 DEF ContentInv
<1>3. ASSUME NEW c \in ColumnNames, NEW v \in Value, ColumnRefused(c, v)
      PROVE  ContentInv'
  <2>1. /\ Accepted(c, v) /\ current_row_count' = RowsOf[v]
        /\ UNCHANGED <<disk, current_written, stripes>>
        /\ call' = None
    BY <1>3 DEF ColumnRefused, callVars, Accepted, Ready
  <2> QED BY <1>1, <2>1 DEF ContentInv
<1>4. ASSUME WriteLeaf PROVE ContentInv'
  <2>1. /\ status = "open" /\ MoreLeaves
        /\ disk' = disk \o NextLeaf
        /\ phys_locs' = Append(phys_locs, Location(Offset, NextLeaf))
        /\ UNCHANGED <<current_written, call, current_row_count, stripes>>
    BY <1>4 DEF WriteLeaf
  <2>2. disk'[2] = disk[2]
    <3>1. NextLeaf \in Seq(Cells)
      BY <2>1, LeafUnsealed DEF TInv
    <3> QED BY <2>1, <3>1, AppendKeepsHead
  <2>3. \A j \in 1..Len(phys_locs') : phys_locs'[j].crc32c = Encode(call[1], call[2], j)
    <3> DEFINE loc == Location(Offset, NextLeaf)
    <3>1. phys_locs \in Seq(Locations)
      BY DEF TInv, TypeOK
    <3>2. loc.crc32c = Encode(call[1], call[2], Len(phys_locs) + 1)
      BY DEF Location, NextLeaf
    <3>3. \A j \in 1..Len(phys_locs) : phys_locs[j].crc32c = Encode(call[1], call[2], j)
      BY <2>1 DEF ContentInv, MoreLeaves
    <3> HIDE DEF loc
    <3>4. \A j \in 1..Len(phys_locs') :
            \/ j \in 1..Len(phys_locs) /\ phys_locs'[j] = phys_locs[j]
            \/ j = Len(phys_locs) + 1 /\ phys_locs'[j] = loc
      BY <2>1, <3>1 DEF loc
    <3> QED BY <3>2, <3>3, <3>4
  <2> QED BY <2>1, <2>2, <2>3 DEF ContentInv
<1>5. ASSUME LeafFails PROVE ContentInv'
  <2>1. /\ status = "open" /\ MoreLeaves /\ call' = None
        /\ UNCHANGED <<current_written, current_row_count, stripes>>
    BY <1>5 DEF LeafFails
  <2>2. PICK torn \in 0..(Len(NextLeaf) - 1) :
          disk' = disk \o SubSeq(NextLeaf, 1, torn)
    BY <1>5 DEF LeafFails
  <2>3. NextLeaf \in Seq(Cells)
    BY <2>1, LeafUnsealed DEF TInv
  <2>4. SubSeq(NextLeaf, 1, torn) \in Seq(Cells)
    BY <2>2, <2>3
  <2>5. disk'[2] = disk[2]
    BY <2>1, <2>2, <2>4, AppendKeepsHead
  <2> QED BY <2>1, <2>5 DEF ContentInv
<1>6. ASSUME ColumnWritten PROVE ContentInv'
  <2> DEFINE c == call[1]
             v == call[2]
  <2>1. /\ status = "open" /\ call # None /\ Len(phys_locs) = NLeaves[c]
        /\ current_written' = [current_written EXCEPT ![c] = phys_locs]
        /\ call' = None
        /\ UNCHANGED <<disk, current_row_count, stripes>>
    BY <1>6 DEF ColumnWritten
  <2>2. c \in ColumnNames /\ v \in Value
    BY <2>1 DEF TInv, TypeOK
  <2>3. HasRecord(c, phys_locs, current_row_count)
    BY <2>1, <2>2 DEF HasRecord, Records, ContentInv
  <2>4. \A d \in ColumnNames :
          current_written'[d] = IF d = c THEN phys_locs ELSE current_written[d]
    BY <2>1, <2>2 DEF TInv, TypeOK
  <2> HIDE DEF c, v
  <2> QED BY <2>1, <2>3, <2>4 DEF ContentInv
<1>7. ASSUME FinishStripe PROVE ContentInv'
  <2>1. /\ status = "open" /\ call = None /\ AllWritten
        /\ stripes' = Append(stripes, NewStripe)
        /\ current_written' = [d \in ColumnNames |-> None]
        /\ call' = None /\ disk' = disk
    BY <1>7 DEF FinishStripe, Ready, callVars
  <2>2. StripeOK(NewStripe)
    BY <2>1, NewStripeOK
  <2>3. \A s \in 1..Len(stripes') : StripeOK(stripes'[s])
    <3>1. stripes \in Seq(StripeIndexes)
      BY DEF TInv, TypeOK
    <3>2. \A s \in 1..Len(stripes') :
            \/ s \in 1..Len(stripes) /\ stripes'[s] = stripes[s]
            \/ stripes'[s] = NewStripe
      BY <2>1, <3>1
    <3> QED BY <2>1, <2>2, <3>2 DEF ContentInv
  <2> QED BY <2>1, <2>3 DEF ContentInv
<1>8. ASSUME Finish \/ FinishFails \/ Die PROVE ContentInv'
  BY <1>8 DEF Finish, FinishFails, Die
<1>9. CASE UNCHANGED vars
  BY <1>9 DEF vars, ContentInv
<1> QED
  BY <1>2, <1>3, <1>4, <1>5, <1>6, <1>7, <1>8, <1>9 DEF Next

-----------------------------------------------------------------------------
(* The writer implements the table of stripes                               *)

WriterInv == TInv /\ LeavesIntact /\ TailOK /\ ContentInv

LEMMA InitWriterInv == Init => WriterInv
<1>1. Init => LeavesIntact
  BY DEF Init, LeavesIntact
<1> QED
  BY <1>1, InitTInv, InitTailOK, InitContentInv DEF WriterInv

LEMMA StepWriterInv == WriterInv /\ [Next]_vars => WriterInv'
  BY StepTInv, StepLeavesIntact, StepTailOK, StepContentInv DEF WriterInv

\* What the table holds, told from the index alone: no bytes are read.
IndexCommitted == [s \in 1..Len(stripes) |-> StripeOf(stripes[s])]
IndexOpen ==
  [c \in ColumnNames |->
     IF current_written[c] = None THEN None
     ELSE Recorded(c, current_written[c], current_row_count)]

(* A live sink does not open.                                               *)
LEMMA LiveSinkClosed == WriterInv /\ status \in {"open", "dead"} => ~Opens(disk)
<1> SUFFICES ASSUME WriterInv, status \in {"open", "dead"}, Opens(disk) PROVE FALSE
  OBVIOUS
<1>1. disk \in Seq(Cells)
  BY DEF WriterInv, TInv, TypeOK
<1>2. Len(disk) - 2 \in 1..Len(disk) /\ Holds(disk[Len(disk) - 2], "footer_len")
  BY <1>1, OpensHasTail
<1> QED
  BY <1>2 DEF WriterInv, TailOK, Unsealed

(* While the writer is open, the sink's bytes say what the index says.      *)
LEMMA OpenTable ==
  WriterInv /\ status = "open" =>
    /\ TableCommitted = IndexCommitted
    /\ TableOpen = IndexOpen
    /\ TableStatus = "writing"
<1> SUFFICES ASSUME WriterInv, status = "open"
             PROVE  /\ TableCommitted = IndexCommitted
                    /\ TableOpen = IndexOpen
                    /\ TableStatus = "writing"
  OBVIOUS
<1>1. ~Opens(disk)
  BY LiveSinkClosed
<1>2. CommittedStripes = IndexCommitted
  <2>1. ASSUME NEW s \in 1..Len(stripes)
        PROVE  ReadStripe(disk, stripes[s], Columns) = StripeOf(stripes[s])
    <3> DEFINE stripe == stripes[s]
    <3>1. StripeOK(stripe)
      BY DEF WriterInv, ContentInv
    <3>2. StripeIntact(disk, stripe)
      BY DEF WriterInv, LeavesIntact, StripeIntact
    <3> HIDE DEF stripe
    <3>3. ReadStripe(disk, stripe, Columns) = StripeOf(stripe)
      BY <3>1, <3>2, StripeIs
    <3> QED BY <3>3 DEF stripe
  <2> QED BY <2>1 DEF CommittedStripes, IndexCommitted
<1>3. OpenStripe = IndexOpen
  <2>1. ASSUME NEW c \in ColumnNames, current_written[c] # None
        PROVE  ReadPiece(disk, c, current_written[c], current_row_count)
                 = Recorded(c, current_written[c], current_row_count)
    <3> DEFINE locs == current_written[c]
               rows == current_row_count
    <3>1. HasRecord(c, locs, rows)
      BY <2>1 DEF WriterInv, ContentInv
    <3>2. \A j \in 1..Len(locs) : LeafOK(disk, locs[j])
      BY <2>1 DEF WriterInv, LeavesIntact
    <3> HIDE DEF locs, rows
    <3>3. ReadPiece(disk, c, locs, rows) = Recorded(c, locs, rows)
      BY <3>1, <3>2, PieceIs
    <3> QED BY <3>3 DEF locs, rows
  <2> QED BY <2>1 DEF OpenStripe, IndexOpen
<1> QED
  BY <1>1, <1>2, <1>3 DEF TableCommitted, TableOpen, TableStatus

(* A recorded column holds a value, of the stripe's row count.              *)
LEMMA RecordedValue ==
  ASSUME NEW c \in ColumnNames, NEW locs, NEW rows, HasRecord(c, locs, rows)
  PROVE  /\ Recorded(c, locs, rows) \in Value /\ Recorded(c, locs, rows) # None
         /\ RowsOf[Recorded(c, locs, rows)] = rows
<1>1. PICK v \in Value : Records(c, locs, v) /\ RowsOf[v] = rows
  BY DEF HasRecord
<1>2. Recorded(c, locs, rows) = v
  BY <1>1, RecordUnique
<1> QED
  BY <1>1, <1>2

LEMMA IndexOpenIs ==
  ASSUME WriterInv, status = "open", NEW c \in ColumnNames
  PROVE  /\ current_written[c] = None => IndexOpen[c] = None
         /\ current_written[c] # None =>
              /\ IndexOpen[c] = Recorded(c, current_written[c], current_row_count)
              /\ IndexOpen[c] # None
              /\ RowsOf[IndexOpen[c]] = current_row_count
<1>1. CASE current_written[c] = None
  BY <1>1 DEF IndexOpen
<1>2. CASE current_written[c] # None
  <2>1. HasRecord(c, current_written[c], current_row_count)
    BY <1>2 DEF WriterInv, ContentInv
  <2>2. IndexOpen[c] = Recorded(c, current_written[c], current_row_count)
    BY <1>2 DEF IndexOpen
  <2> QED BY <1>2, <2>1, <2>2, RecordedValue
<1> QED
  BY <1>1, <1>2

(* The stripe that is committed is the one that was open.                   *)
LEMMA NewStripeIs ==
  ASSUME WriterInv, status = "open", AllWritten
  PROVE  StripeOf(NewStripe) = IndexOpen /\ \A c \in ColumnNames : IndexOpen[c] # None
<1>1. /\ NewStripe.row_count = current_row_count
      /\ \A i \in 1..Len(Columns) : NewStripe.columns[i] = current_written[Columns[i]]
  BY NewStripeOK DEF WriterInv
<1>2. ASSUME NEW c \in ColumnNames
      PROVE  Recorded(c, NewStripe.columns[Position(c)], NewStripe.row_count)
               = Recorded(c, current_written[c], current_row_count)
  BY <1>1, PositionOf
<1>3. \A c \in ColumnNames : current_written[c] # None
  BY DEF AllWritten
<1>4. StripeOf(NewStripe) = IndexOpen
  BY <1>2, <1>3 DEF StripeOf, IndexOpen
<1> QED
  BY <1>3, <1>4, IndexOpenIs

(* What finish commits: recorded stripes whose leaves are in the sink.      *)
LEMMA FinalStripesOK ==
  ASSUME WriterInv, status = "open", CanFinish
  PROVE  /\ FinalStripes \in Seq(StripeIndexes) /\ FinalStripes # <<>>
         /\ \A s \in 1..Len(FinalStripes) :
              StripeOK(FinalStripes[s]) /\ StripeIntact(disk, FinalStripes[s])
         /\ InProgress \/ stripes = <<>> => AllWritten /\ FinalStripes = Append(stripes, NewStripe)
         /\ ~(InProgress \/ stripes = <<>>) => FinalStripes = stripes
<1>1. stripes \in Seq(StripeIndexes) /\ FinalStripes \in Seq(StripeIndexes)
  BY FinalStripesType DEF WriterInv, TInv, TypeOK
<1>2. \A s \in 1..Len(stripes) : StripeOK(stripes[s]) /\ StripeIntact(disk, stripes[s])
  BY DEF WriterInv, ContentInv, LeavesIntact, StripeIntact
<1>3. CASE InProgress \/ stripes = <<>>
  <2>1. AllWritten /\ FinalStripes = Append(stripes, NewStripe)
    BY <1>3 DEF CanFinish, FinalStripes
  <2>2. StripeOK(NewStripe) /\ StripeIntact(disk, NewStripe)
    <3>1. /\ StripeOK(NewStripe)
          /\ \A i \in 1..Len(Columns) : NewStripe.columns[i] = current_written[Columns[i]]
          /\ Len(NewStripe.columns) = Len(Columns)
      BY <2>1, NewStripeOK DEF WriterInv
    <3>2. \A c \in ColumnNames : \A j \in 1..Len(current_written[c]) :
            LeafOK(disk, current_written[c][j])
      BY <2>1 DEF WriterInv, LeavesIntact, AllWritten
    <3>3. \A i \in 1..Len(Columns) : Columns[i] \in ColumnNames
      OBVIOUS
    <3> QED BY <3>1, <3>2, <3>3 DEF StripeIntact
  <2>3. NewStripe \in StripeIndexes
    BY <2>1, NewStripeType DEF WriterInv
  <2>4. \A s \in 1..Len(FinalStripes) :
          \/ s \in 1..Len(stripes) /\ FinalStripes[s] = stripes[s]
          \/ FinalStripes[s] = NewStripe
    BY <1>1, <2>1, <2>3
  <2>5. FinalStripes # <<>>
    BY <1>1, <2>1, <2>3
  <2>6. \A s \in 1..Len(FinalStripes) :
          StripeOK(FinalStripes[s]) /\ StripeIntact(disk, FinalStripes[s])
    BY <1>2, <2>2, <2>4
  <2> QED BY <1>1, <1>3, <2>1, <2>5, <2>6
<1>4. CASE ~(InProgress \/ stripes = <<>>)
  <2>1. FinalStripes = stripes
    BY <1>4 DEF FinalStripes
  <2> QED BY <1>1, <1>2, <1>4, <2>1
<1> QED
  BY <1>3, <1>4

(* head, which begins with the header and the schema, followed by a whole   *)
(* trailer.                                                                 *)
SealedFile(file, S, head, flags, idx, columns) ==
  /\ head \in Seq(S) /\ Len(head) >= BodyStart
  /\ head[1] = [header |-> flags] /\ head[2] = [schema |-> columns]
  /\ Trailer(flags, idx) \in Seq(S) /\ FooterFits(idx, columns)
  /\ file = head \o Trailer(flags, idx)

(* Such a file opens, and has that schema and those stripes.                *)
LEMMA SealedFileOpens ==
  ASSUME NEW file, NEW S, NEW head, NEW flags, NEW idx, NEW columns,
         SealedFile(file, S, head, flags, idx, columns)
  PROVE  /\ file \in Seq(S) /\ Opens(file)
         /\ StripesOf(file) = idx /\ SchemaOf(file) = columns
<1> DEFINE t == Trailer(flags, idx)
           n == Len(head)
<1>1. /\ head \in Seq(S) /\ n \in Nat /\ n >= 2 /\ t \in Seq(S)
      /\ head[1] = [header |-> flags] /\ head[2] = [schema |-> columns]
      /\ FooterFits(idx, columns)
  BY DEF SealedFile, BodyStart
<1>2. /\ Len(t) = 4
      /\ t[1] = [footer |-> idx] /\ t[2] = [footer_len |-> FooterLen]
      /\ t[3] = [crc |-> idx] /\ t[4] = [header |-> flags]
  BY DEF Trailer
<1>3. file = head \o t
  BY DEF SealedFile
<1> HIDE DEF t
<1>4. /\ Len(file) = n + 4 /\ file \in Seq(S)
      /\ file[1] = head[1] /\ file[2] = head[2]
      /\ file[n + 1] = t[1] /\ file[n + 2] = t[2] /\ file[n + 3] = t[3] /\ file[n + 4] = t[4]
  <2>1. /\ head \o t \in Seq(S \cup S)
        /\ Len(head \o t) = Len(head) + Len(t)
        /\ \A i \in 1..Len(head) : (head \o t)[i] = head[i]
        /\ \A i \in 1..Len(t) : (head \o t)[Len(head) + i] = t[i]
    BY <1>1, ConcatElements
  <2>2. 1 \in 1..n /\ 2 \in 1..n /\ S \cup S = S
    BY <1>1
  <2> QED BY <1>1, <1>2, <1>3, <2>1, <2>2
<1>5. /\ Len(file) - TrailerLen = n + 1 /\ Len(file) - 2 = n + 2 /\ Len(file) - 1 = n + 3
      /\ Len(file) >= BodyStart + TrailerLen /\ Len(file) >= 1 /\ Len(file) >= 2
      /\ FooterLen <= Len(file) - TrailerLen - BodyStart
  BY <1>1, <1>4 DEF BodyStart, TrailerLen, FooterLen
<1>6. /\ Holds(file[1], "header") /\ Holds(file[2], "schema")
      /\ Holds(file[n + 1], "footer") /\ Holds(file[n + 2], "footer_len")
  <2>1. /\ \A x : DOMAIN [header |-> x] = {"header"}
        /\ \A x : DOMAIN [schema |-> x] = {"schema"}
        /\ \A x : DOMAIN [footer |-> x] = {"footer"}
        /\ \A x : DOMAIN [footer_len |-> x] = {"footer_len"}
    OBVIOUS
  <2>2. /\ file[1] = [header |-> flags] /\ file[2] = [schema |-> columns]
        /\ file[n + 1] = [footer |-> idx] /\ file[n + 2] = [footer_len |-> FooterLen]
    BY <1>1, <1>2, <1>4
  <2> QED BY <2>1, <2>2 DEF Holds
<1>7. /\ file[Len(file)] = file[1]
      /\ file[n + 2].footer_len = FooterLen
      /\ file[n + 1].footer = idx
      /\ file[n + 3] = [crc |-> idx]
      /\ file[2].schema = columns
  BY <1>1, <1>2, <1>4
<1>8. Opens(file)
  BY <1>1, <1>5, <1>6, <1>7 DEF Opens
<1> QED
  BY <1>4, <1>5, <1>7, <1>8 DEF StripesOf, SchemaOf

(* A file that can be read: it opens, has the writer's schema, and every    *)
(* stripe of its footer idx is intact.                                      *)
Readable(file, idx) ==
  /\ file \in Seq(Cells) /\ Opens(file) /\ SchemaOf(file) = Columns
  /\ StripesOf(file) = idx /\ idx \in Seq(StripeIndexes)
  /\ \A s \in 1..Len(idx) : StripeOK(idx[s]) /\ StripeIntact(file, idx[s])

\* The stripes that an index was made for.
StripesIn(idx) == [s \in 1..Len(idx) |-> StripeOf(idx[s])]

(* What Contents gives of such a file.                                      *)
LEMMA ReadableContents ==
  ASSUME NEW file, NEW idx, Readable(file, idx)
  PROVE  Contents(file) = StripesIn(idx)
<1>1. /\ Opens(file) /\ SchemaOf(file) = Columns /\ StripesOf(file) = idx
      /\ \A s \in 1..Len(idx) : StripeOK(idx[s]) /\ StripeIntact(file, idx[s])
  BY DEF Readable
<1>2. ASSUME NEW s \in 1..Len(idx) PROVE ReadStripe(file, idx[s], Columns) = StripeOf(idx[s])
  BY <1>1, StripeIs
<1>3. Contents(file) = [s \in 1..Len(idx) |-> ReadStripe(file, idx[s], Columns)]
  BY <1>1 DEF Contents
<1> QED
  BY <1>2, <1>3 DEF StripesIn

(* A sink with a whole trailer can be read, and holds the final stripes.    *)
LEMMA SealedReadable ==
  ASSUME WriterInv, status = "open", CanFinish,
         NEW file, file = disk \o Trailer(disk[1].header, FinalStripes)
  PROVE  Readable(file, FinalStripes)
<1> DEFINE idx == FinalStripes
           flags == disk[1].header
           head == disk
           S == Cells
<1>1. /\ disk \in Seq(Cells) /\ Len(disk) >= BodyStart
      /\ disk[1] \in [header : {0, 1}] /\ disk[2] = [schema |-> Columns]
  BY DEF WriterInv, TInv, TypeOK, HeadOK, ContentInv
<1>2. /\ idx \in Seq(StripeIndexes) /\ idx # <<>>
      /\ \A s \in 1..Len(idx) : StripeOK(idx[s]) /\ StripeIntact(disk, idx[s])
  BY FinalStripesOK
<1>3. Trailer(flags, idx) \in Seq(Cells)
  BY <1>2, TrailerType DEF WriterInv
<1>4. disk[1] = [header |-> flags]
  BY <1>1
<1>5. FooterFits(idx, Columns)
  <2>1. ASSUME NEW s \in 1..Len(idx)
        PROVE  /\ Len(idx[s].columns) = Len(Columns)
               /\ \A i \in 1..Len(Columns) : Len(idx[s].columns[i]) = NLeaves[Columns[i]]
    <3>1. StripeOK(idx[s])
      BY <1>2
    <3> HIDE DEF idx
    <3> QED BY <3>1 DEF StripeOK, HasRecord, Records
  <2> QED BY <1>2, <2>1 DEF FooterFits
<1>6. file = disk \o Trailer(flags, idx)
  OBVIOUS
<1>7. SealedFile(file, S, head, flags, idx, Columns)
  <2> HIDE DEF flags, idx
  <2> QED BY <1>1, <1>3, <1>4, <1>5, <1>6 DEF SealedFile
<1> HIDE DEF flags, idx, S, head
<1>8. file \in Seq(S) /\ Opens(file) /\ StripesOf(file) = idx /\ SchemaOf(file) = Columns
  BY <1>7, SealedFileOpens
<1>9. ASSUME NEW s \in 1..Len(idx) PROVE StripeIntact(file, idx[s])
  <2> DEFINE stripe == idx[s]
             t == Trailer(flags, idx)
  <2>1. StripeIntact(disk, stripe) /\ stripe \in StripeIndexes
    BY <1>2
  <2>2. t \in Seq(Cells) /\ file = disk \o t
    BY <1>3, <1>6
  <2> HIDE DEF stripe, t
  <2>3. stripe.columns \in Seq(Seq(Locations))
    BY <2>1 DEF StripeIndexes
  <2>4. ASSUME NEW loc \in Locations, LeafOK(disk, loc) PROVE LeafOK(file, loc)
    BY <1>1, <2>2, <2>4, AppendKeepsLeaf
  <2>5. StripeIntact(file, stripe)
    <3> SUFFICES ASSUME NEW i \in 1..Len(stripe.columns), NEW j \in 1..Len(stripe.columns[i])
                 PROVE  LeafOK(file, stripe.columns[i][j])
      BY DEF StripeIntact
    <3>1. stripe.columns[i] \in Seq(Locations)
      BY <2>3
    <3>2. stripe.columns[i][j] \in Locations
      BY <3>1
    <3> QED BY <2>1, <2>4, <3>2 DEF StripeIntact
  <2> QED BY <2>5 DEF stripe
<1>10. \A s \in 1..Len(idx) : StripeOK(idx[s])
  BY <1>2
<1>11. S = Cells
  BY DEF S
<1>12. Readable(file, idx)
  BY <1>2, <1>8, <1>9, <1>10, <1>11 DEF Readable
<1> QED
  BY <1>12 DEF idx

(* So it opens and holds what finish committed.                             *)
LEMMA SealedOpens ==
  ASSUME WriterInv, status = "open", CanFinish,
         NEW file, file = disk \o Trailer(disk[1].header, FinalStripes)
  PROVE  /\ Opens(file)
         /\ Contents(file) = [s \in 1..Len(FinalStripes) |-> StripeOf(FinalStripes[s])]
<1> DEFINE idx == FinalStripes
<1>1. Readable(file, idx)
  BY SealedReadable
<1> HIDE DEF idx
<1>2. Contents(file) = StripesIn(idx)
  BY <1>1, ReadableContents
<1> QED
  BY <1>1, <1>2 DEF Readable, StripesIn, idx

(* The stripes of an index with one more.                                   *)
LEMMA AppendStripe ==
  ASSUME NEW idx \in Seq(StripeIndexes), NEW stripe \in StripeIndexes,
         NEW more, more = Append(idx, stripe)
  PROVE  [s \in 1..Len(more) |-> StripeOf(more[s])]
           = Append([s \in 1..Len(idx) |-> StripeOf(idx[s])], StripeOf(stripe))
<1> DEFINE held == [s \in 1..Len(idx) |-> StripeOf(idx[s])]
           S == {StripeOf(idx[s]) : s \in 1..Len(idx)} \cup {StripeOf(stripe)}
<1>1. Len(idx) \in Nat /\ Len(more) = Len(idx) + 1
  OBVIOUS
<1>2. /\ \A s \in 1..Len(idx) : more[s] = idx[s]
      /\ more[Len(idx) + 1] = stripe
  OBVIOUS
<1>3. held \in Seq(S) /\ Len(held) = Len(idx) /\ \A s \in 1..Len(idx) : held[s] = StripeOf(idx[s])
  BY <1>1
<1>4. StripeOf(stripe) \in S
  OBVIOUS
<1> DEFINE last == StripeOf(stripe)
           longer == Append(held, last)
<1>5. \A s \in 1..Len(idx) : StripeOf(more[s]) = held[s]
  BY <1>2, <1>3
<1>6. StripeOf(more[Len(idx) + 1]) = last
  BY <1>2
<1>7. last \in S
  BY <1>4
<1> HIDE DEF held, S, last
<1>8. /\ longer \in Seq(S) /\ Len(longer) = Len(idx) + 1
      /\ \A s \in 1..Len(idx) : longer[s] = held[s]
      /\ longer[Len(idx) + 1] = last
  BY <1>1, <1>3, <1>7
<1> HIDE DEF longer
<1>9. \A s \in 1..(Len(idx) + 1) : s \in 1..Len(idx) \/ s = Len(idx) + 1
  BY <1>1
<1>10. \A s \in 1..(Len(idx) + 1) : StripeOf(more[s]) = longer[s]
  BY <1>5, <1>6, <1>8, <1>9
<1>11. longer = [s \in 1..(Len(idx) + 1) |-> longer[s]]
  BY <1>8
<1>12. [s \in 1..Len(more) |-> StripeOf(more[s])] = longer
  BY <1>1, <1>10, <1>11
<1> QED
  BY <1>12 DEF longer, held, last

(* Before and after a step that stays open, the table is what the index     *)
(* says; once it is over, nothing is open.                                  *)
LEMMA TableAfter ==
  ASSUME WriterInv, WriterInv'
  PROVE  /\ status' = "open" =>
              /\ TableCommitted' = IndexCommitted'
              /\ TableOpen' = IndexOpen'
              /\ TableStatus' = "writing"
         /\ status' # "open" => TableOpen' = [c \in ColumnNames |-> None]
         /\ status' \in {"open", "dead"} => ~Opens(disk')
         /\ status' # "open" /\ ~Opens(disk') =>
              TableCommitted' = <<>> /\ TableStatus' = "abandoned"
         /\ Opens(disk') => TableCommitted' = Contents(disk') /\ TableStatus' = "sealed"
<1>1. (WriterInv /\ status = "open" =>
        /\ TableCommitted = IndexCommitted
        /\ TableOpen = IndexOpen
        /\ TableStatus = "writing")'
  BY OpenTable, PTL
<1>2. (WriterInv /\ status \in {"open", "dead"} => ~Opens(disk))'
  BY LiveSinkClosed, PTL
<1>3. status' # "open" => TableOpen' = [c \in ColumnNames |-> None]
  BY DEF TableOpen, NothingOpen
<1>4. /\ status' # "open" /\ ~Opens(disk') =>
           TableCommitted' = <<>> /\ TableStatus' = "abandoned"
      /\ Opens(disk') => TableCommitted' = Contents(disk') /\ TableStatus' = "sealed"
  BY DEF TableCommitted, TableStatus
<1> QED
  BY <1>1, <1>2, <1>3, <1>4

(* What the steps of a column call leave alone.                             *)
LEMMA SameTable ==
  ASSUME WriterInv, WriterInv', status = "open", status' = "open",
         UNCHANGED <<current_written, stripes>>,
         \A c \in ColumnNames : current_written[c] # None => current_row_count' = current_row_count
  PROVE  UNCHANGED Table!tableVars
<1>1. IndexCommitted' = IndexCommitted
  BY DEF IndexCommitted
<1>2. IndexOpen' = IndexOpen
  BY DEF IndexOpen
<1>3. TableCommitted = IndexCommitted /\ TableOpen = IndexOpen /\ TableStatus = "writing"
  BY OpenTable
<1>4. UNCHANGED <<TableCommitted, TableOpen, TableStatus>>
  BY <1>1, <1>2, <1>3, TableAfter
<1> QED
  BY <1>4 DEF Table!tableVars

(* A column that is recorded was put into the open stripe.                  *)
LEMMA RecordingPuts ==
  ASSUME WriterInv, WriterInv', ColumnWritten
  PROVE  \E c \in ColumnNames, v \in Value : Table!Put(c, v)
<1> DEFINE c == call[1]
           v == call[2]
<1>1. /\ status = "open" /\ status' = "open" /\ call # None /\ Len(phys_locs) = NLeaves[c]
      /\ current_written' = [current_written EXCEPT ![c] = phys_locs]
      /\ UNCHANGED <<stripes, current_row_count>>
  BY DEF ColumnWritten
<1>2. c \in ColumnNames /\ v \in Value /\ phys_locs \in Seq(Locations)
      /\ current_written \in [ColumnNames -> Seq(Locations) \cup {None}]
  BY <1>1 DEF WriterInv, TInv, TypeOK
<1>3. /\ current_written[c] = None /\ current_row_count = RowsOf[v]
      /\ Records(c, phys_locs, v)
  BY <1>1 DEF WriterInv, ContentInv, Records
<1> HIDE DEF c, v
<1>4. Recorded(c, phys_locs, current_row_count) = v
  BY <1>2, <1>3, RecordUnique
<1>5. phys_locs # None
  BY <1>2
<1>6. IndexOpen' = [IndexOpen EXCEPT ![c] = v]
  <2>1. \A d \in ColumnNames :
          current_written'[d] = IF d = c THEN phys_locs ELSE current_written[d]
    BY <1>1, <1>2
  <2>2. \A d \in ColumnNames : IndexOpen'[d] = IF d = c THEN v ELSE IndexOpen[d]
    BY <1>1, <1>4, <1>5, <2>1 DEF IndexOpen
  <2> QED BY <2>2 DEF IndexOpen
<1>7. IndexCommitted' = IndexCommitted
  BY <1>1 DEF IndexCommitted
<1>8. /\ TableCommitted = IndexCommitted /\ TableOpen = IndexOpen /\ TableStatus = "writing"
      /\ TableCommitted' = IndexCommitted' /\ TableOpen' = IndexOpen' /\ TableStatus' = "writing"
  BY <1>1, OpenTable, TableAfter
<1>9. IndexOpen[c] = None
  BY <1>2, <1>3 DEF IndexOpen
<1>10. \A d \in ColumnNames : IndexOpen[d] # None => RowsOf[IndexOpen[d]] = RowsOf[v]
  BY <1>1, <1>3, IndexOpenIs
<1>11. Table!Put(c, v)
  BY <1>6, <1>7, <1>8, <1>9, <1>10 DEF Table!Put
<1> QED
  BY <1>2, <1>11

(* finish_stripe commits what was open, in the order of the calls.          *)
LEMMA FinishStripeCommits ==
  ASSUME WriterInv, WriterInv', FinishStripe
  PROVE  Table!Commit
<1>1. /\ status = "open" /\ status' = "open" /\ AllWritten
      /\ stripes' = Append(stripes, NewStripe)
      /\ current_written' = [c \in ColumnNames |-> None]
  BY DEF FinishStripe, Ready
<1>2. stripes \in Seq(StripeIndexes) /\ NewStripe \in StripeIndexes
  BY <1>1, NewStripeType DEF WriterInv, TInv, TypeOK
<1>3. StripeOf(NewStripe) = IndexOpen /\ \A c \in ColumnNames : IndexOpen[c] # None
  BY <1>1, NewStripeIs
<1>4. IndexCommitted' = Append(IndexCommitted, IndexOpen)
  <2> DEFINE more == Append(stripes, NewStripe)
             idx == stripes
             stripe == NewStripe
  <2>1. IndexCommitted' = [s \in 1..Len(more) |-> StripeOf(more[s])]
    BY <1>1 DEF IndexCommitted
  <2>2. more = Append(idx, stripe) /\ idx \in Seq(StripeIndexes) /\ stripe \in StripeIndexes
    BY <1>2
  <2> HIDE DEF more, idx, stripe
  <2>3. [s \in 1..Len(more) |-> StripeOf(more[s])]
          = Append([s \in 1..Len(idx) |-> StripeOf(idx[s])], StripeOf(stripe))
    BY <2>2, AppendStripe
  <2> QED BY <1>3, <2>1, <2>3 DEF IndexCommitted, idx, stripe
<1>5. IndexOpen' = [c \in ColumnNames |-> None]
  BY <1>1 DEF IndexOpen
<1>6. /\ TableCommitted = IndexCommitted /\ TableOpen = IndexOpen /\ TableStatus = "writing"
      /\ TableCommitted' = IndexCommitted' /\ TableOpen' = IndexOpen' /\ TableStatus' = "writing"
  BY <1>1, OpenTable, TableAfter
<1> QED
  BY <1>3, <1>4, <1>5, <1>6 DEF Table!Commit, Table!CommitStripe

(* A whole trailer seals the table, with the open stripe if there is one.   *)
LEMMA TrailerSeals ==
  ASSUME WriterInv, WriterInv', status = "open", status' # "open", CanFinish,
         disk' = disk \o Trailer(disk[1].header, FinalStripes)
  PROVE  Table!Seal
<1> DEFINE final == [s \in 1..Len(FinalStripes) |-> StripeOf(FinalStripes[s])]
<1>1. Opens(disk') /\ Contents(disk') = final
  BY SealedOpens
<1>2. /\ TableCommitted = IndexCommitted /\ TableOpen = IndexOpen /\ TableStatus = "writing"
      /\ TableCommitted' = final /\ TableStatus' = "sealed"
      /\ TableOpen' = [c \in ColumnNames |-> None]
  BY <1>1, OpenTable, TableAfter
<1>3. CASE InProgress \/ stripes = <<>>
  <2>1. AllWritten /\ FinalStripes = Append(stripes, NewStripe)
    BY <1>3, FinalStripesOK
  <2>2. StripeOf(NewStripe) = IndexOpen /\ \A c \in ColumnNames : IndexOpen[c] # None
    BY <2>1, NewStripeIs
  <2>3. final = Append(IndexCommitted, IndexOpen)
    <3> DEFINE more == FinalStripes
               idx == stripes
               stripe == NewStripe
    <3>1. more = Append(idx, stripe) /\ idx \in Seq(StripeIndexes) /\ stripe \in StripeIndexes
      BY <2>1, NewStripeType DEF WriterInv, TInv, TypeOK
    <3>2. final = [s \in 1..Len(more) |-> StripeOf(more[s])]
      OBVIOUS
    <3> HIDE DEF more, idx, stripe, final
    <3>3. [s \in 1..Len(more) |-> StripeOf(more[s])]
            = Append([s \in 1..Len(idx) |-> StripeOf(idx[s])], StripeOf(stripe))
      BY <3>1, AppendStripe
    <3> QED BY <2>2, <3>2, <3>3 DEF IndexCommitted, idx, stripe
  <2> HIDE DEF final
  <2> QED BY <1>2, <2>2, <2>3 DEF Table!Seal, Table!CommitStripe
<1>4. CASE ~(InProgress \/ stripes = <<>>)
  <2>1. FinalStripes = stripes /\ stripes # <<>> /\ stripes \in Seq(StripeIndexes)
    BY <1>4, FinalStripesOK DEF WriterInv, TInv, TypeOK
  <2>2. final = IndexCommitted
    BY <2>1 DEF IndexCommitted
  <2>3. IndexCommitted # <<>>
    <3>1. 1 \in 1..Len(stripes)
      BY <2>1
    <3>2. 1 \in DOMAIN IndexCommitted
      BY <3>1 DEF IndexCommitted
    <3>3. DOMAIN <<>> = {}
      OBVIOUS
    <3> QED BY <3>2, <3>3
  <2>4. IndexOpen = [c \in ColumnNames |-> None]
    BY <1>4 DEF IndexOpen, InProgress
  <2> HIDE DEF final
  <2> QED BY <1>2, <2>2, <2>3, <2>4 DEF Table!Seal
<1> QED
  BY <1>3, <1>4

(* Whatever ends without a file that opens leaves nothing.                  *)
LEMMA EndAbandons ==
  ASSUME WriterInv, WriterInv', status = "open", status' # "open", ~Opens(disk')
  PROVE  Table!Abandon
<1>1. TableStatus = "writing"
  BY OpenTable
<1>2. /\ TableCommitted' = <<>> /\ TableStatus' = "abandoned"
      /\ TableOpen' = [c \in ColumnNames |-> None]
  BY TableAfter
<1> QED
  BY <1>1, <1>2 DEF Table!Abandon

(* Every step of the writer is a step of the table, or leaves it alone.     *)
LEMMA StepIsTableStep ==
  WriterInv /\ WriterInv' /\ [Next]_vars => [Table!Next]_(Table!tableVars)
<1> SUFFICES ASSUME WriterInv, WriterInv', [Next]_vars
             PROVE  Table!Next \/ UNCHANGED Table!tableVars
  OBVIOUS
<1>1. ASSUME NEW c \in ColumnNames, NEW v \in Value, BeginColumn(c, v) \/ ColumnRefused(c, v)
      PROVE  UNCHANGED Table!tableVars
  <2>1. /\ Accepted(c, v) /\ current_row_count' = RowsOf[v]
        /\ UNCHANGED <<current_written, stripes, status>>
    BY <1>1 DEF BeginColumn, ColumnRefused
  <2>2. status = "open" /\ status' = "open"
    BY <2>1 DEF Accepted, Ready
  <2>3. \A d \in ColumnNames : current_written[d] # None => current_row_count' = current_row_count
    BY <2>1, <2>2, WrittenCount DEF Accepted, WriterInv
  <2> QED BY <2>1, <2>2, <2>3, SameTable
<1>2. ASSUME WriteLeaf \/ LeafFails PROVE UNCHANGED Table!tableVars
  <2>1. /\ status = "open" /\ status' = "open"
        /\ UNCHANGED <<current_written, stripes, current_row_count>>
    BY <1>2 DEF WriteLeaf, LeafFails
  <2> QED BY <2>1, SameTable
<1>3. CASE ColumnWritten
  BY <1>3, RecordingPuts DEF Table!Next
<1>4. CASE FinishStripe
  BY <1>4, FinishStripeCommits DEF Table!Next
<1>5. CASE Finish
  BY <1>5, TrailerSeals DEF Finish, Ready, Table!Next
<1>6. CASE FinishFails
  <2>1. status = "open" /\ status' = "failed"
    BY <1>6 DEF FinishFails, Ready
  <2>2. CASE ~Opens(disk')
    BY <2>1, <2>2, EndAbandons DEF Table!Next
  <2>3. CASE Opens(disk')
    <3>1. ~Opens(disk)
      BY <2>1, LiveSinkClosed
    <3>2. /\ CanFinish
          /\ \E n \in 0..(FooterLen + TrailerLen) :
               disk' = disk \o SubSeq(Trailer(disk[1].header, FinalStripes), 1, n)
      BY <1>6, <2>3, <3>1 DEF FinishFails
    <3>3. disk' = disk \o Trailer(disk[1].header, FinalStripes)
      <4> DEFINE flags == disk[1].header
                 idx == FinalStripes
                 whole == Trailer(flags, idx)
      <4>1. PICK n \in 0..(FooterLen + TrailerLen) : disk' = disk \o SubSeq(whole, 1, n)
        BY <3>2
      <4> DEFINE t == SubSeq(Trailer(flags, idx), 1, n)
      <4>2. whole \in Seq(Cells)
        BY <2>1, <3>2, FinalStripesType, TrailerType DEF WriterInv
      <4>3. t \in Seq(Cells)
        BY <4>2 DEF FooterLen, TrailerLen, Trailer
      <4>4. disk \in Seq(Cells) /\ Unsealed(disk)
        BY <2>1 DEF WriterInv, TInv, TypeOK, TailOK
      <4>5. TrailerPart(t, n, flags, idx)
        BY DEF TrailerPart
      <4>6. disk' = disk \o t /\ Opens(disk \o t)
        BY <2>3, <4>1
      <4>7. whole = SubSeq(whole, 1, FooterLen + TrailerLen)
        BY DEF Trailer, FooterLen, TrailerLen
      <4>8. n \in 0..(FooterLen + TrailerLen)
        BY <4>1
      <4>9. n = FooterLen + TrailerLen => t = whole
        BY <4>7
      <4> HIDE DEF flags, idx, t, whole
      <4>10. n = FooterLen + TrailerLen
        <5>1. n \in 0..4
          BY <4>8 DEF FooterLen, TrailerLen
        <5>2. TornFile(disk \o t, Cells, disk, t, n, flags, idx)
          BY <4>3, <4>4, <4>5, <5>1 DEF TornFile
        <5>3. n = 4
          BY <4>6, <5>2, TrailerTail
        <5> QED BY <5>3 DEF FooterLen, TrailerLen
      <4>11. disk' = disk \o whole
        BY <4>6, <4>9, <4>10
      <4> QED BY <4>11 DEF whole, flags, idx
    <3> QED BY <2>1, <3>2, <3>3, TrailerSeals DEF Table!Next
  <2> QED BY <2>2, <2>3
<1>7. CASE Die
  <2>1. status = "open" /\ status' = "dead"
    BY <1>7 DEF Die
  <2>2. ~Opens(disk')
    BY <2>1, TableAfter
  <2> QED BY <2>1, <2>2, EndAbandons DEF Table!Next
<1>8. CASE UNCHANGED vars
  <2>1. UNCHANGED <<disk, current_written, current_row_count, stripes, status>>
    BY <1>8 DEF vars
  <2>2. UNCHANGED <<TableCommitted, TableOpen, TableStatus>>
    BY <2>1 DEF TableCommitted, TableOpen, TableStatus, CommittedStripes, OpenStripe,
                NothingOpen
  <2> QED BY <2>2 DEF Table!tableVars
<1> QED
  BY <1>1, <1>2, <1>3, <1>4, <1>5, <1>6, <1>7, <1>8 DEF Next

(* Read back from its bytes, what the writer writes is a table of stripes:  *)
(* columns are put once and with equal row counts, stripes are committed in *)
(* order, and the file opens exactly when the table is sealed, whatever     *)
(* failed on the way.                                                       *)
THEOREM WriterImplementsTable == Spec => TableSpec
<1>1. Init => Table!Init
  <2> SUFFICES ASSUME Init PROVE Table!Init
    OBVIOUS
  <2>1. WriterInv /\ status = "open"
    BY InitWriterInv DEF Init
  <2>2. TableCommitted = IndexCommitted /\ TableOpen = IndexOpen /\ TableStatus = "writing"
    BY <2>1, OpenTable
  <2>3. IndexCommitted = <<>>
    BY DEF Init, IndexCommitted
  <2>4. IndexOpen = [c \in ColumnNames |-> None]
    BY DEF Init, IndexOpen
  <2> QED BY <2>2, <2>3, <2>4 DEF Table!Init
<1> QED
  BY <1>1, InitWriterInv, StepWriterInv, StepIsTableStep, PTL DEF Spec, TableSpec, Table!Spec

-----------------------------------------------------------------------------
HIDE NoneAssumption
HIDE FitsAssumption
HIDE ValueAssumption
HIDE SchemaAssumption


(* Slices: project_to copies the leaves of some columns and rewrites their  *)
(* offsets.  For any schema, stripes and choice of columns the new offsets  *)
(* are where the copied leaves went, so a slice of a finished file opens    *)
(* and holds the same values.                                               *)

(* A slice: the leaves that are copied                                      *)

(* The columns of a slice.                                                  *)
Chosen(cols) == cols \in Seq(ColumnNames) /\ cols # <<>>

\* The locations of the k-th chosen column in stripe s of the index.
Source(idx, cols, s, k) == idx[s].columns[Position(cols[k])]

\* What the plan says of its j-th leaf.
Item(idx, cols, s, k, j) == <<s, k, j, Source(idx, cols, s, k)[j]>>

Items == Nat \X Nat \X Nat \X Locations

(* The locations of the source are those of a value, and intact.            *)
LEMMA SourceFacts ==
  ASSUME NEW file, NEW idx, Readable(file, idx), NEW cols, Chosen(cols),
         NEW s \in 1..Len(idx), NEW k \in 1..Len(cols)
  PROVE  /\ cols[k] \in ColumnNames
         /\ Source(idx, cols, s, k) \in Seq(Locations)
         /\ Len(Source(idx, cols, s, k)) = NLeaves[cols[k]]
         /\ HasRecord(cols[k], Source(idx, cols, s, k), idx[s].row_count)
         /\ \A j \in 1..NLeaves[cols[k]] :
              /\ Source(idx, cols, s, k)[j] \in Locations
              /\ LeafOK(file, Source(idx, cols, s, k)[j])
<1>1. cols[k] \in ColumnNames
  BY DEF Chosen
<1> DEFINE i == Position(cols[k])
           stripe == idx[s]
<1>2. i \in 1..Len(Columns) /\ Columns[i] = cols[k]
  BY <1>1, PositionOf
<1>3. stripe \in StripeIndexes /\ StripeOK(stripe) /\ StripeIntact(file, stripe)
  BY DEF Readable
<1> DEFINE locs == stripe.columns[i]
<1>4. locs = Source(idx, cols, s, k)
  BY DEF Source
<1> HIDE DEF i, stripe
<1>5. Len(stripe.columns) = Len(Columns) /\ HasRecord(cols[k], locs, stripe.row_count)
  BY <1>2, <1>3 DEF StripeOK
<1>6. locs \in Seq(Locations)
  <2>1. stripe.columns \in Seq(Seq(Locations))
    BY <1>3 DEF StripeIndexes
  <2> QED BY <1>2, <1>5, <2>1
<1>7. \A j \in 1..Len(locs) : LeafOK(file, locs[j])
  BY <1>2, <1>3, <1>5 DEF StripeIntact
<1>8. Len(locs) = NLeaves[cols[k]]
  BY <1>5 DEF HasRecord, Records
<1>9. \A j \in 1..Len(locs) : locs[j] \in Locations
  BY <1>6
<1> HIDE DEF locs
<1> QED
  BY <1>1, <1>4, <1>5, <1>6, <1>7, <1>8, <1>9 DEF stripe

\* The plan has an item for every leaf of every chosen column, and no other.
CopiesChosen(plan, idx, cols) ==
  /\ plan \in Seq(Items)
  /\ \A n \in 1..Len(plan) :
       \E s \in 1..Len(idx), k \in 1..Len(cols) : \E j \in 1..NLeaves[cols[k]] :
         plan[n] = Item(idx, cols, s, k, j)
  /\ \A s \in 1..Len(idx), k \in 1..Len(cols) : \A j \in 1..NLeaves[cols[k]] :
       \E n \in 1..Len(plan) : plan[n] = Item(idx, cols, s, k, j)

LEMMA PlanIs ==
  ASSUME NEW file, NEW idx, Readable(file, idx), NEW cols, Chosen(cols)
  PROVE  CopiesChosen(CopyPlan(file, cols), idx, cols)
<1> DEFINE leaves(s, k) == [j \in 1..Len(Source(idx, cols, s, k)) |-> Item(idx, cols, s, k, j)]
           chosen(s) == [k \in 1..Len(cols) |-> leaves(s, k)]
           all == [s \in 1..Len(idx) |-> FlattenSeq(chosen(s))]
<1>1. SchemaOf(file) = Columns /\ StripesOf(file) = idx /\ idx \in Seq(StripeIndexes)
  BY DEF Readable
<1>2. CopyPlan(file, cols) = FlattenSeq(all)
  BY <1>1 DEF CopyPlan, Item, Source, Position
<1>3. Len(idx) \in Nat /\ Len(cols) \in Nat
  BY <1>1 DEF Chosen
<1>4. ASSUME NEW s \in 1..Len(idx), NEW k \in 1..Len(cols)
      PROVE  /\ leaves(s, k) \in Seq(Items)
             /\ Len(leaves(s, k)) = NLeaves[cols[k]]
             /\ \A j \in 1..NLeaves[cols[k]] : leaves(s, k)[j] = Item(idx, cols, s, k, j)
  <2> DEFINE locs == Source(idx, cols, s, k)
             m == NLeaves[cols[k]]
  <2>1. locs \in Seq(Locations) /\ Len(locs) = m /\ m \in Nat
    BY SourceFacts, SchemaAssumption
  <2>2. \A j \in 1..m : Item(idx, cols, s, k, j) \in Items
    BY <1>3, <2>1 DEF Item, Items
  <2> HIDE DEF locs, m
  <2>3. leaves(s, k) = [j \in 1..m |-> Item(idx, cols, s, k, j)]
    BY <2>1 DEF locs
  <2>4. leaves(s, k) \in [1..m -> Items]
    BY <2>2, <2>3
  <2>5. leaves(s, k) \in Seq(Items)
    BY <2>1, <2>4, FunctionIsSeq
  <2>6. Len(leaves(s, k)) = m /\ \A j \in 1..m : leaves(s, k)[j] = Item(idx, cols, s, k, j)
    BY <2>1, <2>3
  <2> QED BY <2>5, <2>6 DEF m
<1> HIDE DEF leaves
<1>5. ASSUME NEW s \in 1..Len(idx)
      PROVE  /\ chosen(s) \in Seq(Seq(Items)) /\ Len(chosen(s)) = Len(cols)
             /\ FlattenSeq(chosen(s)) \in Seq(Items)
  <2> DEFINE cs == chosen(s)
  <2>1. cs \in [1..Len(cols) -> Seq(Items)]
    BY <1>4
  <2>2. cs \in Seq(Seq(Items)) /\ Len(cs) = Len(cols)
    BY <1>3, <2>1
  <2> HIDE DEF cs
  <2>3. FlattenSeq(cs) \in Seq(Items)
    BY <2>2, FlattenType
  <2> QED BY <2>2, <2>3 DEF cs
<1>6. all \in Seq(Seq(Items)) /\ Len(all) = Len(idx)
  <2> DEFINE m == Len(idx)
             R == Seq(Items)
  <2>1. all \in [1..m -> R] /\ m \in Nat
    BY <1>3, <1>5
  <2> HIDE DEF all, m, R
  <2>2. all \in Seq(R) /\ Len(all) = m
    BY <2>1, FunctionIsSeq
  <2> QED BY <2>2 DEF m, R
<1>7. \A s \in 1..Len(idx) : all[s] = FlattenSeq(chosen(s))
  OBVIOUS
<1>8. \A s \in 1..Len(idx) : \A k \in 1..Len(cols) : chosen(s)[k] = leaves(s, k)
  OBVIOUS
<1> HIDE DEF all, chosen
<1> DEFINE plan == FlattenSeq(all)
<1>9. plan \in Seq(Items)
  BY <1>6, FlattenType
<1>10. ASSUME NEW s \in 1..Len(idx), NEW k \in 1..Len(cols), NEW j \in 1..NLeaves[cols[k]]
       PROVE  \E n \in 1..Len(plan) : plan[n] = Item(idx, cols, s, k, j)
  <2> DEFINE cs == chosen(s)
  <2>1. cs \in Seq(Seq(Items)) /\ Len(cs) = Len(cols) /\ cs[k] = leaves(s, k)
    BY <1>5, <1>8
  <2>2. j \in 1..Len(cs[k]) /\ cs[k][j] = Item(idx, cols, s, k, j)
    BY <1>4, <2>1
  <2>3. all[s] = FlattenSeq(cs)
    BY <1>7
  <2> HIDE DEF cs
  <2>4. PICK i \in 1..Len(FlattenSeq(cs)) : FlattenSeq(cs)[i] = Item(idx, cols, s, k, j)
    <3>1. k \in 1..Len(cs)
      BY <2>1
    <3>2. \E i \in 1..Len(FlattenSeq(cs)) : FlattenSeq(cs)[i] = cs[k][j]
      BY <2>1, <2>2, <3>1, FlatHas
    <3> QED BY <2>2, <3>2
  <2>5. s \in 1..Len(all) /\ i \in 1..Len(all[s]) /\ all[s][i] = Item(idx, cols, s, k, j)
    BY <1>6, <2>3, <2>4
  <2>6. \E n \in 1..Len(plan) : plan[n] = all[s][i]
    BY <1>6, <2>5, FlatHas
  <2> QED BY <2>5, <2>6
<1>11. ASSUME NEW n \in 1..Len(plan)
       PROVE  \E s \in 1..Len(idx), k \in 1..Len(cols) : \E j \in 1..NLeaves[cols[k]] :
                plan[n] = Item(idx, cols, s, k, j)
  <2> DEFINE x == plan[n]
  <2>1. x \in ToSet(plan)
    BY DEF ToSet
  <2> HIDE DEF x
  <2>2. PICK s \in 1..Len(all) : x \in ToSet(all[s])
    BY <1>6, <2>1, FlatElements
  <2>3. s \in 1..Len(idx)
    BY <1>6
  <2> DEFINE cs == chosen(s)
  <2>4. cs \in Seq(Seq(Items)) /\ Len(cs) = Len(cols) /\ x \in ToSet(FlattenSeq(cs))
    BY <1>5, <1>7, <2>2, <2>3
  <2>5. \A k \in 1..Len(cols) : cs[k] = leaves(s, k)
    BY <1>8, <2>3
  <2> HIDE DEF cs
  <2>6. PICK k \in 1..Len(cs) : x \in ToSet(cs[k])
    BY <2>4, FlatElements
  <2>7. k \in 1..Len(cols) /\ x \in ToSet(leaves(s, k))
    BY <2>4, <2>5, <2>6
  <2>8. PICK j \in 1..Len(leaves(s, k)) : leaves(s, k)[j] = x
    BY <1>4, <2>3, <2>7 DEF ToSet
  <2>9. j \in 1..NLeaves[cols[k]] /\ x = Item(idx, cols, s, k, j)
    BY <1>4, <2>3, <2>7, <2>8
  <2> QED BY <2>3, <2>7, <2>9 DEF x
<1>12. CopyPlan(file, cols) = plan
  BY <1>2
<1> HIDE DEF plan
<1> QED
  BY <1>9, <1>10, <1>11, <1>12 DEF CopiesChosen

-----------------------------------------------------------------------------
(* A slice: the bytes of the copies and their new offsets                   *)

\* What the n-th copy writes.
Pieces(file, plan) == [n \in 1..Len(plan) |-> Fetch(file, plan[n][4])]

\* The bytes that the copies of a plan make.
CopyLength(part) == FoldLeft(LAMBDA total, item : total + item[4].length, 0, part)

(* The fold that adds the lengths, as a function of the copies added.       *)
LEMMA CopyLengthIs ==
  ASSUME NEW part \in Seq(Items), NEW m \in Nat, m = Len(part),
         NEW g, g[0] = 0, \A k \in 1..m : g[k] = g[k - 1] + part[k][4].length
  PROVE  CopyLength(part) = g[m]
<1> DEFINE step == [x \in 1..m |-> [t \in Nat |-> t + part[x][4].length]]
           body(h) == [s \in SUBSET (1..m) |->
                         IF s = {} THEN 0 ELSE h[s \ {Max(s)}] + part[Max(s)][4].length]
           iter == CHOOSE h : h = body(h)
<1>1. DOMAIN part = 1..m
  OBVIOUS
<1>2. \A k \in 1..m : part[k][4].length \in Nat
  <2> SUFFICES ASSUME NEW k \in 1..m PROVE part[k][4].length \in Nat
    OBVIOUS
  <2>1. part[k] \in Items
    OBVIOUS
  <2> QED BY <2>1 DEF Items, Locations
<1>3. CopyLength(part) = iter[1..m]
  BY <1>1 DEF CopyLength, FoldLeft, MapThenFoldSet
<1>4. \E h : h = body(h)
  <2>1. step \in [1..m -> [Nat -> Nat]]
    BY <1>2
  <2> HIDE DEF step
  <2>2. PICK h \in [SUBSET (1..m) -> Nat] : Iterates(h, 0, m, step)
    BY <2>1, IterationExists
  <2>3. ASSUME NEW s \in SUBSET (1..m), s # {}
        PROVE  step[Max(s)][h[s \ {Max(s)}]] = h[s \ {Max(s)}] + part[Max(s)][4].length
    <3>1. Max(s) \in 1..m
      <4>1. s \subseteq 0..m
        OBVIOUS
      <4>2. Max(s) \in s
        BY <2>3, <4>1, MaxIs
      <4> QED BY <4>2
    <3>2. h[s \ {Max(s)}] \in Nat
      BY <2>2
    <3> QED BY <1>2, <3>1, <3>2 DEF step
  <2>4. \A s \in SUBSET (1..m) : h[s] = body(h)[s]
    BY <2>2, <2>3 DEF Iterates
  <2>5. h = body(h)
    BY <2>2, <2>4
  <2> HIDE DEF body
  <2> QED BY <2>5
<1>5. iter = body(iter)
  BY <1>4
<1> DEFINE S == {k \in Nat : k <= m => iter[1..k] = g[k]}
<1>6. 0 \in S
  <2>1. 1..0 = {} /\ {} \in SUBSET (1..m)
    OBVIOUS
  <2>2. body(iter)[{}] = 0
    BY <2>1
  <2> HIDE DEF iter, body
  <2> QED BY <1>5, <2>1, <2>2
<1>7. ASSUME NEW k \in Nat \ {0}, k - 1 \in S PROVE k \in S
  <2> SUFFICES ASSUME k <= m PROVE iter[1..k] = g[k]
    OBVIOUS
  <2>1. k \in 1..m
    OBVIOUS
  <2>2. iter[1..(k - 1)] = g[k - 1]
    BY <1>7
  <2>3. body(iter)[1..k] = iter[1..(k - 1)] + part[k][4].length
    <3> HIDE DEF iter
    <3>1. 1..k \in SUBSET (1..m) /\ 1..k # {} /\ Max(1..k) = k
          /\ (1..k) \ {Max(1..k)} = 1..(k - 1)
      BY <2>1, LastOfInterval
    <3> QED BY <3>1
  <2> HIDE DEF iter, body, S
  <2> QED BY <1>5, <2>1, <2>2, <2>3
<1>8. m \in S
  <2> HIDE DEF S
  <2> QED BY <1>6, <1>7, SetInduction
<1> QED
  BY <1>3, <1>8

(* Where the copies before the n-th one end.                                *)
LEMMA CopiedBeforeIs ==
  ASSUME NEW plan \in Seq(Items), NEW n \in 1..Len(plan),
         NEW g, g[0] = 0, \A k \in 1..Len(plan) : g[k] = g[k - 1] + plan[k][4].length
  PROVE  CopiedBefore(plan, n) = g[n - 1]
<1> DEFINE m == n - 1
           part == SubSeq(plan, 1, m)
<1>1. m \in Nat /\ part \in Seq(Items) /\ Len(part) = m /\ \A k \in 1..m : part[k] = plan[k]
  OBVIOUS
<1>2. CopiedBefore(plan, n) = CopyLength(part)
  BY DEF CopiedBefore, CopyLength
<1>3. \A k \in 1..m : k \in 1..Len(plan)
  OBVIOUS
<1>4. m = n - 1
  OBVIOUS
<1> HIDE DEF m, part
<1>5. \A k \in 1..m : g[k] = g[k - 1] + part[k][4].length
  BY <1>1, <1>3
<1>6. CopyLength(part) = g[m]
  BY <1>1, <1>5, CopyLengthIs
<1> QED
  BY <1>2, <1>4, <1>6

(* A leaf that is intact is the bytes at its location, as many as it says.  *)
LEMMA FetchIs ==
  ASSUME NEW S, NEW file \in Seq(S), NEW loc \in Locations, LeafOK(file, loc)
  PROVE  /\ Fetch(file, loc) \in Seq(S)
         /\ Fetch(file, loc) = loc.crc32c /\ Len(Fetch(file, loc)) = loc.length
<1> DEFINE a == BodyStart + loc.offset
           l == loc.length
<1>1. a \in Nat /\ l \in Nat /\ a + l <= Len(file)
  BY DEF LeafOK, Locations, BodyStart
<1>2. Fetch(file, loc) = SubSeq(file, a + 1, a + l)
  BY DEF Fetch, Slice
<1> HIDE DEF a, l
<1>3. SubSeq(file, a + 1, a + l) \in Seq(S) /\ Len(SubSeq(file, a + 1, a + l)) = l
  BY <1>1
<1> QED
  BY <1>2, <1>3 DEF LeafOK, l

\* plan is the copy plan of a slice of file.
Planned(file, idx, cols, plan) ==
  Readable(file, idx) /\ Chosen(cols) /\ plan = CopyPlan(file, cols)

(* Every copy has the bytes of an intact leaf, and its new offset is where  *)
(* the copies before it end.                                                *)
LEMMA PiecesAre ==
  ASSUME NEW file, NEW idx, NEW cols, NEW plan, Planned(file, idx, cols, plan)
  PROVE  /\ Pieces(file, plan) \in Seq(Seq(Cells)) /\ Len(Pieces(file, plan)) = Len(plan)
         /\ \A n \in 1..Len(plan) :
              /\ plan[n][4] \in Locations /\ LeafOK(file, plan[n][4])
              /\ Pieces(file, plan)[n] = plan[n][4].crc32c
              /\ Len(Pieces(file, plan)[n]) = plan[n][4].length
              /\ CopiedBefore(plan, n) = Len(Flat(Pieces(file, plan), n - 1))
<1>1. /\ Readable(file, idx) /\ Chosen(cols) /\ plan = CopyPlan(file, cols)
      /\ file \in Seq(Cells)
  BY DEF Planned, Readable
<1>2. /\ plan \in Seq(Items)
      /\ \A n \in 1..Len(plan) :
           \E s \in 1..Len(idx), k \in 1..Len(cols) : \E j \in 1..NLeaves[cols[k]] :
             plan[n] = Item(idx, cols, s, k, j)
  <2>1. CopiesChosen(CopyPlan(file, cols), idx, cols)
    <3>1. Readable(file, idx) /\ Chosen(cols)
      BY <1>1
    <3> QED BY <3>1, PlanIs
  <2>2. CopiesChosen(plan, idx, cols)
    BY <1>1, <2>1
  <2> QED BY <2>2 DEF CopiesChosen
<1>3. ASSUME NEW n \in 1..Len(plan)
      PROVE  plan[n][4] \in Locations /\ LeafOK(file, plan[n][4])
  <2>1. PICK s \in 1..Len(idx), k \in 1..Len(cols) : \E j \in 1..NLeaves[cols[k]] :
               plan[n] = Item(idx, cols, s, k, j)
    BY <1>2
  <2>2. PICK j \in 1..NLeaves[cols[k]] : plan[n] = Item(idx, cols, s, k, j)
    BY <2>1
  <2>3. plan[n][4] = Source(idx, cols, s, k)[j]
    BY <2>2 DEF Item
  <2>4. /\ Source(idx, cols, s, k)[j] \in Locations
        /\ LeafOK(file, Source(idx, cols, s, k)[j])
    BY <1>1, SourceFacts
  <2> QED BY <2>3, <2>4
<1> DEFINE pieces == Pieces(file, plan)
           loc(n) == plan[n][4]
<1>4. ASSUME NEW n \in 1..Len(plan)
      PROVE  /\ Fetch(file, loc(n)) \in Seq(Cells)
             /\ Fetch(file, loc(n)) = loc(n).crc32c /\ Len(Fetch(file, loc(n))) = loc(n).length
  <2> DEFINE l == loc(n)
             S == Cells
  <2>1. l \in Locations /\ LeafOK(file, l) /\ file \in Seq(S)
    BY <1>1, <1>3
  <2> HIDE DEF l, S
  <2>2. Fetch(file, l) \in Seq(S) /\ Fetch(file, l) = l.crc32c /\ Len(Fetch(file, l)) = l.length
    BY <2>1, FetchIs
  <2> QED BY <2>2 DEF l, S
<1>5. /\ pieces \in Seq(Seq(Cells)) /\ Len(pieces) = Len(plan)
      /\ \A n \in 1..Len(plan) : pieces[n] = Fetch(file, loc(n))
  <2> DEFINE m == Len(plan)
             R == Seq(Cells)
  <2>1. m \in Nat /\ pieces \in [1..m -> R] /\ \A n \in 1..m : pieces[n] = Fetch(file, loc(n))
    BY <1>2, <1>4 DEF Pieces
  <2> HIDE DEF pieces, m, R, loc
  <2>2. pieces \in Seq(R) /\ Len(pieces) = m
    BY <2>1, FunctionIsSeq
  <2> QED BY <2>1, <2>2 DEF m, R
<1> HIDE DEF pieces
<1> DEFINE g == [k \in 0..Len(plan) |-> Len(Flat(pieces, k))]
<1>6. Len(plan) \in Nat
  BY <1>2
<1>7. g[0] = 0
  <2>1. Flat(pieces, 0) = <<>>
    BY <1>5, FlatStep
  <2> QED BY <1>6, <2>1
<1>8. \A k \in 1..Len(plan) : g[k] = g[k - 1] + plan[k][4].length
  <2> SUFFICES ASSUME NEW k \in 1..Len(plan) PROVE g[k] = g[k - 1] + plan[k][4].length
    OBVIOUS
  <2>1. k \in 1..Len(pieces) /\ k \in 0..Len(plan) /\ k - 1 \in 0..Len(plan)
    BY <1>5, <1>6
  <2>2. Len(Flat(pieces, k)) = Len(Flat(pieces, k - 1)) + Len(pieces[k])
    BY <1>5, <2>1, FlatStepLength
  <2>3. Len(pieces[k]) = plan[k][4].length
    BY <1>4, <1>5
  <2> QED BY <2>1, <2>2, <2>3
<1>9. ASSUME NEW n \in 1..Len(plan) PROVE CopiedBefore(plan, n) = Len(Flat(pieces, n - 1))
  <2>1. n - 1 \in 0..Len(plan)
    BY <1>6
  <2>2. g[n - 1] = Len(Flat(pieces, n - 1))
    BY <2>1
  <2> HIDE DEF g
  <2>3. CopiedBefore(plan, n) = g[n - 1]
    BY <1>2, <1>7, <1>8, CopiedBeforeIs
  <2> QED BY <2>2, <2>3
<1>10. ASSUME NEW n \in 1..Len(plan)
       PROVE  pieces[n] = plan[n][4].crc32c /\ Len(pieces[n]) = plan[n][4].length
  BY <1>4, <1>5
<1> QED
  BY <1>3, <1>5, <1>9, <1>10 DEF pieces

\* The n-th of the pieces that follow the preamble pre is at loc.
PieceAt(loc, pre, pieces, n) ==
  /\ Len(pre) = BodyStart
  /\ n \in 1..Len(pieces)
  /\ loc.offset = Len(Flat(pieces, n - 1)) /\ loc.length = Len(pieces[n])
  /\ loc.crc32c = pieces[n]

(* Bytes that are put where a location says read back with their checksum.  *)
LEMMA PieceReads ==
  ASSUME NEW S, NEW T, NEW U, NEW pieces \in Seq(Seq(T)),
         NEW pre \in Seq(S), NEW tail \in Seq(U),
         NEW loc, NEW n, PieceAt(loc, pre, pieces, n)
  PROVE  LeafOK(pre \o FlattenSeq(pieces) \o tail, loc)
<1> DEFINE body == FlattenSeq(pieces)
           head == pre \o body
           out == head \o tail
           off == Len(Flat(pieces, n - 1))
           l == Len(pieces[n])
<1>1. n \in 1..Len(pieces) /\ loc.offset = off /\ loc.length = l /\ loc.crc32c = pieces[n]
  BY DEF PieceAt
<1>2. off \in Nat /\ l \in Nat /\ pieces[n] \in Seq(T) /\ Len(Flat(pieces, n)) = off + l
  <2>1. n \in 1..Len(pieces)
    BY <1>1
  <2>2. /\ Len(Flat(pieces, n - 1)) \in Nat /\ Len(pieces[n]) \in Nat
        /\ Len(Flat(pieces, n)) = Len(Flat(pieces, n - 1)) + Len(pieces[n])
    BY <2>1, FlatStepLength
  <2>3. pieces[n] \in Seq(T)
    BY <2>1
  <2> QED BY <2>2, <2>3
<1>3. body \in Seq(T)
  BY FlattenType
<1>4. off + l <= Len(body)
  <2>1. n \in 0..Len(pieces) /\ Len(pieces) \in n..Len(pieces)
    BY <1>1
  <2>2. Begins(Flat(pieces, n), Flat(pieces, Len(pieces)))
    BY <2>1, FlatGrows
  <2>3. Flat(pieces, Len(pieces)) = body
    BY FlatWhole
  <2> QED BY <1>2, <2>2, <2>3 DEF Begins
<1>5. \A j \in 1..l : body[off + j] = pieces[n][j]
  BY <1>1, FlatAt
<1> HIDE DEF body, off, l
<1>6. /\ head \in Seq(S \cup T) /\ Len(head) = 2 + Len(body)
      /\ \A i \in 1..Len(body) : head[2 + i] = body[i]
  <2>1. /\ pre \o body \in Seq(S \cup T) /\ Len(pre \o body) = Len(pre) + Len(body)
        /\ \A i \in 1..Len(body) : (pre \o body)[Len(pre) + i] = body[i]
    BY <1>3, ConcatElements
  <2>2. Len(pre) = 2
    BY DEF PieceAt, BodyStart
  <2> QED BY <2>1, <2>2
<1>7. Len(body) \in Nat
  BY <1>3
<1> HIDE DEF head
<1>8. /\ out \in Seq(S \cup T \cup U) /\ Len(out) = Len(head) + Len(tail)
      /\ \A i \in 1..Len(head) : out[i] = head[i]
  <2> DEFINE R == S \cup T
  <2>1. head \in Seq(R)
    BY <1>6
  <2> HIDE DEF R
  <2>2. /\ head \o tail \in Seq(R \cup U)
        /\ Len(head \o tail) = Len(head) + Len(tail)
        /\ \A i \in 1..Len(head) : (head \o tail)[i] = head[i]
    BY <2>1, ConcatElements
  <2> QED BY <2>2 DEF R
<1>9. Len(tail) \in Nat
  OBVIOUS
<1> HIDE DEF out
<1>10. BodyStart + off + l <= Len(out)
  BY <1>2, <1>4, <1>6, <1>7, <1>8, <1>9 DEF BodyStart
<1>11. ASSUME NEW j \in 1..l PROVE out[2 + off + j] = pieces[n][j]
  <2>1. off + j \in 1..Len(body) /\ 2 + off + j \in 1..Len(head) /\ 2 + off + j = 2 + (off + j)
    BY <1>2, <1>4, <1>6, <1>7
  <2>2. out[2 + off + j] = head[2 + (off + j)]
    BY <1>8, <2>1
  <2> QED BY <1>5, <1>6, <2>1, <2>2
<1>12. SubSeq(out, 2 + off + 1, 2 + off + l) = pieces[n]
  <2> DEFINE cut == SubSeq(out, 2 + off + 1, 2 + off + l)
             R == S \cup T \cup U
             piece == pieces[n]
  <2>1. out \in Seq(R) /\ Len(out) \in Nat /\ 2 + off + l <= Len(out)
    BY <1>8, <1>10 DEF BodyStart
  <2>2. piece \in Seq(T) /\ Len(piece) = l
    BY <1>2 DEF l
  <2> HIDE DEF R, piece
  <2>3. cut \in Seq(R) /\ Len(cut) = l /\ \A j \in 1..l : cut[j] = out[2 + off + j]
    BY <1>2, <2>1
  <2> HIDE DEF cut
  <2>4. \A j \in 1..l : cut[j] = piece[j]
    BY <1>11, <2>3 DEF piece
  <2>5. cut = piece
    BY <2>2, <2>3, <2>4
  <2> QED BY <2>5 DEF cut, piece
<1>13. LeafOK(out, loc)
  BY <1>1, <1>10, <1>12 DEF LeafOK, Fetch, Slice, BodyStart
<1> QED
  BY <1>13 DEF out, head, body

-----------------------------------------------------------------------------
(* A slice: what its index records                                          *)

\* Which copy is leaf j of the k-th chosen column of stripe s.
CopyOf(plan, s, k, j) ==
  CHOOSE n \in 1..Len(plan) : plan[n][1] = s /\ plan[n][2] = k /\ plan[n][3] = j

\* The index of the slice.
NewLocs(plan, cols, s, k) ==
  [j \in 1..NLeaves[cols[k]] |-> Relocate(plan, CopyOf(plan, s, k, j))]
SliceStripe(plan, idx, cols, s) ==
  [row_count |-> idx[s].row_count,
   columns |-> [k \in 1..Len(cols) |-> NewLocs(plan, cols, s, k)]]
SliceIndex(plan, idx, cols) == [s \in 1..Len(idx) |-> SliceStripe(plan, idx, cols, s)]

LEMMA SliceIndexIs ==
  ASSUME NEW file, NEW idx, NEW cols, NEW plan, Planned(file, idx, cols, plan)
  PROVE  ProjectedStripes(file, cols) = SliceIndex(plan, idx, cols)
<1>1. StripesOf(file) = idx /\ plan = CopyPlan(file, cols)
  BY DEF Planned, Readable
<1> QED
  BY <1>1 DEF ProjectedStripes, SliceIndex, SliceStripe, NewLocs, CopyOf

LEMMA PlannedCopies ==
  ASSUME NEW file, NEW idx, NEW cols, NEW plan, Planned(file, idx, cols, plan)
  PROVE  CopiesChosen(plan, idx, cols)
<1>1. Readable(file, idx) /\ Chosen(cols) /\ plan = CopyPlan(file, cols)
  BY DEF Planned
<1>2. CopiesChosen(CopyPlan(file, cols), idx, cols)
  <2>1. Readable(file, idx) /\ Chosen(cols)
    BY <1>1
  <2> QED BY <2>1, PlanIs
<1> QED
  BY <1>1, <1>2

(* The index of the slice finds the copy of the leaf it stands for.         *)
LEMMA CopyOfIs ==
  ASSUME NEW plan, NEW idx, NEW cols, CopiesChosen(plan, idx, cols),
         NEW s \in 1..Len(idx), NEW k \in 1..Len(cols), NEW j \in 1..NLeaves[cols[k]]
  PROVE  /\ CopyOf(plan, s, k, j) \in 1..Len(plan)
         /\ plan[CopyOf(plan, s, k, j)] = Item(idx, cols, s, k, j)
<1> DEFINE n == CopyOf(plan, s, k, j)
<1>1. PICK m \in 1..Len(plan) : plan[m] = Item(idx, cols, s, k, j)
  BY DEF CopiesChosen
<1>2. plan[m][1] = s /\ plan[m][2] = k /\ plan[m][3] = j
  BY <1>1 DEF Item
<1>3. n \in 1..Len(plan) /\ plan[n][1] = s /\ plan[n][2] = k /\ plan[n][3] = j
  BY <1>1, <1>2 DEF CopyOf
<1> HIDE DEF n
<1>4. PICK t \in 1..Len(idx), u \in 1..Len(cols) :
        \E w \in 1..NLeaves[cols[u]] : plan[n] = Item(idx, cols, t, u, w)
  BY <1>3 DEF CopiesChosen
<1>5. PICK w \in 1..NLeaves[cols[u]] : plan[n] = Item(idx, cols, t, u, w)
  BY <1>4
<1>6. t = s /\ u = k /\ w = j
  BY <1>3, <1>5 DEF Item
<1> QED
  BY <1>3, <1>5, <1>6 DEF n

(* The location it records is where the copy is, with the checksum the      *)
(* source had.                                                              *)
LEMMA NewLocIs ==
  ASSUME NEW file, NEW idx, NEW cols, NEW plan, Planned(file, idx, cols, plan),
         NEW pre, Len(pre) = BodyStart,
         NEW s \in 1..Len(idx), NEW k \in 1..Len(cols), NEW j \in 1..NLeaves[cols[k]]
  PROVE  /\ NewLocs(plan, cols, s, k)[j] \in Locations
         /\ NewLocs(plan, cols, s, k)[j].crc32c = Source(idx, cols, s, k)[j].crc32c
         /\ PieceAt(NewLocs(plan, cols, s, k)[j], pre, Pieces(file, plan), CopyOf(plan, s, k, j))
<1> DEFINE n == CopyOf(plan, s, k, j)
           pieces == Pieces(file, plan)
           loc == NewLocs(plan, cols, s, k)[j]
           old == plan[n][4]
<1>1. CopiesChosen(plan, idx, cols)
  BY PlannedCopies
<1>2. n \in 1..Len(plan) /\ plan[n] = Item(idx, cols, s, k, j)
  BY <1>1, CopyOfIs
<1>3. old = Source(idx, cols, s, k)[j]
  BY <1>2 DEF Item
<1>4. loc = [old EXCEPT !.offset = CopiedBefore(plan, n)]
  BY DEF NewLocs, Relocate
<1>5. Len(pieces) = Len(plan) /\ pieces \in Seq(Seq(Cells))
  BY PiecesAre
<1>6. /\ old \in Locations /\ pieces[n] = old.crc32c /\ Len(pieces[n]) = old.length
      /\ CopiedBefore(plan, n) = Len(Flat(pieces, n - 1))
  <2> HIDE DEF n
  <2> QED BY <1>2, PiecesAre
<1> HIDE DEF n, loc, old, pieces
<1>7. /\ loc.offset = CopiedBefore(plan, n) /\ loc.length = old.length
      /\ loc.crc32c = old.crc32c
  BY <1>4, <1>6 DEF Locations
<1>8. CopiedBefore(plan, n) \in Nat
  <2> DEFINE T == Cells
  <2>1. n \in 1..Len(pieces) /\ pieces \in Seq(Seq(T))
    BY <1>2, <1>5
  <2> HIDE DEF T
  <2>2. Len(Flat(pieces, n - 1)) \in Nat
    BY <2>1, FlatStepLength
  <2> QED BY <1>6, <2>2
<1>9. loc \in Locations
  BY <1>4, <1>6, <1>8 DEF Locations
<1>10. PieceAt(loc, pre, pieces, n)
  BY <1>2, <1>5, <1>6, <1>7 DEF PieceAt
<1> QED
  BY <1>3, <1>7, <1>9, <1>10 DEF n, loc, pieces

(* It records the value its source records.                                 *)
LEMMA NewLocsRecord ==
  ASSUME NEW file, NEW idx, NEW cols, NEW plan, Planned(file, idx, cols, plan),
         NEW s \in 1..Len(idx), NEW k \in 1..Len(cols)
  PROVE  /\ NewLocs(plan, cols, s, k) \in Seq(Locations)
         /\ Len(NewLocs(plan, cols, s, k)) = NLeaves[cols[k]]
         /\ HasRecord(cols[k], NewLocs(plan, cols, s, k), idx[s].row_count)
         /\ Recorded(cols[k], NewLocs(plan, cols, s, k), idx[s].row_count)
              = Recorded(cols[k], Source(idx, cols, s, k), idx[s].row_count)
<1> DEFINE locs == NewLocs(plan, cols, s, k)
           source == Source(idx, cols, s, k)
           rows == idx[s].row_count
           c == cols[k]
           m == NLeaves[c]
<1>1. Readable(file, idx) /\ Chosen(cols)
  BY DEF Planned
<1>2. c \in ColumnNames /\ Len(source) = m /\ HasRecord(c, source, rows)
  BY <1>1, SourceFacts
<1>3. m \in Nat
  BY <1>2
<1>4. \A j \in 1..m : locs[j] \in Locations /\ locs[j].crc32c = source[j].crc32c
  <2> DEFINE pre == Preamble(0, cols)
  <2>1. Len(pre) = BodyStart
    BY DEF Preamble, BodyStart
  <2> HIDE DEF pre
  <2> QED BY <2>1, NewLocIs
<1>5. locs \in Seq(Locations) /\ Len(locs) = m
  <2> DEFINE R == Locations
  <2>1. locs \in [1..m -> R]
    BY <1>4 DEF NewLocs
  <2>2. Len(locs) = m
    BY <1>3 DEF NewLocs
  <2> HIDE DEF locs, R, m
  <2>3. locs \in Seq(R)
    BY <1>3, <2>1, FunctionIsSeq
  <2> QED BY <2>2, <2>3 DEF R
<1> HIDE DEF locs, source, rows, c, m
<1>6. PICK v \in Value : Records(c, source, v) /\ RowsOf[v] = rows
  BY <1>2 DEF HasRecord
<1>7. Records(c, locs, v)
  <2>1. Len(source) = NLeaves[c] /\ \A j \in 1..Len(source) : source[j].crc32c = Encode(c, v, j)
    BY <1>6 DEF Records
  <2> QED BY <1>2, <1>4, <1>5, <2>1 DEF Records
<1>8. Recorded(c, locs, rows) = v /\ Recorded(c, source, rows) = v
  BY <1>2, <1>6, <1>7, RecordUnique
<1>9. HasRecord(c, locs, rows)
  BY <1>6, <1>7 DEF HasRecord
<1> QED
  BY <1>5, <1>8, <1>9 DEF locs, source, rows, c, m

-----------------------------------------------------------------------------
(* A slice: the file                                                        *)

SliceHead(file, cols, plan) == Preamble(0, cols) \o FlattenSeq(Pieces(file, plan))
SliceFile(file, idx, cols, plan) ==
  SliceHead(file, cols, plan) \o Trailer(0, SliceIndex(plan, idx, cols))

(* No leaf of a readable file fails its CRC, so the slice is made.          *)
LEMMA SliceIsMade ==
  ASSUME NEW file, NEW idx, NEW cols, NEW plan, Planned(file, idx, cols, plan)
  PROVE  ProjectTo(file, cols) = SliceFile(file, idx, cols, plan)
<1>1. plan = CopyPlan(file, cols)
  BY DEF Planned
<1>2. \A n \in 1..Len(plan) : LeafOK(file, plan[n][4])
  BY PiecesAre
<1>3. ProjectedStripes(file, cols) = SliceIndex(plan, idx, cols)
  BY SliceIndexIs
<1>4. ~ \E n \in 1..Len(plan) : ~LeafOK(file, plan[n][4])
  BY <1>2
<1> DEFINE made(p) ==
             IF \E n \in 1..Len(p) : ~LeafOK(file, p[n][4]) THEN None
             ELSE Preamble(0, cols) \o FlattenSeq(Pieces(file, p))
                    \o Trailer(0, ProjectedStripes(file, cols))
<1>5. ProjectTo(file, cols) = made(CopyPlan(file, cols))
  BY DEF ProjectTo, Pieces
<1>6. made(CopyPlan(file, cols)) = made(plan)
  <2> HIDE DEF made
  <2> QED BY <1>1
<1>7. made(plan) = SliceFile(file, idx, cols, plan)
  BY <1>3, <1>4 DEF SliceFile, SliceHead
<1> HIDE DEF made
<1> QED
  BY <1>5, <1>6, <1>7

(* The preamble and the copies of a slice are cells.                        *)
LEMMA SliceHeadIs ==
  ASSUME NEW file, NEW idx, NEW cols, NEW plan, Planned(file, idx, cols, plan)
  PROVE  /\ SliceHead(file, cols, plan) \in Seq(Cells)
         /\ Len(SliceHead(file, cols, plan)) >= BodyStart
         /\ SliceHead(file, cols, plan)[1] = [header |-> 0]
         /\ SliceHead(file, cols, plan)[2] = [schema |-> cols]
<1> DEFINE pre == Preamble(0, cols)
           body == FlattenSeq(Pieces(file, plan))
           T == Cells
<1>1. cols \in Seq(ColumnNames)
  BY DEF Planned, Chosen
<1>2. pre \in Seq(T) /\ Len(pre) = 2 /\ pre[1] = [header |-> 0] /\ pre[2] = [schema |-> cols]
  BY <1>1 DEF Preamble, Cells
<1>3. body \in Seq(T)
  <2> DEFINE pieces == Pieces(file, plan)
  <2>1. pieces \in Seq(Seq(T))
    BY PiecesAre
  <2> HIDE DEF pieces, T
  <2>2. FlattenSeq(pieces) \in Seq(T)
    BY <2>1, FlattenType
  <2> QED BY <2>2 DEF pieces
<1> HIDE DEF pre, body, T
<1>4. /\ pre \o body \in Seq(T \cup T) /\ Len(pre \o body) = Len(pre) + Len(body)
      /\ \A i \in 1..Len(pre) : (pre \o body)[i] = pre[i]
  <2>1. pre \in Seq(T)
    BY <1>2
  <2> QED BY <1>3, <2>1, ConcatElements
<1>5. Len(body) \in Nat /\ T \cup T = T
  BY <1>3
<1>6. SliceHead(file, cols, plan) = pre \o body
  BY DEF SliceHead, pre, body
<1>7. 1 \in 1..Len(pre) /\ 2 \in 1..Len(pre)
  BY <1>2
<1> QED
  BY <1>2, <1>4, <1>5, <1>6, <1>7 DEF T, BodyStart

(* The index of a slice is an index, and fits its schema.                   *)
LEMMA SliceIndexFits ==
  ASSUME NEW file, NEW idx, NEW cols, NEW plan, Planned(file, idx, cols, plan)
  PROVE  /\ SliceIndex(plan, idx, cols) \in Seq(StripeIndexes)
         /\ Len(SliceIndex(plan, idx, cols)) = Len(idx)
         /\ FooterFits(SliceIndex(plan, idx, cols), cols)
<1> DEFINE new == SliceIndex(plan, idx, cols)
           n == Len(idx)
           m == Len(cols)
           R == Seq(Locations)
           locs(s) == [k \in 1..m |-> NewLocs(plan, cols, s, k)]
<1>1. Readable(file, idx) /\ Chosen(cols) /\ n \in Nat /\ m \in Nat
  BY DEF Planned, Readable, Chosen
<1>2. n # 0
  <2>1. FooterFits(StripesOf(file), SchemaOf(file)) /\ StripesOf(file) = idx
    BY <1>1 DEF Readable, Opens, StripesOf, SchemaOf
  <2>2. idx # <<>> /\ idx \in Seq(StripeIndexes)
    BY <1>1, <2>1 DEF FooterFits, Readable
  <2> QED BY <2>2
<1>3. ASSUME NEW s \in 1..n
      PROVE  /\ locs(s) \in Seq(R) /\ Len(locs(s)) = m
             /\ \A k \in 1..m : Len(locs(s)[k]) = NLeaves[cols[k]]
  <2>1. \A k \in 1..m :
          NewLocs(plan, cols, s, k) \in R /\ Len(NewLocs(plan, cols, s, k)) = NLeaves[cols[k]]
    BY NewLocsRecord
  <2> DEFINE ls == locs(s)
  <2>2. ls \in [1..m -> R] /\ \A k \in 1..m : Len(ls[k]) = NLeaves[cols[k]]
    BY <2>1
  <2>3. Len(ls) = m
    BY <1>1
  <2> HIDE DEF ls, R, m
  <2>4. ls \in Seq(R)
    BY <1>1, <2>2, FunctionIsSeq
  <2> QED BY <2>2, <2>3, <2>4 DEF ls
<1>4. ASSUME NEW s \in 1..n
      PROVE  /\ SliceStripe(plan, idx, cols, s) = [row_count |-> idx[s].row_count, columns |-> locs(s)]
             /\ idx[s].row_count \in Nat
  <2>1. idx \in Seq(StripeIndexes)
    BY <1>1 DEF Readable
  <2>2. idx[s] \in StripeIndexes
    BY <2>1
  <2>3. idx[s].row_count \in Nat
    BY <2>2 DEF StripeIndexes
  <2> QED BY <2>3 DEF SliceStripe
<1> HIDE DEF locs
<1>5. ASSUME NEW s \in 1..n
      PROVE  /\ SliceStripe(plan, idx, cols, s) \in StripeIndexes
             /\ SliceStripe(plan, idx, cols, s).columns = locs(s)
  BY <1>3, <1>4 DEF StripeIndexes
<1>6. /\ new \in [1..n -> StripeIndexes] /\ Len(new) = n
      /\ \A s \in 1..n : new[s].columns = locs(s)
  BY <1>1, <1>5 DEF SliceIndex
<1> HIDE DEF new, n
<1>7. new \in Seq(StripeIndexes)
  <2> DEFINE Q == StripeIndexes
  <2>1. new \in [1..n -> Q]
    BY <1>6
  <2> HIDE DEF Q
  <2>2. new \in Seq(Q)
    BY <1>1, <2>1, FunctionIsSeq
  <2> QED BY <2>2 DEF Q
<1>8. new # <<>>
  BY <1>2, <1>6
<1>9. FooterFits(new, cols)
  BY <1>3, <1>6, <1>8 DEF FooterFits
<1> QED
  BY <1>6, <1>7, <1>9 DEF new, n

(* So the slice opens, with the chosen columns for its schema.              *)
LEMMA SliceOpens ==
  ASSUME NEW file, NEW idx, NEW cols, NEW plan, Planned(file, idx, cols, plan)
  PROVE  /\ SliceFile(file, idx, cols, plan) \in Seq(Cells)
         /\ Opens(SliceFile(file, idx, cols, plan))
         /\ StripesOf(SliceFile(file, idx, cols, plan)) = SliceIndex(plan, idx, cols)
         /\ SchemaOf(SliceFile(file, idx, cols, plan)) = cols
<1> DEFINE out == SliceFile(file, idx, cols, plan)
           head == SliceHead(file, cols, plan)
           new == SliceIndex(plan, idx, cols)
           S == Cells
<1>1. /\ head \in Seq(S) /\ Len(head) >= BodyStart
      /\ head[1] = [header |-> 0] /\ head[2] = [schema |-> cols]
  BY SliceHeadIs
<1>2. new \in Seq(StripeIndexes) /\ FooterFits(new, cols)
  BY SliceIndexFits
<1>3. out = head \o Trailer(0, new)
  BY DEF SliceFile
<1> HIDE DEF out, head, new
<1>4. Trailer(0, new) \in Seq(S)
  BY <1>2 DEF Trailer, Cells
<1>5. SealedFile(out, S, head, 0, new, cols)
  BY <1>1, <1>2, <1>3, <1>4 DEF SealedFile
<1> HIDE DEF S
<1>6. out \in Seq(S) /\ Opens(out) /\ StripesOf(out) = new /\ SchemaOf(out) = cols
  BY <1>5, SealedFileOpens
<1> QED
  BY <1>6 DEF out, new, S

(* Every leaf of the slice is where its index says.                         *)
LEMMA SliceLeafOK ==
  ASSUME NEW file, NEW idx, NEW cols, NEW plan, Planned(file, idx, cols, plan),
         NEW s \in 1..Len(idx), NEW k \in 1..Len(cols), NEW j \in 1..NLeaves[cols[k]]
  PROVE  LeafOK(SliceFile(file, idx, cols, plan), NewLocs(plan, cols, s, k)[j])
<1> DEFINE S == {[header |-> 0], [schema |-> cols]}
           T == Cells
           pre == Preamble(0, cols)
           pieces == Pieces(file, plan)
           tail == Trailer(0, SliceIndex(plan, idx, cols))
           loc == NewLocs(plan, cols, s, k)[j]
           n == CopyOf(plan, s, k, j)
<1>1. pre \in Seq(S) /\ Len(pre) = BodyStart
  BY DEF Preamble, BodyStart
<1>2. tail \in Seq(T)
  BY SliceIndexFits DEF Trailer, Cells
<1>3. pieces \in Seq(Seq(T))
  BY PiecesAre
<1>4. SliceFile(file, idx, cols, plan) = pre \o FlattenSeq(pieces) \o tail
  BY DEF SliceFile, SliceHead
<1>5. PieceAt(loc, pre, pieces, n)
  <2> HIDE DEF pre
  <2> QED BY <1>1, NewLocIs
<1> HIDE DEF S, T, pre, pieces, tail, loc, n
<1>6. LeafOK(pre \o FlattenSeq(pieces) \o tail, loc)
  BY <1>1, <1>2, <1>3, <1>5, PieceReads
<1> QED
  BY <1>4, <1>6 DEF loc

(* A column of the slice reads back as the column of the source.            *)
LEMMA SliceColumnIs ==
  ASSUME NEW file, NEW idx, NEW cols, NEW plan, Planned(file, idx, cols, plan),
         NEW s \in 1..Len(idx), NEW k \in 1..Len(cols)
  PROVE  ReadPiece(SliceFile(file, idx, cols, plan), cols[k], NewLocs(plan, cols, s, k),
                   idx[s].row_count)
           = StripeOf(idx[s])[cols[k]]
<1> DEFINE out == SliceFile(file, idx, cols, plan)
           c == cols[k]
           locs == NewLocs(plan, cols, s, k)
           rows == idx[s].row_count
<1>1. c \in ColumnNames
  BY DEF Planned, Chosen
<1>2. /\ Len(locs) = NLeaves[c] /\ HasRecord(c, locs, rows)
      /\ Recorded(c, locs, rows) = Recorded(c, Source(idx, cols, s, k), rows)
  BY NewLocsRecord
<1>3. \A j \in 1..NLeaves[c] : LeafOK(out, locs[j])
  BY SliceLeafOK
<1>4. Recorded(c, Source(idx, cols, s, k), rows) = StripeOf(idx[s])[c]
  BY <1>1 DEF StripeOf, Source
<1> HIDE DEF out, c, locs, rows
<1>5. ReadPiece(out, c, locs, rows) = Recorded(c, locs, rows)
  BY <1>1, <1>2, <1>3, PieceIs
<1>6. ReadPiece(out, c, locs, rows) = StripeOf(idx[s])[c]
  BY <1>2, <1>4, <1>5
<1> QED
  BY <1>6 DEF out, c, locs, rows

\* Columns cols of the stripes an index was made for.
StripesWith(idx, cols) ==
  [s \in 1..Len(idx) |-> [c \in ToSet(cols) |-> StripeOf(idx[s])[c]]]

(* What Contents gives of the slice.                                        *)
LEMMA SliceContents ==
  ASSUME NEW file, NEW idx, NEW cols, NEW plan, Planned(file, idx, cols, plan)
  PROVE  Contents(SliceFile(file, idx, cols, plan)) = StripesWith(idx, cols)
<1> DEFINE out == SliceFile(file, idx, cols, plan)
           new == SliceIndex(plan, idx, cols)
<1>1. Opens(out) /\ StripesOf(out) = new /\ SchemaOf(out) = cols
  BY SliceOpens
<1>2. Len(new) = Len(idx)
  BY SliceIndexFits
<1>3. ASSUME NEW s \in 1..Len(idx)
      PROVE  /\ new[s].row_count = idx[s].row_count
             /\ \A k \in 1..Len(cols) : new[s].columns[k] = NewLocs(plan, cols, s, k)
  BY DEF SliceIndex, SliceStripe
<1>4. ASSUME NEW s \in 1..Len(idx), NEW k \in 1..Len(cols)
      PROVE  ReadPiece(out, cols[k], NewLocs(plan, cols, s, k), idx[s].row_count)
               = StripeOf(idx[s])[cols[k]]
  BY SliceColumnIs
<1> HIDE DEF out, new
<1>5. ASSUME NEW s \in 1..Len(idx)
      PROVE  ReadStripe(out, new[s], cols) = [c \in ToSet(cols) |-> StripeOf(idx[s])[c]]
  <2> DEFINE at(c) == CHOOSE k \in 1..Len(cols) : cols[k] = c
             stripe == new[s]
             piece(c) == ReadPiece(out, c, stripe.columns[at(c)], stripe.row_count)
  <2>1. \A c \in ToSet(cols) : at(c) \in 1..Len(cols) /\ cols[at(c)] = c
    BY DEF ToSet, Planned, Chosen
  <2>2. ReadStripe(out, stripe, cols) = [c \in ToSet(cols) |-> piece(c)]
    BY DEF ReadStripe
  <2> HIDE DEF at
  <2>3. ASSUME NEW c \in ToSet(cols) PROVE piece(c) = StripeOf(idx[s])[c]
    <3> DEFINE k == at(c)
    <3>1. k \in 1..Len(cols) /\ cols[k] = c
      BY <2>1
    <3> HIDE DEF k
    <3>2. stripe.columns[k] = NewLocs(plan, cols, s, k) /\ stripe.row_count = idx[s].row_count
      BY <1>3, <3>1
    <3>3. ReadPiece(out, c, NewLocs(plan, cols, s, k), idx[s].row_count) = StripeOf(idx[s])[c]
      BY <1>4, <3>1
    <3>4. piece(c) = ReadPiece(out, c, stripe.columns[k], stripe.row_count)
      BY DEF k
    <3> QED BY <3>2, <3>3, <3>4
  <2> HIDE DEF piece
  <2> QED BY <2>2, <2>3 DEF stripe
<1>6. Contents(out) = [s \in 1..Len(new) |-> ReadStripe(out, new[s], cols)]
  BY <1>1 DEF Contents
<1>7. Contents(out) = [s \in 1..Len(idx) |-> ReadStripe(out, new[s], cols)]
  BY <1>2, <1>6
<1> QED
  BY <1>5, <1>7 DEF out, StripesWith

(* A slice of a readable file.                                              *)
LEMMA SliceOfReadable ==
  ASSUME NEW file, NEW idx, Readable(file, idx), NEW cols, Chosen(cols)
  PROVE  /\ ProjectTo(file, cols) # None
         /\ Contents(ProjectTo(file, cols)) = StripesWith(idx, cols)
<1> DEFINE plan == CopyPlan(file, cols)
           out == SliceFile(file, idx, cols, plan)
<1>1. Planned(file, idx, cols, plan)
  BY DEF Planned
<1> HIDE DEF plan
<1>2. ProjectTo(file, cols) = out
  BY <1>1, SliceIsMade
<1>3. out \in Seq(Cells)
  BY <1>1, SliceOpens
<1>4. Contents(out) = StripesWith(idx, cols)
  BY <1>1, SliceContents
<1> HIDE DEF out
<1>5. out # None
  BY <1>3, NoneAssumption
<1> QED
  BY <1>2, <1>4, <1>5

\* What finish sealed can be read, stripe for stripe.
SealedInv == status = "finished" => Readable(disk, StripesOf(disk))

LEMMA StepSealedInv == WriterInv /\ SealedInv /\ [Next]_vars => SealedInv'
<1> SUFFICES ASSUME WriterInv, SealedInv, [Next]_vars PROVE SealedInv'
  OBVIOUS
<1>1. CASE Finish
  <2> DEFINE idx == FinalStripes
             file == disk \o Trailer(disk[1].header, idx)
  <2>1. status = "open" /\ CanFinish /\ disk' = file
    BY <1>1 DEF Finish, Ready
  <2>2. Readable(file, idx)
    BY <2>1, SealedReadable
  <2> HIDE DEF idx, file
  <2>3. StripesOf(file) = idx
    BY <2>2 DEF Readable
  <2> QED BY <2>1, <2>2, <2>3 DEF SealedInv
<1>2. CASE UNCHANGED vars
  BY <1>2 DEF vars, SealedInv
<1>3. ASSUME NEW c \in ColumnNames, NEW v \in Value, BeginColumn(c, v) \/ ColumnRefused(c, v)
      PROVE  status' # "finished"
  BY <1>3 DEF BeginColumn, ColumnRefused, Accepted, Ready
<1>4. CASE WriteLeaf \/ LeafFails \/ ColumnWritten \/ FinishStripe
  BY <1>4 DEF WriteLeaf, LeafFails, ColumnWritten, FinishStripe, Ready, SealedInv
<1>5. CASE FinishFails \/ Die
  BY <1>5 DEF FinishFails, Die, SealedInv
<1> QED
  BY <1>1, <1>2, <1>3, <1>4, <1>5 DEF Next, SealedInv

(* A column slice of a finished file, for any choice and order of columns,  *)
(* is a file that opens and holds their values, stripe for stripe.          *)
THEOREM WriterSliceFaithful == Spec => []SliceFaithful
<1>1. ASSUME SealedInv PROVE SliceFaithful
  <2> SUFFICES ASSUME status = "finished", NEW cols \in Selections
               PROVE  /\ ProjectTo(disk, cols) # None
                      /\ Contents(ProjectTo(disk, cols))
                           = [s \in 1..Len(Contents(disk)) |->
                                [c \in ToSet(cols) |-> Contents(disk)[s][c]]]
    BY DEF SliceFaithful
  <2> DEFINE idx == StripesOf(disk)
  <2>1. Readable(disk, idx)
    BY <1>1 DEF SealedInv
  <2>2. Chosen(cols)
    BY DEF Selections, SeqOf, Chosen
  <2>3. idx \in Seq(StripeIndexes)
    BY <2>1 DEF Readable
  <2> HIDE DEF idx
  <2>4. /\ ProjectTo(disk, cols) # None
        /\ Contents(ProjectTo(disk, cols)) = StripesWith(idx, cols)
    BY <2>1, <2>2, SliceOfReadable
  <2>5. Contents(disk) = StripesIn(idx)
    BY <2>1, ReadableContents
  <2>6. Len(StripesIn(idx)) = Len(idx) /\ \A s \in 1..Len(idx) : StripesIn(idx)[s] = StripeOf(idx[s])
    BY <2>3 DEF StripesIn
  <2>7. [s \in 1..Len(StripesIn(idx)) |-> [c \in ToSet(cols) |-> StripesIn(idx)[s][c]]]
          = StripesWith(idx, cols)
    BY <2>6 DEF StripesWith
  <2> QED BY <2>4, <2>5, <2>7
<1>2. Init => SealedInv
  BY DEF Init, SealedInv
<1> QED
  BY <1>1, <1>2, InitWriterInv, StepWriterInv, StepSealedInv, PTL DEF Spec
=============================================================================
