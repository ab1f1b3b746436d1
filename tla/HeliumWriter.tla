---------------------------- MODULE HeliumWriter ----------------------------
(***************************************************************************)
(* HeliumWriter (src/src/core/file.rs): a sequential writer over a Write + *)
(* Seek sink.  Every encoded leaf goes to the sink as it is produced; the  *)
(* locations are kept in memory until finish writes the footer.  Encoding  *)
(* and I/O may fail at any leaf, the caller may go on after an error, the  *)
(* process may die at any point, leaving a prefix of what it wrote.        *)
(***************************************************************************)
EXTENDS HeliumReader, FiniteSets

CONSTANTS
  Fits,        \* pairs <<column, value>> that decompose under the column's type
  MaxStripes,  \* bound on committed stripes
  MaxFailures  \* bound on failed calls that leave a trace in the writer

ASSUME FitsAssumption == Fits \subseteq ColumnNames \X Value
ASSUME BoundsAssumption == MaxStripes \in Nat /\ MaxFailures \in Nat

\* What the sink and the index are made of.
LeafCells ==
  UNION {UNION {ToSet(Encode(c, v, j)) : j \in 1..NLeaves[c]} :
         c \in ColumnNames, v \in Value}
Locations == [offset : Nat, length : Nat, crc32c : Seq(LeafCells)]
StripeIndexes == [row_count : Nat, columns : Seq(Seq(Locations))]

\* The cells of a file of this writer, or of a slice of one.
Cells ==
  LeafCells \cup [header : {0, 1}] \cup [schema : Seq(ColumnNames)]
  \cup [footer : Seq(StripeIndexes)] \cup [footer_len : {FooterLen}]
  \cup [crc : Seq(StripeIndexes)]

\* None is none of the things that may be missing.
ASSUME NoneAssumption ==
  /\ None \notin Nat \cup Value
  /\ None \notin Seq(Locations) /\ None \notin Seq(Cells)

VARIABLES
  disk,               \* the sink's bytes; its position is always at the end
  current_written,    \* [ColumnNames -> locations of the column's leaves, or None]
  call,               \* <<column, value>> of the write_column in progress, or None
  phys_locs,          \* locations of the leaves it has written so far
  current_row_count,  \* rows of the stripe in progress, or None
  stripes,            \* the index of the finished stripes
  status,             \* "open", "finished", "failed" (finish gave an error) or "dead"
  failures            \* failed calls so far

callVars == <<call, phys_locs>>
memVars == <<current_written, current_row_count, stripes, call, phys_locs>>
vars == <<disk, current_written, call, phys_locs, current_row_count, stripes,
          status, failures>>

Offset == Len(disk) - BodyStart  \* stream_position() - body_start

TypeOK ==
  /\ disk \in Seq(Cells)
  /\ current_written \in [ColumnNames -> Seq(Locations) \cup {None}]
  /\ call \in (ColumnNames \X Value) \cup {None}
  /\ phys_locs \in Seq(Locations)
  /\ current_row_count \in Nat \cup {None}
  /\ stripes \in Seq(StripeIndexes)
  /\ status \in {"open", "finished", "failed", "dead"}
  /\ failures \in 0..MaxFailures

\* HeliumWriter::new (flags 0) or with_catalog_ref (flags 1).
Init ==
  /\ \E flags \in {0, 1} : disk = Preamble(flags, Columns)
  /\ current_written = [c \in ColumnNames |-> None]
  /\ call = None
  /\ phys_locs = <<>>
  /\ current_row_count = None
  /\ stripes = <<>>
  /\ status = "open"
  /\ failures = 0

-----------------------------------------------------------------------------
(* write_column: one action per leaf, since the process may die in between  *)

\* No call in progress, and the writer is not consumed.
Ready == status = "open" /\ call = None

\* Mutant: the length of the column is not compared with the stripe's.
AcceptedAnyLength(c, v) == Ready /\ current_written[c] = None /\ v \in Value

\* The early returns: the column is in the schema, not yet written in this
\* stripe, and as long as the first one.
Accepted(c, v) ==
  /\ Ready
  /\ current_written[c] = None
  /\ current_row_count \in {None, RowsOf[v]}

\* The row count is set before anything that may fail.
BeginColumn(c, v) ==
  /\ Accepted(c, v)
  /\ <<c, v>> \in Fits
  /\ current_row_count' = RowsOf[v]
  /\ call' = <<c, v>>
  /\ phys_locs' = <<>>
  /\ UNCHANGED <<disk, current_written, stripes, status, failures>>

\* decompose refuses the value.
ColumnRefused(c, v) ==
  /\ Accepted(c, v)
  /\ <<c, v>> \notin Fits
  /\ failures < MaxFailures
  /\ current_row_count' = RowsOf[v]
  /\ failures' = failures + 1
  /\ UNCHANGED <<disk, current_written, callVars, stripes, status>>

MoreLeaves == call # None /\ Len(phys_locs) < NLeaves[call[1]]
NextLeaf == Encode(call[1], call[2], Len(phys_locs) + 1)

\* Mutant: the position is asked for after the write.
WriteLeafPositionAfter ==
  /\ status = "open"
  /\ MoreLeaves
  /\ disk' = disk \o NextLeaf
  /\ phys_locs' = Append(phys_locs, Location(Offset + Len(NextLeaf), NextLeaf))
  /\ UNCHANGED <<current_written, call, current_row_count, stripes, status, failures>>

\* Encode a leaf and append it to the sink; its location is where it went.
WriteLeaf ==
  /\ status = "open"
  /\ MoreLeaves
  /\ disk' = disk \o NextLeaf
  /\ phys_locs' = Append(phys_locs, Location(Offset, NextLeaf))
  /\ UNCHANGED <<current_written, call, current_row_count, stripes, status, failures>>

\* The leaf does not encode (torn = 0), or its write fails after some cells.
\* The caller gets the error; the row count and the bytes written stay.
LeafFails ==
  /\ status = "open"
  /\ MoreLeaves
  /\ failures < MaxFailures
  /\ \E torn \in 0..(Len(NextLeaf) - 1) : disk' = disk \o SubSeq(NextLeaf, 1, torn)
  /\ call' = None
  /\ phys_locs' = <<>>
  /\ failures' = failures + 1
  /\ UNCHANGED <<current_written, current_row_count, stripes, status>>

ColumnWritten ==
  /\ status = "open"
  /\ call # None /\ Len(phys_locs) = NLeaves[call[1]]
  /\ current_written' = [current_written EXCEPT ![call[1]] = phys_locs]
  /\ call' = None
  /\ phys_locs' = <<>>
  /\ UNCHANGED <<disk, current_row_count, stripes, status, failures>>

-----------------------------------------------------------------------------
(* finish_stripe and finish *)

\* Mutant: one column makes a stripe.
SomeWritten == \E c \in ColumnNames : current_written[c] # None

AllWritten == \A c \in ColumnNames : current_written[c] # None
InProgress == \E c \in ColumnNames : current_written[c] # None

NewStripe ==
  [row_count |-> IF current_row_count = None THEN 0 ELSE current_row_count,
   columns |-> [i \in 1..Len(Columns) |-> current_written[Columns[i]]]]

\* Mutant: every stripe ends with a footer of its own.
FinishStripeWithFooter ==
  /\ Ready
  /\ AllWritten
  /\ Len(stripes) < MaxStripes
  /\ disk' = disk \o Trailer(disk[1].header, Append(stripes, NewStripe))
  /\ stripes' = Append(stripes, NewStripe)
  /\ current_written' = [c \in ColumnNames |-> None]
  /\ current_row_count' = None
  /\ UNCHANGED <<callVars, status, failures>>

FinishStripe ==
  /\ Ready
  /\ AllWritten                  \* otherwise an error that changes nothing
  /\ Len(stripes) < MaxStripes
  /\ stripes' = Append(stripes, NewStripe)
  /\ current_written' = [c \in ColumnNames |-> None]
  /\ current_row_count' = None
  /\ UNCHANGED <<disk, callVars, status, failures>>

\* The stripes finish puts in the footer, after committing the last one.
FinalStripes ==
  IF InProgress \/ stripes = <<>> THEN Append(stripes, NewStripe) ELSE stripes

CanFinish == (InProgress \/ stripes = <<>>) => AllWritten

Finish ==
  /\ Ready
  /\ CanFinish
  /\ Len(FinalStripes) <= MaxStripes
  /\ disk' = disk \o Trailer(disk[1].header, FinalStripes)
  /\ status' = "finished"
  /\ UNCHANGED <<memVars, failures>>

\* finish consumes the writer even when it returns an error: a column is
\* missing, or the sink fails somewhere in the trailer or at the flush.
FinishFails ==
  /\ Ready
  /\ \/ ~CanFinish /\ disk' = disk
     \/ /\ CanFinish
        /\ Len(FinalStripes) <= MaxStripes
        /\ \E n \in 0..(FooterLen + TrailerLen) :
             disk' = disk \o SubSeq(Trailer(disk[1].header, FinalStripes), 1, n)
  /\ status' = "failed"
  /\ UNCHANGED <<memVars, failures>>

\* The process dies, or drops the writer: the sink keeps a prefix of what it
\* was given (BufWriter may hold the rest).
Die ==
  /\ status = "open"
  /\ \E n \in 0..Len(disk) : disk' = SubSeq(disk, 1, n)
  /\ status' = "dead"
  /\ UNCHANGED <<memVars, failures>>

Next ==
  \/ \E c \in ColumnNames, v \in Value : BeginColumn(c, v) \/ ColumnRefused(c, v)
  \/ WriteLeaf
  \/ LeafFails
  \/ ColumnWritten
  \/ FinishStripe
  \/ Finish
  \/ FinishFails
  \/ Die

Spec == Init /\ [][Next]_vars

-----------------------------------------------------------------------------
(* What the file promises *)

(* The writer implements the table of stripes: read back from the sink's    *)
(* bytes through the recorded locations, the finished stripes and the open  *)
(* one are exactly what the successful calls put there, whatever failed     *)
(* calls left between them; the file opens exactly when the table is sealed,*)
(* and then its reader sees the committed stripes and nothing else.         *)
CommittedStripes == [s \in 1..Len(stripes) |-> ReadStripe(disk, stripes[s], Columns)]

OpenStripe ==
  [c \in ColumnNames |->
     IF current_written[c] = None THEN None
     ELSE ReadPiece(disk, c, current_written[c], current_row_count)]

NothingOpen == [c \in ColumnNames |-> None]

TableCommitted ==
  IF Opens(disk) THEN Contents(disk)
  ELSE IF status = "open" THEN CommittedStripes ELSE <<>>
TableOpen == IF status = "open" THEN OpenStripe ELSE NothingOpen
TableStatus ==
  IF Opens(disk) THEN "sealed" ELSE IF status = "open" THEN "writing" ELSE "abandoned"

Table == INSTANCE StripeTable WITH
  Name <- ColumnNames, Missing <- None, Val <- Value, Rows <- RowsOf,
  committed <- TableCommitted, open <- TableOpen, status <- TableStatus

TableSpec == Table!Spec

(* A file that was cut short is rejected when it is opened, wherever the    *)
(* cut fell: "the reader can detect truncation".                            *)
TruncationDetected ==
  /\ \A n \in 0..(Len(disk) - 1) : ~Opens(SubSeq(disk, 1, n))
  /\ status \in {"open", "dead"} => ~Opens(disk)

(* A column slice holds the same values as its source, stripe for stripe,   *)
(* for every choice and order of columns, although its bytes sit elsewhere. *)
Selections ==
  {cols \in SeqOf(ColumnNames, Len(Columns)) :
     cols # <<>> /\ Cardinality(ToSet(cols)) = Len(cols)}

SliceFaithful ==
  status = "finished" =>
    \A cols \in Selections :
      /\ ProjectTo(disk, cols) # None
      /\ Contents(ProjectTo(disk, cols)) =
           [s \in 1..Len(Contents(disk)) |->
              [c \in ToSet(cols) |-> Contents(disk)[s][c]]]

(* While the sink is intact every recorded leaf reads back with its CRC,    *)
(* whatever failed and torn writes lie between the leaves.                  *)
LeavesIntact ==
  status # "dead" =>
    /\ \A s \in 1..Len(stripes) : \A i \in 1..Len(stripes[s].columns) :
         \A j \in 1..Len(stripes[s].columns[i]) :
           LeafOK(disk, stripes[s].columns[i][j])
    /\ \A c \in ColumnNames : current_written[c] # None =>
         \A j \in 1..Len(current_written[c]) : LeafOK(disk, current_written[c][j])
    /\ \A j \in 1..Len(phys_locs) : LeafOK(disk, phys_locs[j])

=============================================================================
