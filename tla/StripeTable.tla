---------------------------- MODULE StripeTable ----------------------------
(***************************************************************************)
(* What writing a .he file promises its caller, without offsets, bytes or  *)
(* footers: columns are put into an open stripe, stripes are committed in  *)
(* order, and the table is sealed once, after which it holds exactly the   *)
(* committed stripes.  An abandoned table holds nothing.                   *)
(***************************************************************************)
EXTENDS Naturals, Sequences

CONSTANTS
  Name,     \* column names
  Val,      \* what a column of a stripe can hold
  Rows,     \* [Val -> number of rows of the value]
  Missing   \* a column that is not written yet

VARIABLES
  committed,  \* sequence of [Name -> Val], the finished stripes
  open,       \* [Name -> Val or Missing], the stripe being written
  status      \* "writing", "sealed" or "abandoned"

tableVars == <<committed, open, status>>

Init == committed = <<>> /\ open = [c \in Name |-> Missing] /\ status = "writing"

\* Write one column, once per stripe and with as many rows as the others.
Put(c, v) ==
  /\ status = "writing"
  /\ open[c] = Missing
  /\ \A d \in Name : open[d] # Missing => Rows[open[d]] = Rows[v]
  /\ open' = [open EXCEPT ![c] = v]
  /\ UNCHANGED <<committed, status>>

CommitStripe ==
  /\ \A c \in Name : open[c] # Missing
  /\ committed' = Append(committed, open)
  /\ open' = [c \in Name |-> Missing]

Commit == status = "writing" /\ CommitStripe /\ UNCHANGED status

\* Seal, committing the open stripe first; never an empty table.
Seal ==
  /\ status = "writing"
  /\ \/ CommitStripe
     \/ /\ committed # <<>> /\ \A c \in Name : open[c] = Missing
        /\ UNCHANGED <<committed, open>>
  /\ status' = "sealed"

Abandon ==
  /\ status = "writing"
  /\ status' = "abandoned"
  /\ committed' = <<>>
  /\ open' = [c \in Name |-> Missing]

Next == (\E c \in Name, v \in Val : Put(c, v)) \/ Commit \/ Seal \/ Abandon

Spec == Init /\ [][Next]_tableVars

=============================================================================
