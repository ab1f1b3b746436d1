----------------------------- MODULE MCDuckScan -----------------------------
(* Every cell of a file is different from the others, except for nulls.     *)
EXTENDS DuckScan

MCKind == [x |-> "plain", n |-> "nullable"]
MCListKind == [l |-> "list"]

\* The numbers of rows of the stripes.
Shapes == {<<0>>, <<2>>, <<3>>, <<0, 3>>, <<1, 0, 2>>, <<3, 3>>, <<2, 3, 0>>}

\* The nulls of a file are at the same rows of each stripe.
MCFiles ==
  {[s \in 1..Len(shape) |->
      [x |-> [r \in 1..shape[s] |-> 10 * s + r],
       n |-> [r \in 1..shape[s] |-> IF r \in nulls THEN Null ELSE 10 * s + r]]] :
   shape \in Shapes, nulls \in {{}, {1}, {2}, {1, 3}, {1, 2, 3}}}

\* Row r has r or r + 1 elements.
MCListFiles ==
  {[s \in 1..Len(shape) |->
      [l |-> [r \in 1..shape[s] |-> [k \in 1..(r + d) |-> 100 * s + 10 * r + k]]]] :
   shape \in Shapes, d \in {0, 1}}

MCProjections == {<<>>, <<"x">>, <<"n">>, <<"n", "x">>}
MCListProjections == {<<"l">>}

=============================================================================
