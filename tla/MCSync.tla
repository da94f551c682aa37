------------------------------ MODULE MCSync ------------------------------
(* Instances of Sync for TLC. *)
EXTENDS SyncInduction

\* Two rows of one data source.
TwoRows == [p \in {1, 2} |-> "board"]

\* One row of a data source.
OneRow == [p \in {1} |-> "board"]
OneTwice == [p \in {1} |-> 2]

\* A row of a data source and a loose page.
RowAndLoose == [p \in {1, 2} |-> IF p = 1 THEN "board" ELSE NoSource]

\* Revisions of the two pages.
Twice == [p \in {1, 2} |-> 2]
TwiceAndOnce == [p \in {1, 2} |-> IF p = 1 THEN 2 ELSE 1]
=============================================================================
