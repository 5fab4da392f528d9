----------------------------- MODULE MCStockTxn -----------------------------
(* Constants for model checking StockTxn. *)
EXTENDS StockTxn, TLC

CONSTANTS p1, p2, b1, b2, v1, v2

\* Two batches of one item in one warehouse, or of two items.
OneInventory == [b \in Batches |-> v1]

OneEach == [b \in Batches |-> 1]
TwoEach == [b \in Batches |-> 2]

=============================================================================
