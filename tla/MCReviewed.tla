----------------------------- MODULE MCReviewed -----------------------------
(* Constants for model checking ReviewedWorkflow. *)
EXTENDS ReviewedWorkflow, TLC

OneInventory == [b \in Batches |-> "inv1"]
OneItem == [inv \in Inventories |-> "item1"]

\* Every request asks for 0.02 of every item.
AskTwo == [r \in Requests |-> [i \in Items |-> 2 * Cent]]

\* 0.02 in every batch: two requests for 0.02 need both batches.
TwoEach == [b \in Batches |-> 2 * Cent]

\* 0.03 in every batch: two requests for 0.02 do not both fit.
ThreeEach == [b \in Batches |-> 3 * Cent]

AllInvs == [c \in Clerks |-> Inventories]

RequestSymmetry == Permutations(Requests)

=============================================================================
