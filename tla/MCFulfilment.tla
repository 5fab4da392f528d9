---------------------------- MODULE MCFulfilment ----------------------------
(* Constants for model checking Fulfilment. *)
EXTENDS Fulfilment, TLC

\* One item in one warehouse: requests compete for its batch.
OneInventory == [b \in Batches |-> "inv1"]
OneItem == [inv \in Inventories |-> "item1"]

\* Every request asks for 0.02 of every item.
AskTwo == [r \in Requests |-> [i \in Items |-> 2 * Cent]]

\* 0.02 in every batch
TwoEach == [b \in Batches |-> 2 * Cent]

\* Requests are interchangeable.
RequestSymmetry == Permutations(Requests)

AllInvs == [c \in Clerks |-> Inventories]

=============================================================================
