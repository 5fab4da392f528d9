----------------------------- MODULE MCDonations -----------------------------
(* Two clients, a donation entered earlier and one still to come. *)
EXTENDS Donations, TLC

ClientSymmetry == Permutations(Clients)
=============================================================================
