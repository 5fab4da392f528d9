--------------------------- MODULE MCReliefRequest ---------------------------
(* Instances of ReliefRequest for TLC.  Clients, and header contents, are    *)
(* interchangeable.                                                          *)
EXTENDS ReliefRequest, TLC

Symmetry == Permutations(Clients) \cup Permutations(Headers)

=============================================================================
