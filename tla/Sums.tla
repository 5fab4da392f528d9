------------------------------- MODULE Sums -------------------------------
(***************************************************************************)
(* The arithmetic the stock models need: sums of natural-number columns    *)
(* over a set of rows (SQL's SUM), subtraction that stops at zero          *)
(* (max(Decimal('0'), a - b)), and the rounding of a value stored in a     *)
(* column with fewer decimals than it has.                                 *)
(*                                                                         *)
(* A sum of naturals is defined as the size of a disjoint union, not by    *)
(* recursion: its laws then follow from the first-order theory of          *)
(* cardinality (module SumLemmas) without induction.                       *)
(***************************************************************************)
EXTENDS Integers, FiniteSets

\* f[x] distinct tokens for row x.
Tokens(f, x) == {x} \X (1 .. f[x])

\* SUM(f) over the rows S; 0 when S is empty.
SumOver(f, S) == Cardinality(UNION {Tokens(f, x) : x \in S})

\* n stored in a column that keeps multiples of unit: rounded, halves up.
RoundTo(n, unit) == unit * ((n + unit \div 2) \div unit)

\* max(0, a - b)
Monus(a, b) == IF a >= b THEN a - b ELSE 0

=============================================================================
