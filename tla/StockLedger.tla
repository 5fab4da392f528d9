---------------------------- MODULE StockLedger ----------------------------
(***************************************************************************)
(* What reservations promise, without packages, users, inventory totals or *)
(* rounding: every open claim holds some quantity of each batch, the holds *)
(* of a batch never exceed what is on hand, and shipping a claim takes     *)
(* exactly what it holds.                                                  *)
(***************************************************************************)
EXTENDS Integers

CONSTANTS Claims,   \* who holds stock
          Lots,     \* what is held
          Opening,  \* the quantity of each lot at the start
          SumOver(_, _)  \* the sum of a function over a set

VARIABLES
  held,     \* held[c][l]: quantity of l that claim c holds
  shipped,  \* shipped[c][l]: quantity of l that left with c
  onHand,   \* onHand[l]: quantity of l that is left
  closed    \* the claims that were shipped

ledger == <<held, shipped, onHand, closed>>

\* One column of a claim-by-lot table.
Column(table, l) == [c \in Claims |-> table[c][l]]

LedgerInit ==
  /\ held = [c \in Claims |-> [l \in Lots |-> 0]]
  /\ shipped = [c \in Claims |-> [l \in Lots |-> 0]]
  /\ onHand = Opening
  /\ closed = {}

\* An open claim replaces what it holds; there is enough for everybody.
Hold(c) ==
  /\ c \notin closed
  /\ held'[c] \in [Lots -> Nat]
  /\ held' = [held EXCEPT ![c] = held'[c]]
  /\ \A l \in Lots : SumOver(Column(held', l), Claims) <= onHand[l]
  /\ UNCHANGED <<shipped, onHand, closed>>

\* An open claim leaves with exactly what it holds.
Ship(c) ==
  /\ c \notin closed
  /\ closed' = closed \cup {c}
  /\ onHand' = [l \in Lots |-> onHand[l] - held[c][l]]
  /\ shipped' = [shipped EXCEPT ![c] = held[c]]
  /\ held' = [held EXCEPT ![c] = [l \in Lots |-> 0]]

LedgerNext == \E c \in Claims : Hold(c) \/ Ship(c)

LedgerSpec == LedgerInit /\ [][LedgerNext]_ledger

=============================================================================
