-------------------------- MODULE FulfilmentProofs --------------------------
(***************************************************************************)
(* Proofs about Fulfilment, for any requests, batches, quantities, users   *)
(* and any ratio of the column scales.                                     *)
(*                                                                         *)
(* The inductive invariant is the conjunction of the checked invariants:   *)
(* the batch bounds need the types, the inventory bounds need the batch    *)
(* bounds and the equality of each total with its (rounded) batch sum.     *)
(*                                                                         *)
(* The second part is about the reviewed workflow: reservations are        *)
(* exactly the pending allocations, stock is conserved, and the workflow   *)
(* implements StockLedger.  ReviewedSpec implies Spec, so the invariant of *)
(* the first part holds.  ReservedIsPending is inductive on top of it:     *)
(* because the reservation of a batch is at least the package's own share  *)
(* of it, the floor at zero in the service never cuts anything off, and    *)
(* every save moves reservation and allocation by the same amount.         *)
(***************************************************************************)
EXTENDS ReviewedWorkflow, SumLemmas

-----------------------------------------------------------------------------
(* Rows *)

\* A row that is missing counts as zero.
LEMMA QtyNat ==
  ASSUME NEW rows, IsRows(rows), NEW b
  PROVE  Qty(rows, b) \in Nat
BY DEF Qty, IsRows

\* What a form carries is a set of rows.
LEMMA FormRowsAreRows ==
  ASSUME NEW r, NEW rows \in FormRows(r)
  PROVE  IsRows(rows)
<1>1. PICK K \in SUBSET RequestBatches(r) : rows \in [K -> Quantities]
  BY DEF FormRows
<1>2. DOMAIN rows = K /\ K \subseteq Batches
  BY <1>1 DEF RequestBatches
<1> QED
  BY Zenon, <1>1, <1>2, FormAssumption DEF IsRows

\* The total of an item over a set of rows is a natural number.
LEMMA TotalNat ==
  ASSUME NEW rows, IsRows(rows), NEW i
  PROVE  Total(rows, i) \in Nat
<1> DEFINE S == {b \in DOMAIN rows : BatchItem(b) = i}
<1>1. S \subseteq Batches
  BY DEF IsRows
<1>2. IsFiniteSet(S)
  BY Zenon, <1>1, FiniteAssumption, FS_Subset
<1>3. \A b \in S : rows[b] \in Nat
  BY DEF IsRows
<1>4. SumOver(rows, S) \in Nat
  <2> HIDE DEF S
  <2> QED
    BY Zenon, <1>2, <1>3, SumNat
<1> QED
  BY <1>4 DEF Total

\* The batches of an inventory row are finitely many.
LEMMA BatchesOfFinite ==
  ASSUME NEW inv
  PROVE  IsFiniteSet(BatchesOf(inv)) /\ BatchesOf(inv) \subseteq Batches
<1>1. BatchesOf(inv) \subseteq Batches
  BY DEF BatchesOf
<1> QED
  BY <1>1, FiniteAssumption, FS_Subset

\* A stored natural number is a natural number.
LEMMA StoredNat ==
  ASSUME NEW n \in Nat
  PROVE  Stored(n) \in Nat
BY CentAssumption, RoundNat DEF Stored

\* The batch column f sums up to a natural number in every inventory row.
LEMMA ColumnNat ==
  ASSUME NEW f \in [Batches -> Nat], NEW inv
  PROVE  SumOver(f, BatchesOf(inv)) \in Nat
<1>1. \A b \in BatchesOf(inv) : f[b] \in Nat
  BY Zenon, BatchesOfFinite
<1> QED
  BY Zenon, <1>1, BatchesOfFinite, SumNat

-----------------------------------------------------------------------------
(* The reservation service keeps the stock consistent *)

StockTypeOK ==
  /\ usable \in [Batches -> Nat]
  /\ reserved \in [Batches -> Nat]
  /\ invUsable \in [Inventories -> Nat]
  /\ invReserved \in [Inventories -> Nat]

StockInv == StockTypeOK /\ BatchBounds /\ InventoryMatches

\* The sum of an inventory row none of whose batches changed.
LEMMA UntouchedSum ==
  ASSUME NEW f, NEW g, NEW touched, NEW inv, inv \notin touched,
         \A b \in Batches : BatchInv[b] \notin touched => g[b] = f[b]
  PROVE  SumOver(g, BatchesOf(inv)) = SumOver(f, BatchesOf(inv))
<1>1. \A b \in BatchesOf(inv) : g[b] = f[b]
  BY DEF BatchesOf
<1> QED
  BY Zenon, <1>1, SumSame

\* Moving the reservations from one set of rows to another.
LEMMA ReserveKeepsStock ==
  ASSUME StockInv, NEW old, NEW new, IsRows(old), IsRows(new),
         reserve_inventory(old, new)
  PROVE  StockInv'
<1> DEFINE touched == Affected(DOMAIN old \cup Positive(new))
<1>1. \A b \in Batches : Qty(old, b) \in Nat /\ Qty(new, b) \in Nat
  BY QtyNat
<1>2. /\ reserved' = [b \in Batches |-> Shifted(b, old, new)]
      /\ usable' = usable /\ invUsable' = invUsable
  BY Zenon DEF reserve_inventory
<1>3. \A b \in Batches : reserved'[b] \in Nat /\ reserved'[b] <= usable[b]
  <2> SUFFICES ASSUME NEW b \in Batches
               PROVE  Shifted(b, old, new) \in Nat /\ Shifted(b, old, new) <= usable[b]
    BY Zenon, <1>2
  <2>1. reserved[b] \in Nat /\ usable[b] \in Nat /\ reserved[b] <= usable[b]
    BY Zenon DEF StockInv, StockTypeOK, BatchBounds
  <2>2. Qty(new, b) # Qty(old, b) => reserved[b] + Qty(new, b) - Qty(old, b) <= usable[b]
    BY Zenon DEF reserve_inventory
  <2> QED
    BY <1>1, <2>1, <2>2 DEF Shifted, Monus
<1>4. reserved' \in [Batches -> Nat]
  BY Zenon, <1>2, <1>3
<1>5. \A b \in Batches : BatchInv[b] \notin touched => reserved'[b] = reserved[b]
  <2> SUFFICES ASSUME NEW b \in Batches, BatchInv[b] \notin touched
               PROVE  Shifted(b, old, new) = reserved[b]
    BY Zenon, <1>2
  <2>1. b \notin DOMAIN old /\ b \notin Positive(new)
    BY Zenon DEF Affected
  <2>2. Qty(old, b) = 0
    BY <2>1 DEF Qty
  <2>3. Qty(new, b) = 0
    BY <1>1, <2>1 DEF Qty, Positive
  <2>4. reserved[b] \in Nat
    BY Zenon DEF StockInv, StockTypeOK
  <2> QED
    BY <2>2, <2>3, <2>4 DEF Shifted, Monus
<1>6. invReserved' = [inv \in Inventories |->
        IF inv \in touched THEN Stored(SumOver(reserved', BatchesOf(inv)))
                           ELSE invReserved[inv]]
  BY Zenon DEF reserve_inventory
<1>7. \A inv \in Inventories : invReserved'[inv] = Stored(SumOver(reserved', BatchesOf(inv)))
  <2> SUFFICES ASSUME NEW inv \in Inventories, inv \notin touched
               PROVE  invReserved[inv] = Stored(SumOver(reserved', BatchesOf(inv)))
    BY Zenon, <1>6
  <2> HIDE DEF touched
  <2>1. SumOver(reserved', BatchesOf(inv)) = SumOver(reserved, BatchesOf(inv))
    BY <1>5, UntouchedSum
  <2> QED
    BY Zenon, <2>1 DEF StockInv, InventoryMatches
<1>8. StockTypeOK'
  <2>1. \A inv \in Inventories : invReserved'[inv] \in Nat
    BY Zenon, <1>4, <1>7, ColumnNat, StoredNat
  <2>2. invReserved' \in [Inventories -> Nat]
    BY Zenon, <1>6, <2>1
  <2> QED
    BY Zenon, <1>2, <1>4, <2>2 DEF StockInv, StockTypeOK
<1>9. BatchBounds'
  BY Zenon, <1>2, <1>3 DEF BatchBounds
<1>10. InventoryMatches'
  <2>1. \A inv \in Inventories : invUsable'[inv] = Stored(SumOver(usable', BatchesOf(inv)))
    BY Zenon, <1>2 DEF StockInv, InventoryMatches
  <2> QED
    BY Zenon, <1>7, <2>1 DEF InventoryMatches
<1> QED
  BY <1>8, <1>9, <1>10 DEF StockInv

\* Subtracting rows from the reservations, with a floor at zero, recomputes
\* matching totals (shared by release and commit).
LEMMA DrainKeepsTotals ==
  ASSUME StockInv, NEW rows, IsRows(rows),
         reserved' = [b \in Batches |-> Monus(reserved[b], Qty(rows, b))],
         invReserved' = [inv \in Inventories |->
            IF inv \in Affected(Positive(rows)) THEN Stored(SumOver(reserved', BatchesOf(inv)))
                                                ELSE invReserved[inv]]
  PROVE  /\ reserved' \in [Batches -> Nat]
         /\ invReserved' \in [Inventories -> Nat]
         /\ \A inv \in Inventories : invReserved'[inv] = Stored(SumOver(reserved', BatchesOf(inv)))
<1> DEFINE touched == Affected(Positive(rows))
<1>1. \A b \in Batches : Qty(rows, b) \in Nat /\ reserved[b] \in Nat
  BY Zenon, QtyNat DEF StockInv, StockTypeOK
<1>2. reserved' \in [Batches -> Nat]
  BY <1>1 DEF Monus
<1>3. \A b \in Batches : BatchInv[b] \notin touched => reserved'[b] = reserved[b]
  <2> SUFFICES ASSUME NEW b \in Batches, BatchInv[b] \notin touched
               PROVE  Monus(reserved[b], Qty(rows, b)) = reserved[b]
    BY Zenon
  <2>1. Qty(rows, b) = 0
    BY <1>1 DEF Affected, Positive, Qty
  <2> QED
    BY <1>1, <2>1 DEF Monus
<1>4. \A inv \in Inventories : invReserved'[inv] = Stored(SumOver(reserved', BatchesOf(inv)))
  <2> SUFFICES ASSUME NEW inv \in Inventories, inv \notin touched
               PROVE  invReserved[inv] = Stored(SumOver(reserved', BatchesOf(inv)))
    BY Zenon
  <2> HIDE DEF touched
  <2>1. SumOver(reserved', BatchesOf(inv)) = SumOver(reserved, BatchesOf(inv))
    BY <1>3, UntouchedSum
  <2> QED
    BY Zenon, <2>1 DEF StockInv, InventoryMatches
<1>5. \A inv \in Inventories : invReserved'[inv] \in Nat
  BY Zenon, <1>2, <1>4, ColumnNat, StoredNat
<1> QED
  BY Zenon, <1>2, <1>4, <1>5

\* Releasing the reservations of a set of rows.
LEMMA ReleaseKeepsStock ==
  ASSUME StockInv, NEW rows, IsRows(rows), release_all_reservations(rows)
  PROVE  StockInv'
<1>1. /\ reserved' = [b \in Batches |-> Monus(reserved[b], Qty(rows, b))]
      /\ usable' = usable /\ invUsable' = invUsable
  BY Zenon DEF release_all_reservations
<1>2. /\ reserved' \in [Batches -> Nat]
      /\ invReserved' \in [Inventories -> Nat]
      /\ \A inv \in Inventories : invReserved'[inv] = Stored(SumOver(reserved', BatchesOf(inv)))
  BY Zenon, DrainKeepsTotals DEF release_all_reservations
<1>3. \A b \in Batches : reserved'[b] <= usable[b]
  <2> SUFFICES ASSUME NEW b \in Batches
               PROVE  Monus(reserved[b], Qty(rows, b)) <= usable[b]
    BY Zenon, <1>1
  <2>1. reserved[b] \in Nat /\ usable[b] \in Nat /\ reserved[b] <= usable[b]
    BY Zenon DEF StockInv, StockTypeOK, BatchBounds
  <2> QED
    BY <2>1, QtyNat DEF Monus
<1> QED
  BY Zenon, <1>1, <1>2, <1>3 DEF StockInv, StockTypeOK, BatchBounds, InventoryMatches

\* Deducting rows from the stock.
LEMMA CommitKeepsStock ==
  ASSUME StockInv, NEW rows, IsRows(rows), commit_inventory(rows)
  PROVE  StockInv'
<1> DEFINE touched == Affected(Positive(rows))
<1>1. /\ usable' = [b \in Batches |-> usable[b] - Qty(rows, b)]
      /\ reserved' = [b \in Batches |-> Monus(reserved[b], Qty(rows, b))]
      /\ invUsable' = [inv \in Inventories |->
           IF inv \in touched THEN Stored(SumOver(usable', BatchesOf(inv)))
                              ELSE invUsable[inv]]
  BY Zenon DEF commit_inventory
<1>2. /\ reserved' \in [Batches -> Nat]
      /\ invReserved' \in [Inventories -> Nat]
      /\ \A inv \in Inventories : invReserved'[inv] = Stored(SumOver(reserved', BatchesOf(inv)))
  BY Zenon, DrainKeepsTotals DEF commit_inventory
<1>3. \A b \in Batches : Qty(rows, b) \in Nat /\ Qty(rows, b) <= usable[b]
  BY QtyNat DEF commit_inventory, Qty, StockInv, StockTypeOK
<1>4. usable' \in [Batches -> Nat]
  BY <1>1, <1>3 DEF StockInv, StockTypeOK
<1>5. \A b \in Batches : reserved'[b] <= usable'[b]
  <2> SUFFICES ASSUME NEW b \in Batches
               PROVE  Monus(reserved[b], Qty(rows, b)) <= usable[b] - Qty(rows, b)
    BY Zenon, <1>1
  <2>1. reserved[b] \in Nat /\ usable[b] \in Nat /\ reserved[b] <= usable[b]
    BY Zenon DEF StockInv, StockTypeOK, BatchBounds
  <2> QED
    BY <1>3, <2>1 DEF Monus
<1>6. \A inv \in Inventories : invUsable'[inv] = Stored(SumOver(usable', BatchesOf(inv)))
  <2> SUFFICES ASSUME NEW inv \in Inventories, inv \notin touched
               PROVE  invUsable[inv] = Stored(SumOver(usable', BatchesOf(inv)))
    BY Zenon, <1>1
  <2>1. \A b \in Batches : BatchInv[b] \notin touched => usable'[b] = usable[b]
    <3> SUFFICES ASSUME NEW b \in Batches, BatchInv[b] \notin touched
                 PROVE  usable[b] - Qty(rows, b) = usable[b]
      BY Zenon, <1>1
    <3>1. Qty(rows, b) = 0
      BY <1>3 DEF Affected, Positive, Qty
    <3> QED
      BY <3>1 DEF StockInv, StockTypeOK
  <2> HIDE DEF touched
  <2>2. SumOver(usable', BatchesOf(inv)) = SumOver(usable, BatchesOf(inv))
    BY <2>1, UntouchedSum
  <2> QED
    BY Zenon, <2>2 DEF StockInv, InventoryMatches
<1>7. invUsable' \in [Inventories -> Nat]
  <2>1. \A inv \in Inventories : invUsable'[inv] \in Nat
    BY Zenon, <1>4, <1>6, ColumnNat, StoredNat
  <2> QED
    BY Zenon, <1>1, <2>1
<1> QED
  BY Zenon, <1>2, <1>4, <1>5, <1>6, <1>7 DEF StockInv, StockTypeOK, BatchBounds, InventoryMatches

\* The totals of an inventory row are ordered like its batches, rounding
\* included.
LEMMA BoundsFollow == StockInv => InventoryBounds
<1> SUFFICES ASSUME StockInv, NEW inv \in Inventories
             PROVE  invReserved[inv] <= invUsable[inv]
  BY DEF InventoryBounds
<1>1. SumOver(reserved, BatchesOf(inv)) <= SumOver(usable, BatchesOf(inv))
  <2>1. \A b \in BatchesOf(inv) :
          reserved[b] \in Nat /\ usable[b] \in Nat /\ reserved[b] <= usable[b]
    BY Zenon, BatchesOfFinite DEF StockInv, StockTypeOK, BatchBounds
  <2> QED
    BY Zenon, <2>1, BatchesOfFinite, SumMono
<1>2. /\ SumOver(reserved, BatchesOf(inv)) \in Nat
      /\ SumOver(usable, BatchesOf(inv)) \in Nat
  BY Zenon, ColumnNat DEF StockInv, StockTypeOK
<1>3. Stored(SumOver(reserved, BatchesOf(inv))) <= Stored(SumOver(usable, BatchesOf(inv)))
  BY Zenon, <1>1, <1>2, CentAssumption, RoundMono DEF Stored
<1> QED
  BY Zenon, <1>3 DEF StockInv, InventoryMatches

-----------------------------------------------------------------------------
(* The status and the issued quantity of an item *)

\* A requested quantity is a positive number of cents.
LEMMA AskedIsWhole ==
  ASSUME NEW r \in Requests, NEW i \in RequestItems(r)
  PROVE  /\ i \in Items
         /\ RequestQty[r][i] \in Nat
         /\ \E k \in Nat \ {0} : RequestQty[r][i] = Cent * k
<1>1. i \in Items /\ RequestQty[r][i] \in Nat /\ RequestQty[r][i] > 0
  BY Zenon, RequestAssumption DEF RequestItems
<1>2. RequestQty[r][i] % Cent = 0
  BY Zenon, <1>1, RequestAssumption
<1> DEFINE a == RequestQty[r][i]
           k == a \div Cent
<1>3. a = Cent * k /\ k \in Nat /\ k # 0
  <2> HIDE DEF a
  <2>1. a \in Nat /\ a > 0 /\ a % Cent = 0
    BY Zenon, <1>1, <1>2 DEF a
  <2> QED
    BY <2>1, CentAssumption
<1> QED
  BY Zenon, <1>1, <1>3

\* The status a form gives an item is one of the codes.
LEMMA NewStatusCode ==
  ASSUME NEW r, NEW rows, NEW form \in FormStatus(r), NEW i \in RequestItems(r),
         Total(rows, i) \in Nat, RequestQty[r][i] \in Nat
  PROVE  NewStatus(r, rows, form, i) \in StatusCodes
<1>1. form[i] \in StatusCodes \cup {NoStatus}
  BY Zenon, FormAssumption DEF FormStatus
<1>2. calculated_status(Total(rows, i), RequestQty[r][i]) \in StatusCodes
  BY DEF calculated_status, StatusCodes
<1> QED
  BY Zenon, <1>1, <1>2 DEF NewStatus, requested_status

\* Statuses fall into three kinds.
LEMMA StatusKinds ==
  ASSUME NEW s \in StatusCodes
  PROVE  s \in Unissued \/ s \in {"P", "L"} \/ s = "F"
BY DEF StatusCodes, Unissued

\* The issued quantity a status forces satisfies the item check once it is
\* stored, for any total.
LEMMA ForcedIssueFits ==
  ASSUME NEW s \in StatusCodes, NEW total \in Nat, NEW k \in Nat \ {0}
  PROVE  /\ Stored(issue_qty(s, total, Cent * k)) \in Nat
         /\ StatusFitsIssue(s, Stored(issue_qty(s, total, Cent * k)), Cent * k)
<1> USE CentAssumption
<1> DEFINE asked == Cent * k
           below == Cent * (k - 1)
<1>1. asked \in Nat /\ below \in Nat /\ below = asked - Cent /\ below < asked
  OBVIOUS
<1>2. Stored(asked) = asked /\ Stored(below) = below /\ Stored(0) = 0
  <2>1. Stored(asked) = asked
    BY RoundExact DEF Stored
  <2>2. Stored(below) = below
    <3>1. k - 1 \in Nat
      OBVIOUS
    <3> QED
      BY Zenon, <3>1, RoundExact DEF Stored
  <2>3. Stored(0) = 0
    <3>1. Cent * 0 = 0
      OBVIOUS
    <3> QED
      BY <3>1, RoundExact DEF Stored
  <2> QED
    BY <2>1, <2>2, <2>3
<1>3. CASE s \in Unissued
  <2>1. issue_qty(s, total, asked) = 0
    BY Zenon, <1>3 DEF issue_qty, Unissued
  <2> HIDE DEF asked
  <2> QED
    BY <1>2, <1>3, <2>1 DEF StatusFitsIssue, Unissued, asked
<1>4. CASE s \in {"P", "L"}
  <2> DEFINE issued == issue_qty(s, total, asked)
  <2>1. issued \in Nat /\ issued <= below
    <3> HIDE DEF asked, below
    <3> QED
      BY <1>1, <1>4 DEF issue_qty, Unissued
  <2>2. Stored(issued) \in Nat /\ Stored(issued) <= Stored(below)
    <3> HIDE DEF issued, below
    <3> QED
      BY Zenon, <1>1, <2>1, RoundMono, StoredNat DEF Stored
  <2>3. Stored(issued) < asked
    <3> HIDE DEF issued, below, asked
    <3> QED
      BY <1>1, <1>2, <2>2
  <2> QED
    BY Zenon, <1>4, <2>2, <2>3 DEF StatusFitsIssue, Unissued
<1>5. CASE s = "F"
  <2>1. issue_qty(s, total, asked) = asked
    BY <1>5 DEF issue_qty, Unissued
  <2> QED
    BY Zenon, <1>1, <1>2, <1>5, <2>1 DEF StatusFitsIssue, Unissued
<1> QED
  BY Zenon, <1>3, <1>4, <1>5, StatusKinds

\* So does the total that _approve_and_dispatch stores instead, once it
\* passed the comparison with the issued quantity.
LEMMA MatchedTotalFits ==
  ASSUME NEW s \in StatusCodes, NEW total \in Nat, NEW k \in Nat \ {0},
         Matches(issue_qty(s, total, Cent * k), total)
  PROVE  StatusFitsIssue(s, Stored(total), Cent * k)
<1> USE CentAssumption
<1> DEFINE asked == Cent * k
           below == Cent * (k - 1)
           issued == issue_qty(s, total, asked)
<1>1. asked \in Nat /\ below \in Nat /\ below = asked - Cent /\ below < asked
  OBVIOUS
<1>2. 10 * (issued - total) <= Cent /\ 10 * (total - issued) <= Cent
  BY Zenon DEF Matches
<1>3. \A m \in Nat : issued = Cent * m => Stored(total) = Cent * m
  <2> HIDE DEF issued
  <2> QED
    BY Zenon, <1>2, RoundNear DEF Stored
<1>4. CASE s \in Unissued
  <2>1. issued = Cent * 0
    BY <1>4 DEF issue_qty, Unissued
  <2>2. Stored(total) = 0
    BY <1>3, <2>1
  <2> QED
    BY Zenon, <1>4, <2>2 DEF StatusFitsIssue, Unissued
<1>5. CASE s \in {"P", "L"}
  <2>1. Stored(total) <= below
    <3>1. CASE total < below
      <4>1. Stored(total) <= Stored(below)
        <5> HIDE DEF below
        <5> QED
          BY <1>1, <3>1, RoundMono DEF Stored
      <4>2. Stored(below) = below
        <5>1. k - 1 \in Nat
          OBVIOUS
        <5> QED
          BY Zenon, <5>1, RoundExact DEF Stored
      <4> QED
        BY <4>1, <4>2
    <3>2. CASE ~(total < below)
      <4>1. issued = below
        <5> HIDE DEF asked, below
        <5> QED
          BY Zenon, <1>1, <1>5, <3>2 DEF issue_qty, Unissued
      <4>2. k - 1 \in Nat
        OBVIOUS
      <4>3. Stored(total) = below
        BY Zenon, <1>3, <4>1, <4>2
      <4> QED
        BY <1>1, <4>3
    <3> QED
      BY <3>1, <3>2
  <2>2. Stored(total) \in Nat
    BY StoredNat
  <2>3. Stored(total) < asked
    <3> HIDE DEF asked, below
    <3> QED
      BY <1>1, <2>1, <2>2
  <2> QED
    BY Zenon, <1>5, <2>3 DEF StatusFitsIssue, Unissued
<1>6. CASE s = "F"
  <2>1. issued = Cent * k
    BY <1>6 DEF issue_qty, Unissued
  <2>2. Stored(total) = Cent * k
    BY <1>3, <2>1
  <2> QED
    BY <1>6, <2>2 DEF StatusFitsIssue, Unissued
<1> QED
  BY Zenon, <1>4, <1>5, <1>6, StatusKinds

-----------------------------------------------------------------------------
(* The inductive invariant *)

ItemsTypeOK == ritem \in [Requests -> [Items -> ItemRows]]
AllocTypeOK == alloc = [r \in Requests |-> alloc[r]] /\ \A r \in Requests : IsRows(alloc[r])

\* Needed for the finality of a handover: the package that
\* _process_allocations creates replaces none that was handed over.
ReceivedWasDispatched == \A r \in Requests : pkg[r].received => pkg[r].status = "D"

IInv == TypeOK /\ BatchBounds /\ InventoryMatches /\ ItemsConsistent /\ ReceivedWasDispatched

\* The parts of the invariant that the lemmas speak of.
LEMMA Parts ==
  ASSUME IInv
  PROVE  StockInv /\ ItemsTypeOK /\ AllocTypeOK
BY Zenon DEF IInv, TypeOK, StockInv, StockTypeOK, ItemsTypeOK, AllocTypeOK

\* Replacing the rows of one request's items by rows that fit.
LEMMA ItemsReplaced ==
  ASSUME ItemsTypeOK, ItemsConsistent, NEW r \in Requests, NEW f,
         ritem' = [ritem EXCEPT ![r] = [i \in Items |->
                     IF i \in RequestItems(r) THEN f[i] ELSE ritem[r][i]]],
         \A i \in RequestItems(r) :
            f[i] \in ItemRows /\ StatusFitsIssue(f[i].status, f[i].issue, RequestQty[r][i])
  PROVE  ItemsTypeOK' /\ ItemsConsistent'
<1>1. ItemsTypeOK'
  BY Zenon DEF ItemsTypeOK
<1>2. ItemsConsistent'
  <2> SUFFICES ASSUME NEW q \in Requests, NEW i \in RequestItems(q)
               PROVE  StatusFitsIssue(ritem'[q][i].status, ritem'[q][i].issue, RequestQty[q][i])
    BY Zenon DEF ItemsConsistent
  <2>1. i \in Items
    BY Zenon DEF RequestItems
  <2>2. CASE q = r
    BY Zenon, <2>1, <2>2 DEF ItemsTypeOK
  <2>3. CASE q # r
    BY Zenon, <2>3 DEF ItemsTypeOK, ItemsConsistent
  <2> QED
    BY Zenon, <2>2, <2>3
<1> QED
  BY Zenon, <1>1, <1>2

\* Replacing the package rows of one request.
LEMMA AllocReplaced ==
  ASSUME AllocTypeOK, NEW r \in Requests, NEW rows, IsRows(rows),
         alloc' = [alloc EXCEPT ![r] = rows]
  PROVE  AllocTypeOK' /\ alloc'[r] = rows
<1>1. alloc' = [q \in Requests |-> IF q = r THEN rows ELSE alloc[q]]
  BY Zenon DEF AllocTypeOK
<1> QED
  BY Zenon, <1>1 DEF AllocTypeOK

\* _process_allocations keeps rows and items well formed.
LEMMA ProcessKeepsItems ==
  ASSUME IInv, NEW r \in Requests, NEW rows \in FormRows(r), NEW form \in FormStatus(r),
         NEW complete, process_allocations(r, rows, form, complete)
  PROVE  ItemsTypeOK' /\ ItemsConsistent' /\ AllocTypeOK'
<1> DEFINE f == [i \in RequestItems(r) |-> ItemRow(r, rows, form, i)]
<1>1. IsRows(rows)
  BY FormRowsAreRows
<1>2. \A i \in RequestItems(r) :
        f[i] \in ItemRows /\ StatusFitsIssue(f[i].status, f[i].issue, RequestQty[r][i])
  <2> SUFFICES ASSUME NEW i \in RequestItems(r)
               PROVE  /\ ItemRow(r, rows, form, i) \in ItemRows
                      /\ StatusFitsIssue(ItemRow(r, rows, form, i).status,
                                         ItemRow(r, rows, form, i).issue, RequestQty[r][i])
    BY Zenon
  <2>1. PICK k \in Nat \ {0} : RequestQty[r][i] = Cent * k
    BY Zenon, AskedIsWhole
  <2>2. Total(rows, i) \in Nat
    BY <1>1, TotalNat
  <2>3. NewStatus(r, rows, form, i) \in StatusCodes
    BY Zenon, <2>2, AskedIsWhole, NewStatusCode
  <2>4. /\ Stored(Issue(r, rows, form, i)) \in Nat
        /\ StatusFitsIssue(NewStatus(r, rows, form, i), Stored(Issue(r, rows, form, i)),
                           RequestQty[r][i])
    BY Zenon, <2>1, <2>2, <2>3, ForcedIssueFits DEF Issue
  <2> QED
    BY Zenon, <2>3, <2>4 DEF ItemRow, ItemRows
<1>3. ritem' = [ritem EXCEPT ![r] = [i \in Items |->
                  IF i \in RequestItems(r) THEN f[i] ELSE ritem[r][i]]]
  BY Zenon DEF process_allocations
<1>4. alloc' = [alloc EXCEPT ![r] = rows]
  BY Zenon DEF process_allocations
<1>5. ItemsConsistent
  BY DEF IInv
<1> HIDE DEF f
<1>6. ItemsTypeOK' /\ ItemsConsistent'
  BY Zenon, <1>2, <1>3, <1>5, Parts, ItemsReplaced
<1> QED
  BY Zenon, <1>1, <1>4, <1>6, Parts, AllocReplaced

\* _approve_and_dispatch keeps them well formed too.
LEMMA ApproveKeepsItems ==
  ASSUME IInv, NEW r \in Requests, NEW u, NEW rows \in FormRows(r),
         NEW form \in FormStatus(r), ApproveAndDispatch(r, u, rows, form)
  PROVE  ItemsTypeOK' /\ ItemsConsistent' /\ AllocTypeOK'
<1> DEFINE f == [i \in RequestItems(r) |->
                   [status |-> NewStatus(r, rows, form, i), issue |-> Stored(Total(rows, i))]]
<1>1. IsRows(rows)
  BY FormRowsAreRows
<1>2. \A i \in RequestItems(r) :
        f[i] \in ItemRows /\ StatusFitsIssue(f[i].status, f[i].issue, RequestQty[r][i])
  <2> SUFFICES ASSUME NEW i \in RequestItems(r)
               PROVE  /\ NewStatus(r, rows, form, i) \in StatusCodes
                      /\ Stored(Total(rows, i)) \in Nat
                      /\ StatusFitsIssue(NewStatus(r, rows, form, i),
                                         Stored(Total(rows, i)), RequestQty[r][i])
    BY Zenon DEF ItemRows
  <2>1. PICK k \in Nat \ {0} : RequestQty[r][i] = Cent * k
    BY Zenon, AskedIsWhole
  <2>2. Total(rows, i) \in Nat
    BY <1>1, TotalNat
  <2>3. NewStatus(r, rows, form, i) \in StatusCodes
    BY Zenon, <2>2, AskedIsWhole, NewStatusCode
  <2>4. Matches(issue_qty(NewStatus(r, rows, form, i), Total(rows, i), Cent * k),
                Total(rows, i))
    BY Zenon, <2>1 DEF ApproveAndDispatch, Issue
  <2> QED
    BY Zenon, <2>1, <2>2, <2>3, <2>4, MatchedTotalFits, StoredNat
<1>3. ritem' = [ritem EXCEPT ![r] = [i \in Items |->
                  IF i \in RequestItems(r) THEN f[i] ELSE ritem[r][i]]]
  BY Zenon DEF ApproveAndDispatch
<1>4. alloc' = [alloc EXCEPT ![r] = rows]
  BY Zenon DEF ApproveAndDispatch
<1>5. ItemsConsistent
  BY DEF IInv
<1> HIDE DEF f
<1>6. ItemsTypeOK' /\ ItemsConsistent'
  BY Zenon, <1>2, <1>3, <1>5, Parts, ItemsReplaced
<1> QED
  BY Zenon, <1>1, <1>4, <1>6, Parts, AllocReplaced

RestTypeOK ==
  /\ rqst \in [Requests -> {"SUBMITTED", "PART_FILLED"}]
  /\ pkg \in [Requests -> Package]
  /\ expired \in SUBSET Batches
  /\ ReceivedWasDispatched

\* The invariant from its parts, after a step.
LEMMA Assemble ==
  ASSUME RestTypeOK', ItemsTypeOK', ItemsConsistent', AllocTypeOK', StockInv'
  PROVE  IInv'
BY Zenon DEF RestTypeOK, ItemsTypeOK, AllocTypeOK, StockInv, StockTypeOK, IInv, TypeOK

\* A package that exists or was just created is a package.
LEMMA GetOrCreateType ==
  ASSUME IInv, NEW r \in Requests, NEW u \in Users
  PROVE  /\ GetOrCreate(r, u) \in Package
         /\ GetOrCreate(r, u).received => GetOrCreate(r, u).status = "D"
<1>1. NoPackage \in Package /\ pkg[r] \in Package
  BY Zenon DEF IInv, TypeOK, NoPackage, Package
<1>2. pkg[r].received => pkg[r].status = "D"
  BY Zenon DEF IInv, ReceivedWasDispatched
<1> QED
  BY Zenon, <1>1, <1>2 DEF GetOrCreate, Package, NoPackage

\* A handler replaces the package of r and moves the request to PART_FILLED.
LEMMA PackageReplaced ==
  ASSUME RestTypeOK, NEW r \in Requests, NEW p \in Package,
         p.received => p.status = "D",
         pkg' = [pkg EXCEPT ![r] = p],
         rqst' = [rqst EXCEPT ![r] = "PART_FILLED"],
         expired' = expired
  PROVE  RestTypeOK'
<1>1. pkg' \in [Requests -> Package]
  BY Zenon DEF RestTypeOK
<1>2. rqst' \in [Requests -> {"SUBMITTED", "PART_FILLED"}]
  BY Zenon DEF RestTypeOK
<1>3. ReceivedWasDispatched'
  BY Zenon DEF RestTypeOK, ReceivedWasDispatched
<1> QED
  BY Zenon, <1>1, <1>2, <1>3 DEF RestTypeOK

\* A pending package that user u dispatches.
LEMMA Dispatched ==
  ASSUME RestTypeOK, NEW r \in Requests, NEW u \in LMs,
         pkg' = [pkg EXCEPT ![r].status = "D", ![r].verify = u],
         rqst' = [rqst EXCEPT ![r] = "PART_FILLED"],
         expired' = expired
  PROVE  RestTypeOK'
<1> DEFINE p == [pkg[r] EXCEPT !.status = "D", !.verify = u]
<1>1. pkg[r] \in Package
  BY Zenon DEF RestTypeOK
<1>2. p \in Package /\ p.status = "D"
  BY Zenon, <1>1 DEF Package
<1>3. pkg' = [pkg EXCEPT ![r] = p]
  BY Zenon DEF RestTypeOK
<1> HIDE DEF p
<1> QED
  BY Zenon, <1>2, <1>3, PackageReplaced

\* Every step keeps the invariant.
LEMMA StepKeepsIInv == IInv /\ [Next]_vars => IInv'
<1> SUFFICES ASSUME IInv, [Next]_vars
             PROVE  IInv'
  OBVIOUS
<1>0. RestTypeOK /\ StockInv /\ ItemsTypeOK /\ AllocTypeOK /\ ItemsConsistent
  BY Zenon, Parts DEF IInv, TypeOK, RestTypeOK
<1>1. ASSUME NEW r \in Requests, NEW u \in Users, NEW rows \in FormRows(r),
             NEW form \in FormStatus(r), FormStep(r, u, rows, form)
      PROVE  IInv'
  <2>0. IsRows(rows) /\ IsRows(alloc[r])
    BY Zenon, <1>0, FormRowsAreRows DEF AllocTypeOK
  <2> DEFINE g == GetOrCreate(r, u)
  <2>g. g \in Package /\ (g.received => g.status = "D")
    BY Zenon, GetOrCreateType
  <2>1. CASE SaveDraft(r, u, rows, form)
    <3>1. StockInv'
      BY Zenon, <1>0, <2>0, <2>1, ReserveKeepsStock DEF SaveDraft
    <3>2. ItemsTypeOK' /\ ItemsConsistent' /\ AllocTypeOK'
      BY Zenon, <2>1, ProcessKeepsItems DEF SaveDraft
    <3>3. RestTypeOK'
      <4> DEFINE p == [g EXCEPT !.verify = "NULL"]
      <4>1. pkg' = [pkg EXCEPT ![r] = p] /\ rqst' = [rqst EXCEPT ![r] = "PART_FILLED"]
            /\ expired' = expired
        BY Zenon, <2>1 DEF SaveDraft
      <4> HIDE DEF g
      <4>2. p \in Package /\ (p.received => p.status = "D")
        BY Zenon, <2>g, <4>1 DEF Package
      <4> HIDE DEF p
      <4> QED
        BY Zenon, <1>0, <4>1, <4>2, PackageReplaced
    <3> QED
      BY <3>1, <3>2, <3>3, Assemble
  <2>2. CASE SubmitForApproval(r, u, rows, form)
    <3>1. StockInv'
      BY Zenon, <1>0, <2>0, <2>2, ReserveKeepsStock DEF SubmitForApproval
    <3>2. ItemsTypeOK' /\ ItemsConsistent' /\ AllocTypeOK'
      BY Zenon, <2>2, ProcessKeepsItems DEF SubmitForApproval
    <3>3. RestTypeOK'
      <4> DEFINE p == [g EXCEPT !.verify = "__PENDING_LM__"]
      <4>1. pkg' = [pkg EXCEPT ![r] = p] /\ rqst' = [rqst EXCEPT ![r] = "PART_FILLED"]
            /\ expired' = expired
        BY Zenon, <2>2 DEF SubmitForApproval
      <4> HIDE DEF g
      <4>2. p \in Package /\ (p.received => p.status = "D")
        BY Zenon, <2>g, <4>1 DEF Package
      <4> HIDE DEF p
      <4> QED
        BY Zenon, <1>0, <4>1, <4>2, PackageReplaced
    <3> QED
      BY <3>1, <3>2, <3>3, Assemble
  <2>3. CASE SendForDispatch(r, u, rows, form)
    <3>1. StockInv'
      BY Zenon, <1>0, <2>0, <2>3, CommitKeepsStock DEF SendForDispatch
    <3>2. ItemsTypeOK' /\ ItemsConsistent' /\ AllocTypeOK'
      BY Zenon, <2>3, ProcessKeepsItems DEF SendForDispatch
    <3>3. RestTypeOK'
      <4> DEFINE p == [g EXCEPT !.status = "D", !.verify = u]
      <4>1. pkg' = [pkg EXCEPT ![r] = p] /\ rqst' = [rqst EXCEPT ![r] = "PART_FILLED"]
            /\ expired' = expired /\ u \in LMs
        BY Zenon, <2>3 DEF SendForDispatch
      <4> HIDE DEF g
      <4>2. p \in Package /\ (p.received => p.status = "D")
        BY Zenon, <2>g, <4>1 DEF Package
      <4> HIDE DEF p
      <4> QED
        BY Zenon, <1>0, <4>1, <4>2, PackageReplaced
    <3> QED
      BY <3>1, <3>2, <3>3, Assemble
  <2>4. CASE SaveDraftApproval(r, u, rows, form)
    <3>1. StockInv'
      BY Zenon, <1>0, <2>0, <2>4, ReserveKeepsStock DEF SaveDraftApproval
    <3>2. ItemsTypeOK' /\ ItemsConsistent' /\ AllocTypeOK'
      BY Zenon, <2>4, ProcessKeepsItems DEF SaveDraftApproval
    <3>3. RestTypeOK'
      BY Zenon, <1>0, <2>4 DEF SaveDraftApproval, RestTypeOK, ReceivedWasDispatched
    <3> QED
      BY <3>1, <3>2, <3>3, Assemble
  <2>5. CASE ApproveAndDispatch(r, u, rows, form)
    <3>1. StockInv'
      BY Zenon, <1>0, <2>0, <2>5, CommitKeepsStock DEF ApproveAndDispatch
    <3>2. ItemsTypeOK' /\ ItemsConsistent' /\ AllocTypeOK'
      BY Zenon, <2>5, ApproveKeepsItems
    <3>3. RestTypeOK'
      <4>1. u \in LMs /\ pkg' = [pkg EXCEPT ![r].status = "D", ![r].verify = u]
            /\ rqst' = [rqst EXCEPT ![r] = "PART_FILLED"] /\ expired' = expired
        BY Zenon, <2>5 DEF ApproveAndDispatch
      <4> QED
        BY Zenon, <1>0, <4>1, Dispatched
    <3> QED
      BY <3>1, <3>2, <3>3, Assemble
  <2> QED
    BY Zenon, <1>1, <2>1, <2>2, <2>3, <2>4, <2>5 DEF FormStep
<1>2. ASSUME NEW r \in Requests, NEW u \in Users, ReviewApproval(r, u)
      PROVE  IInv'
  <2>1. StockInv'
    BY Zenon, <1>0, <1>2, CommitKeepsStock DEF ReviewApproval, AllocTypeOK
  <2>2. ItemsTypeOK' /\ ItemsConsistent' /\ AllocTypeOK'
    BY Zenon, <1>0, <1>2 DEF ReviewApproval, ItemsTypeOK, ItemsConsistent, AllocTypeOK
  <2>3. RestTypeOK'
    <3>1. u \in LMs /\ pkg' = [pkg EXCEPT ![r].status = "D", ![r].verify = u]
          /\ rqst' = [rqst EXCEPT ![r] = "PART_FILLED"] /\ expired' = expired
      BY Zenon, <1>2 DEF ReviewApproval
    <3> QED
      BY Zenon, <1>0, <3>1, Dispatched
  <2> QED
    BY <2>1, <2>2, <2>3, Assemble
<1>3. ASSUME NEW r \in Requests, CancelPreparation(r)
      PROVE  IInv'
  <2>1. IsRows(NoRows)
    BY DEF IsRows, NoRows
  <2>2. AllocTypeOK' /\ alloc'[r] = NoRows
    BY Zenon, <1>0, <1>3, <2>1, AllocReplaced DEF CancelPreparation
  <2>3. StockInv'
    BY Zenon, <1>0, <1>3, <2>1, <2>2, ReleaseKeepsStock DEF CancelPreparation
  <2>4. RestTypeOK' /\ ItemsTypeOK' /\ ItemsConsistent'
    BY Zenon, <1>0, <1>3 DEF CancelPreparation, RestTypeOK, ItemsTypeOK, ItemsConsistent,
                      ReceivedWasDispatched
  <2> QED
    BY Zenon, <2>2, <2>3, <2>4, Assemble
<1>4. ASSUME NEW r \in Requests, NEW c \in Clerks, MarkHandover(r, c)
      PROVE  IInv'
  <2>1. StockInv' /\ ItemsTypeOK' /\ ItemsConsistent' /\ AllocTypeOK'
    BY Zenon, <1>0, <1>4 DEF MarkHandover, stock, StockInv, StockTypeOK, BatchBounds,
                      InventoryMatches, ItemsTypeOK, ItemsConsistent, AllocTypeOK
  <2>2. RestTypeOK'
    <3>1. pkg[r] \in Package /\ pkg[r].status = "D"
      BY Zenon, <1>0, <1>4 DEF MarkHandover, RestTypeOK
    <3>2. [pkg[r] EXCEPT !.received = TRUE] \in Package
      BY Zenon, <3>1 DEF Package
    <3>3. pkg' = [pkg EXCEPT ![r] = [pkg[r] EXCEPT !.received = TRUE]]
          /\ rqst' = rqst /\ expired' = expired
      BY Zenon, <1>0, <1>4 DEF MarkHandover, RestTypeOK
    <3>4. pkg' \in [Requests -> Package]
      BY Zenon, <1>0, <3>2, <3>3 DEF RestTypeOK
    <3>5. ReceivedWasDispatched'
      BY Zenon, <1>0, <3>1, <3>3 DEF RestTypeOK, ReceivedWasDispatched, Package
    <3> QED
      BY Zenon, <1>0, <3>3, <3>4, <3>5 DEF RestTypeOK
  <2> QED
    BY <2>1, <2>2, Assemble
<1>5. ASSUME NEW b \in Batches, BatchExpires(b)
      PROVE  IInv'
  <2>1. StockInv' /\ ItemsTypeOK' /\ ItemsConsistent' /\ AllocTypeOK'
    BY Zenon, <1>0, <1>5 DEF BatchExpires, stock, StockInv, StockTypeOK, BatchBounds,
                      InventoryMatches, ItemsTypeOK, ItemsConsistent, AllocTypeOK
  <2>2. RestTypeOK'
    BY Zenon, <1>0, <1>5 DEF BatchExpires, RestTypeOK, ReceivedWasDispatched
  <2> QED
    BY <2>1, <2>2, Assemble
<1>6. CASE UNCHANGED vars
  BY Zenon, <1>6 DEF vars, IInv, TypeOK, BatchBounds, InventoryMatches, ItemsConsistent,
                 ReceivedWasDispatched
<1> QED
  BY Zenon, <1>1, <1>2, <1>3, <1>4, <1>5, <1>6 DEF Next

\* The initial state satisfies the invariant.
LEMMA InitIInv == Init => IInv
<1> SUFFICES ASSUME Init
             PROVE  IInv
  OBVIOUS
<1>1. ItemsTypeOK /\ AllocTypeOK /\ ItemsConsistent /\ RestTypeOK
  <2>1. ItemsTypeOK /\ ItemsConsistent
    BY Zenon DEF Init, ItemsTypeOK, ItemsConsistent, ItemRows, StatusCodes, StatusFitsIssue,
           Unissued, RequestItems
  <2>2. AllocTypeOK
    BY Zenon DEF Init, AllocTypeOK, IsRows, NoRows
  <2>3. RestTypeOK
    BY Zenon DEF Init, RestTypeOK, NoPackage, Package, ReceivedWasDispatched
  <2> QED
    BY <2>1, <2>2, <2>3
<1>2. usable \in [Batches -> Nat] /\ reserved \in [Batches -> Nat]
  BY Zenon, StockAssumption DEF Init
<1>3. \A inv \in Inventories :
        /\ invUsable[inv] = Stored(SumOver(usable, BatchesOf(inv)))
        /\ invUsable[inv] \in Nat
  BY Zenon, <1>2, ColumnNat, StoredNat DEF Init
<1>4. Stored(0) = 0
  <2>1. Cent * 0 = 0
    BY CentAssumption
  <2> QED
    BY <2>1, CentAssumption, RoundExact DEF Stored
<1>5. \A inv \in Inventories : invReserved[inv] = Stored(SumOver(reserved, BatchesOf(inv)))
  <2> SUFFICES ASSUME NEW inv \in Inventories
               PROVE  SumOver(reserved, BatchesOf(inv)) = 0
    BY Zenon, <1>4 DEF Init
  <2>1. \A b \in BatchesOf(inv) : reserved[b] = 0
    BY Zenon, BatchesOfFinite DEF Init
  <2> QED
    BY <2>1, SumZero
<1>6. invUsable \in [Inventories -> Nat] /\ invReserved \in [Inventories -> Nat]
  BY Zenon, <1>3 DEF Init
<1>7. BatchBounds
  BY <1>2 DEF Init, BatchBounds
<1> QED
  BY Zenon, <1>1, <1>2, <1>3, <1>5, <1>6, <1>7
     DEF IInv, TypeOK, InventoryMatches, ItemsTypeOK, AllocTypeOK, RestTypeOK

-----------------------------------------------------------------------------
(* The theorems *)

\* The inductive invariant holds throughout.
LEMMA IInvHolds == Spec => []IInv
BY InitIInv, StepKeepsIInv, PTL DEF Spec

\* Every table keeps its type under all packaging handlers.
THEOREM TypeCorrect == Spec => []TypeOK
<1>1. IInv => TypeOK
  BY DEF IInv
<1> QED
  BY <1>1, IInvHolds, PTL

\* No batch is ever reserved beyond its usable quantity: the check
\* c_itembatch_2b never rejects what the reservation service writes.
THEOREM BatchesBounded == Spec => []BatchBounds
<1>1. IInv => BatchBounds
  BY DEF IInv
<1> QED
  BY <1>1, IInvHolds, PTL

\* Every inventory row is the rounded sum of its batches after every
\* handler, although a handler recomputes only the rows it touches.
THEOREM InventoryIsSum == Spec => []InventoryMatches
<1>1. IInv => InventoryMatches
  BY DEF IInv
<1> QED
  BY <1>1, IInvHolds, PTL

\* No inventory row is ever reserved beyond its usable quantity, whatever
\* the rounding: c_inventory_2 never rejects a save.
THEOREM InventoryBounded == Spec => []InventoryBounds
<1>1. IInv => InventoryBounds
  BY Parts, BoundsFollow
<1> QED
  BY <1>1, IInvHolds, PTL

\* Item statuses and issued quantities always satisfy c_reliefrqst_item_2a.
THEOREM ItemsAreConsistent == Spec => []ItemsConsistent
<1>1. IInv => ItemsConsistent
  BY DEF IInv
<1> QED
  BY <1>1, IInvHolds, PTL

\* Dispatch and handover are final under every handler.
THEOREM DispatchFinal == Spec => DispatchIsFinal
<1> DEFINE Final == \A r \in Requests : /\ pkg[r].status = "D" => pkg'[r].status = "D"
                                        /\ pkg[r].received => pkg'[r].received
<1>1. IInv /\ [Next]_vars => [Final]_vars
  <2> SUFFICES ASSUME IInv, Next
               PROVE  Final
    BY Zenon
  <2>0. pkg \in [Requests -> Package] /\ ReceivedWasDispatched
    BY Zenon DEF IInv, TypeOK
  <2>1. ASSUME NEW r \in Requests, NEW u \in Users, NEW rows, NEW form,
               FormStep(r, u, rows, form)
        PROVE  Final
    <3>1. CASE SaveDraft(r, u, rows, form)
      BY Zenon, <2>0, <3>1 DEF SaveDraft, GetOrCreate, Package, NoPackage,
                        ReceivedWasDispatched
    <3>2. CASE SubmitForApproval(r, u, rows, form)
      BY Zenon, <2>0, <3>2 DEF SubmitForApproval, GetOrCreate, Package, NoPackage,
                        ReceivedWasDispatched
    <3>3. CASE SendForDispatch(r, u, rows, form)
      BY <2>0, <3>3 DEF SendForDispatch, GetOrCreate, Package, NoPackage,
                        ReceivedWasDispatched
    <3>4. CASE SaveDraftApproval(r, u, rows, form)
      BY Zenon, <3>4 DEF SaveDraftApproval
    <3>5. CASE ApproveAndDispatch(r, u, rows, form)
      BY Zenon, <2>0, <3>5 DEF ApproveAndDispatch, Package
    <3> QED
      BY Zenon, <2>1, <3>1, <3>2, <3>3, <3>4, <3>5 DEF FormStep
  <2>2. ASSUME NEW r \in Requests, NEW u \in Users, ReviewApproval(r, u)
        PROVE  Final
    BY Zenon, <2>0, <2>2 DEF ReviewApproval, Package
  <2>3. ASSUME NEW r \in Requests, NEW c \in Clerks, MarkHandover(r, c)
        PROVE  Final
    BY Zenon, <2>0, <2>3 DEF MarkHandover, Package
  <2>4. ASSUME NEW r \in Requests, CancelPreparation(r)
        PROVE  Final
    BY Zenon, <2>4 DEF CancelPreparation
  <2>5. ASSUME NEW b \in Batches, BatchExpires(b)
        PROVE  Final
    BY Zenon, <2>5 DEF BatchExpires
  <2> QED
    BY Zenon, <2>1, <2>2, <2>3, <2>4, <2>5 DEF Next
<1> QED
  BY <1>1, IInvHolds, PTL DEF Spec, DispatchIsFinal

-----------------------------------------------------------------------------
(* The reviewed workflow *)

RInv == IInv /\ ReservedIsPending /\ StockConserved /\ IssueMatchesShipped

\* Every step of the reviewed workflow is a step of the handlers.
LEMMA ReviewedIsNext == [ReviewedNext]_vars => [Next]_vars
<1> SUFFICES ASSUME ReviewedNext
             PROVE  Next
  OBVIOUS
<1>1. ASSUME NEW r \in Requests, NEW u \in Users, NEW rows \in FormRows(r),
             NEW form \in FormStatus(r), Prepare(r, u, rows, form)
      PROVE  Next
  <2>1. FormStep(r, u, rows, form)
    BY Zenon, <1>1 DEF Prepare, FormStep
  <2> QED
    BY Zenon, <2>1 DEF Next
<1>2. ASSUME NEW r \in Requests, NEW u \in Users, NEW form \in FormStatus(r),
             ApproveAsSaved(r, u, form)
      PROVE  Next
  <2>1. \E rows \in FormRows(r) : FormStep(r, u, rows, form)
    BY Zenon, <1>2 DEF ApproveAsSaved, FormStep
  <2> QED
    BY Zenon, <2>1 DEF Next
<1> QED
  BY Zenon, <1>1, <1>2 DEF ReviewedNext, Next

\* What a save changes, as far as claims are concerned.
LEMMA PrepareEffect ==
  ASSUME IInv, NEW r \in Requests, NEW u \in Users, NEW rows \in FormRows(r),
         NEW form \in FormStatus(r), Prepare(r, u, rows, form)
  PROVE  /\ Open(r) /\ Open(r)'
         /\ \A q \in Requests : q # r => pkg'[q] = pkg[q]
         /\ alloc' = [alloc EXCEPT ![r] = rows]
         /\ \A q \in Requests : q # r => ritem'[q] = ritem[q]
         /\ reserve_inventory(alloc[r], rows)
         /\ usable' = usable
<1>0. /\ pkg \in [Requests -> Package]
      /\ pkg[r].status # "D"
      /\ ritem = [q \in Requests |-> ritem[q]]
  BY Zenon DEF IInv, TypeOK, Prepare
<1>1. CASE SaveDraft(r, u, rows, form)
  BY Zenon, <1>0, <1>1 DEF SaveDraft, process_allocations, reserve_inventory, GetOrCreate, Package,
                    NoPackage, Open
<1>2. CASE SubmitForApproval(r, u, rows, form)
  BY Zenon, <1>0, <1>2 DEF SubmitForApproval, process_allocations, reserve_inventory, GetOrCreate,
                    Package, NoPackage, Open
<1>3. CASE SaveDraftApproval(r, u, rows, form)
  BY Zenon, <1>0, <1>3 DEF SaveDraftApproval, process_allocations, reserve_inventory, Open
<1> QED
  BY Zenon, <1>1, <1>2, <1>3 DEF Prepare

\* The claims on one batch, before and after a step, are natural numbers.
LEMMA ClaimsNat ==
  ASSUME AllocTypeOK, NEW r \in Requests, NEW b \in Batches
  PROVE  HeldBy(r)[b] \in Nat /\ ShippedBy(r)[b] \in Nat
<1>1. Qty(alloc[r], b) \in Nat
  BY Zenon, QtyNat DEF AllocTypeOK
<1> QED
  BY Zenon, <1>1 DEF HeldBy, ShippedBy

\* The same after a step.
LEMMA ClaimsNatNext ==
  ASSUME AllocTypeOK', NEW r \in Requests, NEW b \in Batches
  PROVE  HeldBy(r)'[b] \in Nat /\ ShippedBy(r)'[b] \in Nat
<1>1. Qty(alloc'[r], b) \in Nat
  BY Zenon, QtyNat DEF AllocTypeOK
<1> QED
  BY Zenon, <1>1 DEF HeldBy, ShippedBy

\* One claim changes: the sums of a batch move by the difference.
LEMMA HeldMoves ==
  ASSUME AllocTypeOK, AllocTypeOK', NEW r \in Requests, NEW b \in Batches,
         \A q \in Requests : q # r => HeldBy(q)'[b] = HeldBy(q)[b]
  PROVE  HeldOf(b)' = HeldOf(b) - HeldBy(r)[b] + HeldBy(r)'[b]
<1> DEFINE f == [q \in Requests |-> HeldBy(q)[b]]
           g == [q \in Requests |-> HeldBy(q)'[b]]
<1>1. \A q \in Requests : f[q] \in Nat /\ g[q] \in Nat
  BY Zenon, ClaimsNat, ClaimsNatNext
<1>2. \A q \in Requests \ {r} : f[q] = g[q]
  BY Zenon
<1>3. f[r] = HeldBy(r)[b] /\ g[r] = HeldBy(r)'[b]
  OBVIOUS
<1>4. SumOver(g, Requests) = SumOver(f, Requests) - f[r] + g[r]
  <2> HIDE DEF f, g
  <2> QED
    BY <1>1, <1>2, FiniteAssumption, SumChange
<1>5. HeldOf(b) = SumOver(f, Requests) /\ HeldOf(b)' = SumOver(g, Requests)
  BY DEF HeldOf
<1> QED
  BY Zenon, <1>3, <1>4, <1>5

\* The same for what was shipped.
LEMMA ShippedMoves ==
  ASSUME AllocTypeOK, AllocTypeOK', NEW r \in Requests, NEW b \in Batches,
         \A q \in Requests : q # r => ShippedBy(q)'[b] = ShippedBy(q)[b]
  PROVE  ShippedOf(b)' = ShippedOf(b) - ShippedBy(r)[b] + ShippedBy(r)'[b]
<1> DEFINE f == [q \in Requests |-> ShippedBy(q)[b]]
           g == [q \in Requests |-> ShippedBy(q)'[b]]
<1>1. \A q \in Requests : f[q] \in Nat /\ g[q] \in Nat
  BY Zenon, ClaimsNat, ClaimsNatNext
<1>2. \A q \in Requests \ {r} : f[q] = g[q]
  OBVIOUS
<1>3. f[r] = ShippedBy(r)[b] /\ g[r] = ShippedBy(r)'[b]
  OBVIOUS
<1>4. SumOver(g, Requests) = SumOver(f, Requests) - f[r] + g[r]
  <2> HIDE DEF f, g
  <2> QED
    BY <1>1, <1>2, FiniteAssumption, SumChange
<1>5. ShippedOf(b) = SumOver(f, Requests) /\ ShippedOf(b)' = SumOver(g, Requests)
  BY DEF ShippedOf
<1> QED
  BY <1>3, <1>4, <1>5

\* A package holds at most what all packages hold.
LEMMA ShareOfHeld ==
  ASSUME AllocTypeOK, NEW r \in Requests, NEW b \in Batches
  PROVE  HeldBy(r)[b] <= HeldOf(b) /\ HeldOf(b) \in Nat /\ ShippedOf(b) \in Nat
<1> DEFINE f == [q \in Requests |-> HeldBy(q)[b]]
           h == [q \in Requests |-> ShippedBy(q)[b]]
<1>1. (\A q \in Requests : f[q] \in Nat) /\ (\A q \in Requests : h[q] \in Nat)
  BY Zenon, ClaimsNat
<1>2. f[r] = HeldBy(r)[b]
  OBVIOUS
<1>3. f[r] <= SumOver(f, Requests) /\ SumOver(f, Requests) \in Nat
  <2> HIDE DEF f
  <2> QED
    BY Zenon, <1>1, FiniteAssumption, SumTerm, SumNat
<1>4. SumOver(h, Requests) \in Nat
  <2> HIDE DEF h
  <2> QED
    BY Zenon, <1>1, FiniteAssumption, SumNat
<1> QED
  BY Zenon, <1>2, <1>3, <1>4 DEF HeldOf, ShippedOf

-----------------------------------------------------------------------------
(* Saving and approving *)

\* A save moves the reservations and the claims by the same amounts.
LEMMA PrepareKeeps ==
  ASSUME RInv, IInv', NEW r \in Requests, NEW u \in Users, NEW rows \in FormRows(r),
         NEW form \in FormStatus(r), Prepare(r, u, rows, form)
  PROVE  ReservedIsPending' /\ StockConserved' /\ IssueMatchesShipped'
<1>1. /\ Open(r) /\ Open(r)'
      /\ \A q \in Requests : q # r => pkg'[q] = pkg[q] /\ alloc'[q] = alloc[q]
      /\ \A q \in Requests : q # r => ritem'[q] = ritem[q]
      /\ alloc'[r] = rows
      /\ reserve_inventory(alloc[r], rows)
      /\ usable' = usable
  <2>1. AllocTypeOK
    BY Parts DEF RInv
  <2> QED
    BY <2>1, PrepareEffect DEF RInv, AllocTypeOK
<1>2. AllocTypeOK /\ StockInv
  BY Parts DEF RInv
<1>3. AllocTypeOK'
  BY Zenon DEF IInv, TypeOK, AllocTypeOK
<1>4. IsRows(rows) /\ IsRows(alloc[r])
  BY Zenon, <1>2, FormRowsAreRows DEF AllocTypeOK
<1>5. ReservedIsPending'
  <2> SUFFICES ASSUME NEW b \in Batches
               PROVE  reserved'[b] = HeldOf(b)'
    BY Zenon DEF ReservedIsPending
  <2>1. \A q \in Requests : q # r => HeldBy(q)'[b] = HeldBy(q)[b]
    BY Zenon, <1>1 DEF HeldBy, Open
  <2>2. HeldOf(b)' = HeldOf(b) - HeldBy(r)[b] + HeldBy(r)'[b]
    BY Zenon, <1>2, <1>3, <2>1, HeldMoves
  <2>3. HeldBy(r)[b] = Qty(alloc[r], b) /\ HeldBy(r)'[b] = Qty(rows, b)
    BY Zenon, <1>1 DEF HeldBy
  <2>4. reserved'[b] = Monus(reserved[b] + Qty(rows, b), Qty(alloc[r], b))
    BY Zenon, <1>1 DEF reserve_inventory, Shifted
  <2>5. /\ Qty(rows, b) \in Nat /\ Qty(alloc[r], b) \in Nat
        /\ Qty(alloc[r], b) <= HeldOf(b) /\ HeldOf(b) \in Nat
    BY Zenon, <1>2, <1>4, <2>3, QtyNat, ShareOfHeld
  <2>6. reserved[b] = HeldOf(b)
    BY Zenon DEF RInv, ReservedIsPending
  <2> QED
    BY <2>2, <2>3, <2>4, <2>5, <2>6 DEF Monus
<1>6. StockConserved'
  <2> SUFFICES ASSUME NEW b \in Batches
               PROVE  usable[b] + ShippedOf(b)' = InitialQty[b]
    BY Zenon, <1>1 DEF StockConserved
  <2>1. \A q \in Requests : q # r => ShippedBy(q)'[b] = ShippedBy(q)[b]
    BY Zenon, <1>1 DEF ShippedBy, Open
  <2>2. ShippedOf(b)' = ShippedOf(b) - ShippedBy(r)[b] + ShippedBy(r)'[b]
    BY <1>2, <1>3, <2>1, ShippedMoves
  <2>3. ShippedBy(r)[b] = 0 /\ ShippedBy(r)'[b] = 0
    BY Zenon, <1>1 DEF ShippedBy
  <2>4. ShippedOf(b) \in Nat
    BY Zenon, <1>2, ShareOfHeld
  <2> QED
    BY <2>2, <2>3, <2>4 DEF RInv, StockConserved
<1>7. IssueMatchesShipped'
  BY Zenon, <1>1 DEF RInv, IssueMatchesShipped, Open
<1> QED
  BY <1>5, <1>6, <1>7

\* What an approval changes, as far as claims are concerned.
Ships(r) ==
  /\ Open(r) /\ ~Open(r)'
  /\ \A q \in Requests : q # r => pkg'[q] = pkg[q] /\ ritem'[q] = ritem[q]
  /\ alloc' = alloc
  /\ commit_inventory(alloc[r])
  /\ \A i \in RequestItems(r) : WithinRounding(ritem'[r][i].issue, Total(alloc[r], i))

\* An approval on the review page ships the package.
LEMMA ReviewShips ==
  ASSUME IInv, NEW r \in Requests, NEW u \in Users, ReviewApproval(r, u)
  PROVE  Ships(r)
<1>0. pkg \in [Requests -> Package] /\ AllocTypeOK /\ ItemsTypeOK
  BY Zenon, Parts DEF IInv, TypeOK
<1>1. \A i \in RequestItems(r) : WithinRounding(ritem[r][i].issue, Total(alloc[r], i))
  <2> SUFFICES ASSUME NEW i \in RequestItems(r)
               PROVE  WithinRounding(ritem[r][i].issue, Total(alloc[r], i))
    BY Zenon
  <2>1. Total(alloc[r], i) \in Nat /\ ritem[r][i].issue \in Nat
    BY Zenon, <1>0, TotalNat DEF AllocTypeOK, ItemsTypeOK, ItemRows, RequestItems
  <2>2. Matches(ritem[r][i].issue, Total(alloc[r], i))
    BY Zenon DEF ReviewApproval
  <2> QED
    BY <2>1, <2>2, CentAssumption DEF Matches, WithinRounding
<1> QED
  BY Zenon, <1>0, <1>1 DEF ReviewApproval, Open, Package, Ships

\* So does an approval of the saved rows on the approval page.
LEMMA ApproveShips ==
  ASSUME IInv, NEW r \in Requests, NEW u \in Users, NEW form \in FormStatus(r),
         ApproveAsSaved(r, u, form)
  PROVE  Ships(r)
<1>0. pkg \in [Requests -> Package] /\ AllocTypeOK /\ ItemsTypeOK
  BY Zenon, Parts DEF IInv, TypeOK
<1>1. ApproveAndDispatch(r, u, alloc[r], form)
  BY DEF ApproveAsSaved
<1>2. alloc' = alloc
  BY Zenon, <1>0, <1>1 DEF ApproveAndDispatch, AllocTypeOK
<1>3. \A i \in RequestItems(r) : WithinRounding(ritem'[r][i].issue, Total(alloc[r], i))
  <2> SUFFICES ASSUME NEW i \in RequestItems(r)
               PROVE  WithinRounding(ritem'[r][i].issue, Total(alloc[r], i))
    BY Zenon
  <2>1. ritem'[r][i].issue = Stored(Total(alloc[r], i))
    BY Zenon, <1>0, <1>1 DEF ApproveAndDispatch, ItemsTypeOK, RequestItems
  <2>2. Total(alloc[r], i) \in Nat
    BY Zenon, <1>0, TotalNat DEF AllocTypeOK
  <2> QED
    BY Zenon, <2>1, <2>2, CentAssumption, RoundClose DEF Stored, WithinRounding
<1>4. \A q \in Requests : q # r => pkg'[q] = pkg[q] /\ ritem'[q] = ritem[q]
  BY Zenon, <1>0, <1>1 DEF ApproveAndDispatch, ItemsTypeOK
<1>5. pkg[r].status = "P" /\ pkg'[r].status = "D"
  BY Zenon, <1>0, <1>1 DEF ApproveAndDispatch, Package
<1>6. commit_inventory(alloc[r])
  BY Zenon, <1>1 DEF ApproveAndDispatch
<1> QED
  BY Zenon, <1>2, <1>3, <1>4, <1>5, <1>6 DEF Open, Ships

\* An approval takes the package's claims out of stock and reservations.
LEMMA ShipKeeps ==
  ASSUME RInv, IInv', NEW r \in Requests, Ships(r)
  PROVE  ReservedIsPending' /\ StockConserved' /\ IssueMatchesShipped'
<1>1. /\ Open(r) /\ ~Open(r)'
      /\ \A q \in Requests : q # r => pkg'[q] = pkg[q] /\ ritem'[q] = ritem[q]
      /\ alloc' = alloc
      /\ commit_inventory(alloc[r])
      /\ \A i \in RequestItems(r) : WithinRounding(ritem'[r][i].issue, Total(alloc[r], i))
  BY Zenon DEF Ships
<1>2. AllocTypeOK /\ StockInv
  BY Parts DEF RInv
<1>3. AllocTypeOK'
  BY Zenon DEF IInv, TypeOK, AllocTypeOK
<1>4. ASSUME NEW b \in Batches
      PROVE  /\ reserved'[b] = HeldOf(b)'
             /\ usable'[b] + ShippedOf(b)' = InitialQty[b]
  <2> DEFINE q0 == Qty(alloc[r], b)
  <2>1. \A q \in Requests : q # r => HeldBy(q)'[b] = HeldBy(q)[b]
                                     /\ ShippedBy(q)'[b] = ShippedBy(q)[b]
    BY Zenon, <1>1 DEF HeldBy, ShippedBy, Open
  <2>2. HeldOf(b)' = HeldOf(b) - HeldBy(r)[b] + HeldBy(r)'[b]
    BY Zenon, <1>2, <1>3, <2>1, HeldMoves
  <2>3. ShippedOf(b)' = ShippedOf(b) - ShippedBy(r)[b] + ShippedBy(r)'[b]
    BY Zenon, <1>2, <1>3, <2>1, ShippedMoves
  <2>4. /\ HeldBy(r)[b] = q0 /\ HeldBy(r)'[b] = 0
        /\ ShippedBy(r)[b] = 0 /\ ShippedBy(r)'[b] = q0
    BY Zenon, <1>1 DEF HeldBy, ShippedBy
  <2>5. reserved'[b] = Monus(reserved[b], q0) /\ usable'[b] = usable[b] - q0
    BY Zenon, <1>1 DEF commit_inventory
  <2>6. /\ q0 \in Nat /\ q0 <= HeldOf(b)
        /\ HeldOf(b) \in Nat /\ ShippedOf(b) \in Nat /\ usable[b] \in Nat
    BY Zenon, <1>2, <2>4, QtyNat, ShareOfHeld DEF AllocTypeOK, StockInv, StockTypeOK
  <2>7. reserved[b] = HeldOf(b) /\ usable[b] + ShippedOf(b) = InitialQty[b]
    BY Zenon DEF RInv, ReservedIsPending, StockConserved
  <2> HIDE DEF q0
  <2> QED
    BY <2>2, <2>3, <2>4, <2>5, <2>6, <2>7 DEF Monus
<1>5. ReservedIsPending' /\ StockConserved'
  BY Zenon, <1>4 DEF ReservedIsPending, StockConserved
<1>6. IssueMatchesShipped'
  BY Zenon, <1>1 DEF RInv, IssueMatchesShipped, Open
<1> QED
  BY <1>5, <1>6

\* Handovers and expiry dates change no claim and no stock.
LEMMA ClaimsUnchanged ==
  ASSUME RInv,
         \/ \E r \in Requests, c \in Clerks : MarkHandover(r, c)
         \/ \E b \in Batches : BatchExpires(b)
         \/ UNCHANGED vars
  PROVE  /\ \A q \in Requests : pkg'[q].status = pkg[q].status
         /\ alloc' = alloc /\ ritem' = ritem /\ usable' = usable /\ reserved' = reserved
<1>0. pkg \in [Requests -> Package]
  BY Zenon DEF RInv, IInv, TypeOK
<1> QED
  BY <1>0 DEF MarkHandover, BatchExpires, vars, stock, Package

\* The invariant of the workflow is inductive.
LEMMA ReviewedKeepsRInv == RInv /\ [ReviewedNext]_vars => RInv'
<1> SUFFICES ASSUME RInv, [ReviewedNext]_vars
             PROVE  RInv'
  OBVIOUS
<1>1. IInv'
  BY ReviewedIsNext, StepKeepsIInv DEF RInv
<1>2. ASSUME NEW r \in Requests, NEW u \in Users, NEW rows \in FormRows(r),
             NEW form \in FormStatus(r), Prepare(r, u, rows, form)
      PROVE  RInv'
  BY Zenon, <1>1, <1>2, PrepareKeeps DEF RInv
<1>3. ASSUME NEW r \in Requests, Ships(r)
      PROVE  RInv'
  BY <1>1, <1>3, ShipKeeps DEF RInv
<1>4. CASE \/ \E r \in Requests, c \in Clerks : MarkHandover(r, c)
           \/ \E b \in Batches : BatchExpires(b)
           \/ UNCHANGED vars
  <2>1. /\ \A q \in Requests : pkg'[q].status = pkg[q].status
        /\ alloc' = alloc /\ ritem' = ritem /\ usable' = usable /\ reserved' = reserved
    BY Zenon, <1>4, ClaimsUnchanged
  <2>2. \A q \in Requests : HeldBy(q)' = HeldBy(q) /\ ShippedBy(q)' = ShippedBy(q)
    BY Zenon, <2>1 DEF HeldBy, ShippedBy, Open
  <2>3. \A b \in Batches : HeldOf(b)' = HeldOf(b) /\ ShippedOf(b)' = ShippedOf(b)
    BY Zenon, <2>2 DEF HeldOf, ShippedOf
  <2>4. ReservedIsPending' /\ StockConserved'
    BY Zenon, <2>1, <2>3 DEF RInv, ReservedIsPending, StockConserved
  <2>5. IssueMatchesShipped'
    BY Zenon, <2>1 DEF RInv, IssueMatchesShipped
  <2> QED
    BY <1>1, <2>4, <2>5 DEF RInv
<1> QED
  BY Zenon, <1>2, <1>3, <1>4, ReviewShips, ApproveShips DEF ReviewedNext, RInv

\* The initial state satisfies the invariant of the workflow.
LEMMA InitRInv == Init => RInv
<1> SUFFICES ASSUME Init
             PROVE  RInv
  OBVIOUS
<1>1. IInv
  BY InitIInv
<1>2. \A q \in Requests, b \in Batches : HeldBy(q)[b] = 0 /\ ShippedBy(q)[b] = 0
  BY Zenon DEF Init, HeldBy, ShippedBy, Open, NoPackage, NoRows, Qty
<1>3. \A b \in Batches : HeldOf(b) = 0 /\ ShippedOf(b) = 0
  <2> SUFFICES ASSUME NEW b \in Batches
               PROVE  HeldOf(b) = 0 /\ ShippedOf(b) = 0
    OBVIOUS
  <2> DEFINE f == [q \in Requests |-> HeldBy(q)[b]]
             h == [q \in Requests |-> ShippedBy(q)[b]]
  <2>1. (\A q \in Requests : f[q] = 0) /\ (\A q \in Requests : h[q] = 0)
    BY Zenon, <1>2
  <2>2. SumOver(f, Requests) = 0 /\ SumOver(h, Requests) = 0
    <3> HIDE DEF f, h
    <3> QED
      BY <2>1, SumZero
  <2> QED
    BY Zenon, <2>2 DEF HeldOf, ShippedOf
<1>4. ReservedIsPending /\ StockConserved
  BY <1>3, StockAssumption DEF Init, ReservedIsPending, StockConserved
<1>5. IssueMatchesShipped
  BY Zenon DEF Init, IssueMatchesShipped, NoPackage
<1> QED
  BY <1>1, <1>4, <1>5 DEF RInv

-----------------------------------------------------------------------------
(* The theorems *)

\* The invariant of the workflow holds throughout.
LEMMA RInvHolds == ReviewedSpec => []RInv
BY InitRInv, ReviewedKeepsRInv, PTL DEF ReviewedSpec

\* The reserved quantity of every batch is what the packages that are not
\* dispatched have allocated of it.
THEOREM ReservationsExact == ReviewedSpec => []ReservedIsPending
<1>1. RInv => ReservedIsPending
  BY DEF RInv
<1> QED
  BY <1>1, RInvHolds, PTL

\* Packages that are not dispatched never claim more of a batch than is left.
THEOREM NoBatchOverclaimed == ReviewedSpec => []NoDoubleAllocation
<1>1. RInv => NoDoubleAllocation
  BY Zenon DEF RInv, IInv, ReservedIsPending, BatchBounds, NoDoubleAllocation
<1> QED
  BY <1>1, RInvHolds, PTL

\* What is left and what was dispatched add up to the opening stock.
THEOREM StockIsConserved == ReviewedSpec => []StockConserved
<1>1. RInv => StockConserved
  BY DEF RInv
<1> QED
  BY <1>1, RInvHolds, PTL

\* A pending package can always be shipped: commit_inventory never finds a
\* batch short.
THEOREM PendingShips == ReviewedSpec => []PendingCanShip
<1>1. RInv => PendingCanShip
  <2> SUFFICES ASSUME RInv, NEW r \in Requests, Open(r), NEW b \in DOMAIN alloc[r]
               PROVE  alloc[r][b] <= usable[b]
    BY Zenon DEF PendingCanShip
  <2>1. AllocTypeOK /\ StockInv /\ b \in Batches
    BY Zenon, Parts DEF RInv, AllocTypeOK, IsRows
  <2>2. HeldBy(r)[b] = alloc[r][b]
    BY Zenon, <2>1 DEF HeldBy, Qty
  <2>3. /\ alloc[r][b] \in Nat /\ alloc[r][b] <= HeldOf(b) /\ HeldOf(b) \in Nat
        /\ HeldOf(b) <= usable[b] /\ usable[b] \in Nat
    BY Zenon, <2>1, <2>2, ShareOfHeld, ClaimsNat
       DEF RInv, ReservedIsPending, StockInv, StockTypeOK, BatchBounds
  <2> QED
    BY <2>3
<1> QED
  BY <1>1, RInvHolds, PTL

\* The issued quantity of a dispatched item is what left the warehouses, up
\* to rounding.
THEOREM IssueIsShipped == ReviewedSpec => []IssueMatchesShipped
<1>1. RInv => IssueMatchesShipped
  BY DEF RInv
<1> QED
  BY <1>1, RInvHolds, PTL

-----------------------------------------------------------------------------
(* The workflow implements the ledger *)

\* The initial states are initial states of the ledger.
LEMMA InitIsLedgerInit == Init => Ledger!LedgerInit
<1> SUFFICES ASSUME Init
             PROVE  Ledger!LedgerInit
  OBVIOUS
<1>1. \A q \in Requests : /\ HeldBy(q) = [b \in Batches |-> 0]
                          /\ ShippedBy(q) = [b \in Batches |-> 0]
                          /\ Open(q)
  BY Zenon DEF Init, HeldBy, ShippedBy, Open, NoPackage, NoRows, Qty
<1> QED
  BY Zenon, <1>1 DEF Ledger!LedgerInit, Init

\* A save is a Hold.
LEMMA PrepareIsHold ==
  ASSUME RInv, RInv', NEW r \in Requests, NEW u \in Users, NEW rows \in FormRows(r),
         NEW form \in FormStatus(r), Prepare(r, u, rows, form)
  PROVE  Ledger!Hold(r)
<1> DEFINE held == [q \in Requests |-> HeldBy(q)]
<1>1. /\ Open(r) /\ Open(r)'
      /\ \A q \in Requests : q # r => pkg'[q] = pkg[q]
      /\ alloc' = [alloc EXCEPT ![r] = rows]
      /\ usable' = usable
  BY Zenon, PrepareEffect DEF RInv
<1>2. AllocTypeOK /\ AllocTypeOK'
  BY Zenon DEF RInv, IInv, TypeOK, AllocTypeOK
<1>3. \A q \in Requests : q # r => /\ HeldBy(q)' = HeldBy(q)
                                   /\ ShippedBy(q)' = ShippedBy(q)
                                   /\ Open(q)' <=> Open(q)
  BY Zenon, <1>1, <1>2 DEF HeldBy, ShippedBy, Open, AllocTypeOK
<1>4. ShippedBy(r)' = ShippedBy(r)
  BY Zenon, <1>1 DEF ShippedBy
<1>5. HeldBy(r)' \in [Batches -> Nat]
  <2>1. \A b \in Batches : HeldBy(r)'[b] \in Nat
    BY Zenon, <1>2, ClaimsNatNext
  <2> QED
    BY Zenon, <2>1 DEF HeldBy
<1>6. \A b \in Batches : SumOver(Ledger!Column(held', b), Requests) <= usable[b]
  <2> SUFFICES ASSUME NEW b \in Batches
               PROVE  SumOver(Ledger!Column(held', b), Requests) <= usable[b]
    BY Zenon
  <2>1. Ledger!Column(held', b) = [q \in Requests |-> HeldBy(q)'[b]]
    BY DEF Ledger!Column
  <2>2. SumOver(Ledger!Column(held', b), Requests) = HeldOf(b)'
    BY Zenon, <2>1 DEF HeldOf
  <2>3. HeldOf(b)' = reserved'[b] /\ reserved'[b] <= usable'[b]
    BY Zenon DEF RInv, IInv, ReservedIsPending, BatchBounds
  <2> QED
    BY Zenon, <1>1, <2>2, <2>3
<1>7. {q \in Requests : ~Open(q)'} = {q \in Requests : ~Open(q)}
  BY Zenon, <1>1, <1>3
<1>8. held' = [held EXCEPT ![r] = held'[r]] /\ held'[r] \in [Batches -> Nat]
  BY Zenon, <1>3, <1>5
<1>9. [q \in Requests |-> ShippedBy(q)]' = [q \in Requests |-> ShippedBy(q)]
  BY <1>3, <1>4
<1> QED
  BY Zenon, <1>1, <1>6, <1>7, <1>8, <1>9 DEF Ledger!Hold

\* An approval is a Ship.
LEMMA ShipsIsShip ==
  ASSUME RInv, NEW r \in Requests, Ships(r)
  PROVE  Ledger!Ship(r)
<1>1. /\ Open(r) /\ ~Open(r)'
      /\ \A q \in Requests : q # r => pkg'[q] = pkg[q]
      /\ alloc' = alloc
      /\ commit_inventory(alloc[r])
  BY Zenon DEF Ships
<1>2. \A q \in Requests : q # r => /\ HeldBy(q)' = HeldBy(q)
                                   /\ ShippedBy(q)' = ShippedBy(q)
                                   /\ Open(q)' <=> Open(q)
  BY Zenon, <1>1 DEF HeldBy, ShippedBy, Open
<1>3. /\ HeldBy(r)' = [b \in Batches |-> 0]
      /\ ShippedBy(r)' = HeldBy(r)
  BY Zenon, <1>1 DEF HeldBy, ShippedBy
<1>4. usable' = [b \in Batches |-> usable[b] - HeldBy(r)[b]]
  BY Zenon, <1>1 DEF commit_inventory, HeldBy
<1>5. {q \in Requests : ~Open(q)'} = {q \in Requests : ~Open(q)} \cup {r}
  BY Zenon, <1>1, <1>2
<1>6. [q \in Requests |-> HeldBy(q)]' =
        [[q \in Requests |-> HeldBy(q)] EXCEPT ![r] = [b \in Batches |-> 0]]
  BY Zenon, <1>2, <1>3
<1>7. [q \in Requests |-> ShippedBy(q)]' =
        [[q \in Requests |-> ShippedBy(q)] EXCEPT ![r] = HeldBy(r)]
  BY Zenon, <1>2, <1>3
<1> QED
  BY Zenon, <1>1, <1>4, <1>5, <1>6, <1>7 DEF Ledger!Ship

\* Every step of the workflow is a step of the ledger or changes no claim.
LEMMA StepIsLedgerStep ==
  RInv /\ RInv' /\ [ReviewedNext]_vars => [Ledger!LedgerNext]_(Ledger!ledger)
<1> SUFFICES ASSUME RInv, RInv', [ReviewedNext]_vars
             PROVE  [Ledger!LedgerNext]_(Ledger!ledger)
  OBVIOUS
<1>1. ASSUME NEW r \in Requests, NEW u \in Users, NEW rows \in FormRows(r),
             NEW form \in FormStatus(r), Prepare(r, u, rows, form)
      PROVE  Ledger!LedgerNext
  BY Zenon, <1>1, PrepareIsHold DEF Ledger!LedgerNext
<1>2. ASSUME NEW r \in Requests, Ships(r)
      PROVE  Ledger!LedgerNext
  BY <1>2, ShipsIsShip DEF Ledger!LedgerNext
<1>3. CASE \/ \E r \in Requests, c \in Clerks : MarkHandover(r, c)
           \/ \E b \in Batches : BatchExpires(b)
           \/ UNCHANGED vars
  <2>1. /\ \A q \in Requests : pkg'[q].status = pkg[q].status
        /\ alloc' = alloc /\ usable' = usable
    BY Zenon, <1>3, ClaimsUnchanged
  <2>2. \A q \in Requests : /\ HeldBy(q)' = HeldBy(q) /\ ShippedBy(q)' = ShippedBy(q)
                            /\ Open(q)' <=> Open(q)
    BY Zenon, <2>1 DEF HeldBy, ShippedBy, Open
  <2>3. UNCHANGED Ledger!ledger
    BY Zenon, <2>1, <2>2 DEF Ledger!ledger
  <2> QED
    BY <2>3
<1> QED
  BY Zenon, <1>1, <1>2, <1>3, ReviewShips, ApproveShips DEF ReviewedNext, RInv

\* The reviewed workflow implements the ledger of claims: no interleaving of
\* saves, resubmissions, manager edits and approvals loses a claim, ships
\* other than what is claimed or claims what is not there.
THEOREM WorkflowImplementsLedger == ReviewedSpec => ImplementsLedger
BY InitIsLedgerInit, StepIsLedgerStep, RInvHolds, PTL
   DEF ReviewedSpec, ImplementsLedger, Ledger!LedgerSpec

=============================================================================
