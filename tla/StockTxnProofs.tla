--------------------------- MODULE StockTxnProofs ---------------------------
(***************************************************************************)
(* Proofs about StockTxn, for any packages, intakes, batches, inventory    *)
(* rows and quantities, and any interleaving of the transactions.          *)
(*                                                                         *)
(* The three checked invariants speak of committed rows only.  What makes  *)
(* them inductive is a statement about every open transaction: the value   *)
(* it has written to a row it holds differs from the committed value by    *)
(* exactly its own change, and the rows it has neither locked nor has      *)
(* still to lock need no change.  A row held by one transaction is read    *)
(* and written by no other, so a step of t disturbs that statement for t   *)
(* alone (lemma OthersHold).                                               *)
(***************************************************************************)
EXTENDS StockTxn, SumLemmas

-----------------------------------------------------------------------------
(* The inductive invariant *)

Row == [usable : Nat, reserved : Nat]
SumRows == {NoSum} \cup [of : Inventories, usable : Nat, reserved : Nat]
PackageTx == [kind : {"reserve", "commit"}, new : FormRows, sum : SumRows,
              batches : SUBSET Batches, invs : SUBSET Inventories]
IntakeTx == [kind : {"intake"}, sum : {NoSum},
             batches : SUBSET Batches, invs : SUBSET Inventories]

RowsType ==
  /\ batch \in [Batches -> Row] /\ batchW \in [Batches -> Row]
  /\ inv \in [Inventories -> Row] /\ invW \in [Inventories -> Row]
  /\ alloc \in [Packages -> FormRows]
  /\ sent \subseteq Packages
  /\ brought \in [Intakes -> SUBSET Batches]

TxnsType ==
  /\ lock \in [Batches \cup Inventories -> Txns \cup {"free"}]
  /\ tx \in [Txns -> {Idle} \cup PackageTx \cup IntakeTx]
  /\ \A p \in Packages : tx[p] \notin IntakeTx
  /\ \A t \in Intakes : tx[t] \notin PackageTx

\* A transaction that has ended holds no row, and a row nobody holds has no
\* other value than the committed one.
LocksHeld ==
  /\ \A t \in Txns : tx[t] = Idle => \A x \in Batches \cup Inventories : lock[x] # t
  /\ \A b \in Batches : lock[b] = "free" => batchW[b] = batch[b]

\* reserve_inventory of p, at batch b: the row it holds carries its change of
\* the reservation; a row it does not touch has no change to make.
Reserving(p, b) ==
  /\ p \notin sent
  /\ lock[b] = p =>
       /\ batchW[b].usable = batch[b].usable
       /\ batchW[b].reserved + Qty(alloc[p], b) = batch[b].reserved + Qty(tx[p].new, b)
  /\ lock[b] # p /\ b \notin tx[p].batches => Qty(tx[p].new, b) = Qty(alloc[p], b)

\* commit_inventory of p, at batch b: the package's quantity has left both
\* columns of a row it holds; a row it does not touch has none of it.
Committing(p, b) ==
  /\ p \notin sent
  /\ b \in tx[p].batches => b \in Positive(alloc[p])
  /\ lock[b] = p =>
       /\ batchW[b].usable + Qty(alloc[p], b) = batch[b].usable
       /\ batchW[b].reserved + Qty(alloc[p], b) = batch[b].reserved
  /\ lock[b] # p /\ b \notin tx[p].batches => Qty(alloc[p], b) = 0

\* A donation intake t, at batch b: a row it holds is up by what it brings.
TakingIn(t, b) ==
  /\ brought[t] = {}
  /\ lock[b] = t =>
       /\ batchW[b].usable = batch[b].usable + IntakeQty
       /\ batchW[b].reserved = batch[b].reserved

\* What an open transaction has done so far.
Holds(t) ==
  \A b \in Batches :
    /\ tx[t].kind = "reserve" => Reserving(t, b)
    /\ tx[t].kind = "commit" => Committing(t, b)
    /\ tx[t].kind = "intake" => TakingIn(t, b)

\* Written or summed, no total of reservations exceeds the usable quantity
\* next to it.
Ordered ==
  /\ \A b \in Batches : batchW[b].reserved <= batchW[b].usable
  /\ \A v \in Inventories : invW[v].reserved <= invW[v].usable
  /\ \A p \in Packages : tx[p].kind = "commit" /\ tx[p].sum # NoSum =>
                           tx[p].sum.reserved <= tx[p].sum.usable

TInv == /\ RowsType /\ TxnsType /\ LocksHeld /\ Ordered
        /\ \A t \in Txns : Holds(t)
        /\ NoDoubleAllocation /\ BatchConserved /\ InventoryWithinUsable

-----------------------------------------------------------------------------
(* Rows and transactions *)

\* A set of reliefpkg_item rows names batches and natural quantities.
LEMMA FormRowsFacts ==
  ASSUME NEW rows \in FormRows
  PROVE  /\ DOMAIN rows \subseteq Batches
         /\ Positive(rows) \subseteq Batches
         /\ \A b : Qty(rows, b) \in Nat
         /\ \A b : b \in Positive(rows) <=> Qty(rows, b) > 0
         /\ \A b \in Positive(rows) : rows[b] = Qty(rows, b)
<1>1. PICK K \in SUBSET Batches : rows \in [K -> Quantities]
  BY DEF FormRows
<1>2. DOMAIN rows \subseteq Batches /\ \A b \in DOMAIN rows : rows[b] \in Nat
  BY Zenon, <1>1, StockAssumption
<1> QED
  BY <1>2 DEF Positive, Qty

\* No row is a form without rows.
LEMMA NoRowsForm == NoRows \in FormRows /\ \A b : Qty(NoRows, b) = 0
<1>1. NoRows \in [{} -> Quantities]
  BY DEF NoRows
<1>2. {} \in SUBSET Batches
  OBVIOUS
<1>3. NoRows \in FormRows
  BY Zenon, <1>1, <1>2 DEF FormRows
<1>4. DOMAIN NoRows = {}
  BY DEF NoRows
<1> QED
  BY <1>3, <1>4 DEF Qty

\* What a transaction is doing says whose it is and which fields it has.
LEMMA Kinds ==
  ASSUME TxnsType, NEW t \in Txns
  PROVE  /\ tx[t].kind \in {"reserve", "commit"} => t \in Packages /\ tx[t] \in PackageTx
         /\ tx[t].kind = "intake" => t \in Intakes /\ tx[t] \in IntakeTx
         /\ tx[t].kind \in {"idle", "reserve", "commit", "intake"}
         /\ tx[t].kind = "idle" <=> tx[t] = Idle
<1>1. tx[t] \in {Idle} \cup PackageTx \cup IntakeTx
  BY Zenon DEF TxnsType
<1>2. t \in Packages => tx[t] \notin IntakeTx
  BY Zenon DEF TxnsType
<1>3. t \in Intakes => tx[t] \notin PackageTx
  BY Zenon DEF TxnsType
<1>4. t \in Packages \/ t \in Intakes
  BY DEF Txns
<1>5. tx[t] \in PackageTx => tx[t].kind \in {"reserve", "commit"}
  BY Zenon DEF PackageTx
<1>6. tx[t] \in IntakeTx => tx[t].kind = "intake"
  BY Zenon DEF IntakeTx
<1>7. tx[t] = Idle => tx[t].kind = "idle"
  BY DEF Idle
<1> QED
  BY Zenon, <1>1, <1>2, <1>3, <1>4, <1>5, <1>6, <1>7

\* A new state of one transaction, of the right shape for it.
LEMMA TxTyped ==
  ASSUME TxnsType, NEW t \in Txns, NEW k,
         k = Idle \/ (t \in Packages /\ k \in PackageTx) \/ (t \in Intakes /\ k \in IntakeTx),
         tx' = [tx EXCEPT ![t] = k],
         lock' \in [Batches \cup Inventories -> Txns \cup {"free"}]
  PROVE  TxnsType' /\ tx'[t] = k /\ \A u \in Txns \ {t} : tx'[u] = tx[u]
<1>1. tx \in [Txns -> {Idle} \cup PackageTx \cup IntakeTx]
  BY Zenon DEF TxnsType
<1>2. tx'[t] = k /\ \A u \in Txns \ {t} : tx'[u] = tx[u]
  BY Zenon, <1>1
<1>3. tx' \in [Txns -> {Idle} \cup PackageTx \cup IntakeTx]
  BY Zenon, <1>1
<1>4. t \in Packages => t \notin Intakes
  BY Zenon, TxnAssumption
<1>5. Idle \notin PackageTx /\ Idle \notin IntakeTx
  BY Zenon DEF Idle, PackageTx, IntakeTx
<1>6. k \in PackageTx => k \notin IntakeTx
  BY Zenon DEF PackageTx, IntakeTx
<1>7. \A p \in Packages : tx'[p] \notin IntakeTx
  BY Zenon, <1>2, <1>4, <1>5, <1>6 DEF TxnsType, Txns
<1>8. \A u \in Intakes : tx'[u] \notin PackageTx
  BY Zenon, <1>2, <1>4, <1>5, <1>6 DEF TxnsType, Txns
<1> QED
  BY Zenon, <1>2, <1>3, <1>7, <1>8 DEF TxnsType

\* A transaction whose rows, record and fields a step leaves alone is where
\* it was: a row that u holds is read and written by u alone.
LEMMA OthersHold ==
  ASSUME TxnsType, NEW u \in Txns, Holds(u),
         tx'[u] = tx[u],
         \A b \in Batches : lock'[b] = u <=> lock[b] = u,
         \A b \in Batches : lock[b] = u => batchW'[b] = batchW[b] /\ batch'[b] = batch[b],
         u \in Packages => alloc'[u] = alloc[u] /\ (u \in sent' <=> u \in sent),
         u \in Intakes => brought'[u] = brought[u]
  PROVE  Holds(u)'
<1> SUFFICES ASSUME NEW b \in Batches
             PROVE  /\ tx'[u].kind = "reserve" => Reserving(u, b)'
                    /\ tx'[u].kind = "commit" => Committing(u, b)'
                    /\ tx'[u].kind = "intake" => TakingIn(u, b)'
  BY Zenon DEF Holds
<1>1. CASE tx[u].kind = "reserve"
  <2>1. u \in Packages /\ Reserving(u, b)
    BY Zenon, <1>1, Kinds DEF Holds
  <2> QED
    BY Zenon, <1>1, <2>1 DEF Reserving
<1>2. CASE tx[u].kind = "commit"
  <2>1. u \in Packages /\ Committing(u, b)
    BY Zenon, <1>2, Kinds DEF Holds
  <2> QED
    BY Zenon, <1>2, <2>1 DEF Committing
<1>3. CASE tx[u].kind = "intake"
  <2>1. u \in Intakes /\ TakingIn(u, b)
    BY Zenon, <1>3, Kinds DEF Holds
  <2> QED
    BY Zenon, <1>3, <2>1 DEF TakingIn
<1> QED
  BY Zenon, <1>1, <1>2, <1>3

-----------------------------------------------------------------------------
(* Steps inside a transaction *)

\* Until a transaction commits, nothing committed changes.
LEMMA CommittedSame ==
  ASSUME NoDoubleAllocation, BatchConserved, InventoryWithinUsable,
         UNCHANGED <<batch, inv, alloc, sent, brought>>
  PROVE  NoDoubleAllocation' /\ BatchConserved' /\ InventoryWithinUsable'
<1>1. NoDoubleAllocation'
  BY Zenon DEF NoDoubleAllocation, Held
<1>2. BatchConserved'
  BY Zenon DEF BatchConserved, Gone, Came
<1> QED
  BY Zenon, <1>1, <1>2 DEF InventoryWithinUsable

\* What t has done so far stays so when neither the rows nor its plan change.
LEMMA HoldsKept ==
  ASSUME NEW t, Holds(t), tx'[t].kind = tx[t].kind, tx'[t].batches = tx[t].batches,
         tx[t].kind = "reserve" => tx'[t].new = tx[t].new,
         \A b \in Batches : lock'[b] = lock[b],
         UNCHANGED <<batch, batchW, alloc, sent, brought>>
  PROVE  Holds(t)'
<1> SUFFICES ASSUME NEW b \in Batches
             PROVE  /\ tx'[t].kind = "reserve" => Reserving(t, b)'
                    /\ tx'[t].kind = "commit" => Committing(t, b)'
                    /\ tx'[t].kind = "intake" => TakingIn(t, b)'
  BY Zenon DEF Holds
<1>1. tx[t].kind = "reserve" /\ Reserving(t, b) => Reserving(t, b)'
  BY Zenon DEF Reserving
<1>2. Committing(t, b) => Committing(t, b)'
  BY Zenon DEF Committing
<1>3. TakingIn(t, b) => TakingIn(t, b)'
  BY Zenon DEF TakingIn
<1> QED
  BY Zenon, <1>1, <1>2, <1>3 DEF Holds

\* The state of t that a step may leave, and what it says of t's sum.
Shape(t, k) ==
  /\ (t \in Packages /\ k \in PackageTx) \/ (t \in Intakes /\ k \in IntakeTx)
  /\ k.kind = "commit" /\ k.sum # NoSum => k.sum.reserved <= k.sum.usable

\* A step that writes no row.
LEMMA PlainStep ==
  ASSUME TInv, NEW t \in Txns, NEW k, Shape(t, k), tx' = [tx EXCEPT ![t] = k],
         UNCHANGED <<batch, inv, batchW, invW, lock, alloc, sent, brought>>,
         Holds(t)'
  PROVE  TInv'
<1>1. TxnsType' /\ tx'[t] = k /\ \A u \in Txns \ {t} : tx'[u] = tx[u]
  BY Zenon, TxTyped DEF TInv, TxnsType, Shape
<1>2. RowsType'
  BY Zenon DEF TInv, RowsType
<1>3. k # Idle
  BY DEF Shape, PackageTx, IntakeTx, Idle
<1>4. LocksHeld'
  BY Zenon, <1>1, <1>3 DEF TInv, LocksHeld
<1>5. \A p \in Packages : p \in Txns
  BY Zenon DEF Txns
<1>6. Ordered'
  BY Zenon, <1>1, <1>5 DEF TInv, Ordered, Shape
<1>7. ASSUME NEW u \in Txns \ {t} PROVE Holds(u)'
  BY Zenon, <1>1, OthersHold DEF TInv
<1> QED
  BY Zenon, <1>1, <1>2, <1>4, <1>6, <1>7, CommittedSame DEF TInv

\* A step that locks a batch and writes it.
LEMMA BatchStep ==
  ASSUME TInv, NEW t \in Txns, NEW k, Shape(t, k), tx' = [tx EXCEPT ![t] = k],
         NEW b \in Batches, Take(t, b),
         NEW row \in Row, row.reserved <= row.usable,
         batchW' = [batchW EXCEPT ![b] = row],
         UNCHANGED <<batch, inv, invW, alloc, sent, brought>>,
         Holds(t)'
  PROVE  TInv'
<1>1. /\ lock' \in [Batches \cup Inventories -> Txns \cup {"free"}]
      /\ lock[b] = "free" /\ lock'[b] = t
      /\ \A x \in (Batches \cup Inventories) \ {b} : lock'[x] = lock[x]
      /\ t # "free"
  BY Zenon, TxnAssumption DEF TInv, TxnsType, Take, Txns
<1>2. TxnsType' /\ tx'[t] = k /\ \A u \in Txns \ {t} : tx'[u] = tx[u]
  <2>1. TxnsType
    BY Zenon DEF TInv
  <2>2. (t \in Packages /\ k \in PackageTx) \/ (t \in Intakes /\ k \in IntakeTx)
    BY Zenon DEF Shape
  <2> QED
    BY Zenon, <1>1, <2>1, <2>2, TxTyped
<1>3. /\ batchW' \in [Batches -> Row] /\ batchW'[b] = row
      /\ \A c \in Batches \ {b} : batchW'[c] = batchW[c]
  BY Zenon DEF TInv, RowsType
<1>4. RowsType'
  BY Zenon, <1>3 DEF TInv, RowsType
<1>5. k # Idle
  BY DEF Shape, PackageTx, IntakeTx, Idle
<1>6. LocksHeld'
  <2>1. ASSUME NEW u \in Txns, tx'[u] = Idle, NEW x \in Batches \cup Inventories
        PROVE  lock'[x] # u
    <3>1. u # t /\ lock[x] # u
      BY Zenon, <1>2, <1>5, <2>1 DEF TInv, LocksHeld
    <3> QED
      BY Zenon, <1>1, <3>1
  <2>2. \A c \in Batches : lock'[c] = "free" => batchW'[c] = batch'[c]
    BY Zenon, <1>1, <1>3 DEF TInv, LocksHeld
  <2> QED
    BY Zenon, <2>1, <2>2 DEF LocksHeld
<1>7. \A p \in Packages : p \in Txns
  BY Zenon DEF Txns
<1>8. Ordered'
  <2>1. ASSUME NEW p \in Packages, tx'[p].kind = "commit", tx'[p].sum # NoSum
        PROVE  tx'[p].sum.reserved <= tx'[p].sum.usable
    <3>1. CASE p = t
      BY Zenon, <1>2, <2>1, <3>1 DEF Shape
    <3>2. CASE p # t
      BY Zenon, <1>2, <1>7, <2>1, <3>2 DEF TInv, Ordered
    <3> QED
      BY Zenon, <3>1, <3>2
  <2> QED
    BY Zenon, <1>3, <2>1 DEF TInv, Ordered
<1>9. ASSUME NEW u \in Txns \ {t} PROVE Holds(u)'
  <2>1. u # "free"
    BY Zenon, TxnAssumption DEF Txns
  <2>2. \A c \in Batches : lock'[c] = u <=> lock[c] = u
    BY Zenon, <1>1, <2>1
  <2>3. \A c \in Batches : lock[c] = u => batchW'[c] = batchW[c] /\ batch'[c] = batch[c]
    BY Zenon, <1>1, <1>3, <2>1
  <2> QED
    BY Zenon, <1>2, <2>2, <2>3, OthersHold DEF TInv
<1> QED
  BY Zenon, <1>2, <1>4, <1>6, <1>8, <1>9, CommittedSame DEF TInv

\* A step that locks an inventory row and writes it; what t is doing to
\* batches stays.
LEMMA InventoryStep ==
  ASSUME TInv, NEW t \in Txns, NEW k, Shape(t, k), tx' = [tx EXCEPT ![t] = k],
         k.kind = tx[t].kind, k.batches = tx[t].batches,
         t \in Packages => k.new = tx[t].new,
         NEW v \in Inventories, Take(t, v),
         NEW row \in Row, row.reserved <= row.usable,
         invW' = [invW EXCEPT ![v] = row],
         UNCHANGED <<batch, inv, batchW, alloc, sent, brought>>
  PROVE  TInv'
<1>1. /\ lock' \in [Batches \cup Inventories -> Txns \cup {"free"}]
      /\ \A b \in Batches : lock'[b] = lock[b]
      /\ \A x \in Batches \cup Inventories : lock'[x] = lock[x] \/ lock'[x] = t
  BY Zenon, RowAssumption DEF TInv, TxnsType, Take, Txns
<1>2. TxnsType' /\ tx'[t] = k /\ \A u \in Txns \ {t} : tx'[u] = tx[u]
  <2>1. TxnsType
    BY Zenon DEF TInv
  <2>2. (t \in Packages /\ k \in PackageTx) \/ (t \in Intakes /\ k \in IntakeTx)
    BY Zenon DEF Shape
  <2> QED
    BY Zenon, <1>1, <2>1, <2>2, TxTyped
<1>3. /\ invW' \in [Inventories -> Row] /\ invW'[v] = row
      /\ \A w \in Inventories \ {v} : invW'[w] = invW[w]
  BY Zenon DEF TInv, RowsType
<1>4. RowsType'
  BY Zenon, <1>3 DEF TInv, RowsType
<1>5. k # Idle
  BY DEF Shape, PackageTx, IntakeTx, Idle
<1>6. LocksHeld'
  <2>1. ASSUME NEW u \in Txns, tx'[u] = Idle, NEW x \in Batches \cup Inventories
        PROVE  lock'[x] # u
    <3>1. u # t /\ lock[x] # u
      BY Zenon, <1>2, <1>5, <2>1 DEF TInv, LocksHeld
    <3> QED
      BY Zenon, <1>1, <3>1
  <2>2. \A b \in Batches : lock'[b] = "free" => batchW'[b] = batch'[b]
    BY Zenon, <1>1 DEF TInv, LocksHeld
  <2> QED
    BY Zenon, <2>1, <2>2 DEF LocksHeld
<1>7. \A p \in Packages : p \in Txns
  BY Zenon DEF Txns
<1>8. Ordered'
  <2>1. ASSUME NEW p \in Packages, tx'[p].kind = "commit", tx'[p].sum # NoSum
        PROVE  tx'[p].sum.reserved <= tx'[p].sum.usable
    <3>1. CASE p = t
      BY Zenon, <1>2, <2>1, <3>1 DEF Shape
    <3>2. CASE p # t
      BY Zenon, <1>2, <1>7, <2>1, <3>2 DEF TInv, Ordered
    <3> QED
      BY Zenon, <3>1, <3>2
  <2> QED
    BY Zenon, <1>3, <2>1 DEF TInv, Ordered
<1>9. ASSUME NEW u \in Txns \ {t} PROVE Holds(u)'
  BY Zenon, <1>1, <1>2, OthersHold DEF TInv
<1>10. Holds(t)'
  <2>1. Holds(t) /\ (tx[t].kind \in {"reserve", "commit"} => t \in Packages)
    BY Zenon, Kinds DEF TInv
  <2> QED
    BY Zenon, <1>1, <1>2, <2>1, HoldsKept
<1> QED
  BY Zenon, <1>2, <1>4, <1>6, <1>8, <1>9, <1>10, CommittedSame DEF TInv

-----------------------------------------------------------------------------
(* The statements *)

\* What the open package p holds of b is part of what b counts as reserved.
LEMMA ReservedCoversOwn ==
  ASSUME TInv, NEW p \in Packages, p \notin sent, NEW b \in Batches
  PROVE  Qty(alloc[p], b) \in Nat /\ Qty(alloc[p], b) <= batch[b].reserved
<1>1. \A q \in Packages : Held(b)[q] \in Nat
  BY Zenon, FormRowsFacts DEF TInv, RowsType, Held
<1>2. Held(b)[p] = Qty(alloc[p], b)
  BY DEF Held
<1>3. Held(b)[p] <= SumOver(Held(b), Packages)
  BY Zenon, <1>1, StockAssumption, SumTerm
<1> QED
  BY Zenon, <1>1, <1>2, <1>3 DEF TInv, NoDoubleAllocation

\* Opening a reservation: no row is held yet, and the rows to lock are those
\* whose quantity changes.
LEMMA BeginReserveStep ==
  ASSUME TInv, NEW p \in Packages, NEW new \in FormRows, BeginReserve(p, new)
  PROVE  TInv'
<1> DEFINE k == [kind |-> "reserve", new |-> new, sum |-> NoSum,
                 batches |-> {b \in Batches : Qty(new, b) # Qty(alloc[p], b)},
                 invs |-> Affected(DOMAIN alloc[p] \cup Positive(new))]
<1>1. alloc[p] \in FormRows /\ p \in Txns
  BY Zenon DEF TInv, RowsType, Txns
<1>2. DOMAIN alloc[p] \cup Positive(new) \subseteq Batches
  BY Zenon, <1>1, FormRowsFacts
<1>3. Affected(DOMAIN alloc[p] \cup Positive(new)) \subseteq Inventories
  BY Zenon, <1>2, StockAssumption DEF Affected
<1>4. k \in PackageTx /\ k.kind = "reserve"
  BY Zenon, <1>3 DEF PackageTx, SumRows
<1>5. tx' = [tx EXCEPT ![p] = k] /\ p \notin sent /\ tx[p] = Idle
  BY Zenon DEF BeginReserve
<1>6. tx'[p] = k
  BY Zenon, <1>1, <1>5 DEF TInv, TxnsType
<1>7. Holds(p)'
  <2>1. \A b \in Batches : lock'[b] # p
    BY Zenon, <1>1, <1>5 DEF TInv, LocksHeld, BeginReserve
  <2> QED
    BY <1>5, <1>6, <2>1 DEF Holds, Reserving, BeginReserve
<1>8. Shape(p, k)
  BY Zenon, <1>4 DEF Shape
<1> QED
  BY Zenon, <1>1, <1>5, <1>7, <1>8, PlainStep DEF BeginReserve

\* Opening a dispatch: the rows to lock are those the package drew on.
LEMMA BeginCommitStep ==
  ASSUME TInv, NEW p \in Packages, BeginCommit(p)
  PROVE  TInv'
<1> DEFINE k == [kind |-> "commit", new |-> alloc[p], sum |-> NoSum,
                 batches |-> Positive(alloc[p]), invs |-> Affected(Positive(alloc[p]))]
<1>1. alloc[p] \in FormRows /\ p \in Txns
  BY Zenon DEF TInv, RowsType, Txns
<1>2. Positive(alloc[p]) \subseteq Batches
  BY Zenon, <1>1, FormRowsFacts
<1>3. Affected(Positive(alloc[p])) \subseteq Inventories
  BY Zenon, <1>2, StockAssumption DEF Affected
<1>4. k \in PackageTx /\ k.sum = NoSum
  BY Zenon, <1>1, <1>2, <1>3 DEF PackageTx, SumRows
<1>5. tx' = [tx EXCEPT ![p] = k] /\ p \notin sent /\ tx[p] = Idle
  BY Zenon DEF BeginCommit
<1>6. tx'[p] = k
  BY Zenon, <1>1, <1>5 DEF TInv, TxnsType
<1>7. Holds(p)'
  <2>1. \A b \in Batches : lock'[b] # p
    BY Zenon, <1>1, <1>5 DEF TInv, LocksHeld, BeginCommit
  <2>2. \A b \in Batches : b \notin Positive(alloc[p]) => Qty(alloc[p], b) = 0
    BY <1>1, FormRowsFacts
  <2> QED
    BY <1>5, <1>6, <2>1, <2>2 DEF Holds, Committing, BeginCommit
<1>8. Shape(p, k)
  BY Zenon, <1>4 DEF Shape
<1> QED
  BY Zenon, <1>1, <1>5, <1>7, <1>8, PlainStep DEF BeginCommit

\* Opening an intake.
LEMMA BeginIntakeStep ==
  ASSUME TInv, NEW t \in Intakes, NEW S \in Deliveries, BeginIntake(t, S)
  PROVE  TInv'
<1> DEFINE k == [kind |-> "intake", sum |-> NoSum, batches |-> S, invs |-> {}]
<1>1. t \in Txns
  BY DEF Txns
<1>2. k \in IntakeTx /\ k.sum = NoSum
  BY Zenon DEF IntakeTx, Deliveries
<1>3. tx' = [tx EXCEPT ![t] = k] /\ brought[t] = {} /\ tx[t] = Idle
  BY Zenon DEF BeginIntake
<1>4. tx'[t] = k
  BY Zenon, <1>1, <1>3 DEF TInv, TxnsType
<1>5. Holds(t)'
  <2>1. \A b \in Batches : lock'[b] # t
    BY Zenon, <1>1, <1>3 DEF TInv, LocksHeld, BeginIntake
  <2> QED
    BY <1>3, <1>4, <2>1 DEF Holds, TakingIn, BeginIntake
<1>6. Shape(t, k)
  BY Zenon, <1>2 DEF Shape
<1> QED
  BY Zenon, <1>1, <1>3, <1>5, <1>6, PlainStep DEF BeginIntake

\* The shift of a reservation writes the committed value and the change: the
\* subtraction never stops at zero, because b counts what p holds of it.
LEMMA ReserveBatchStep ==
  ASSUME TInv, NEW p \in Txns, NEW b \in Batches, ReserveBatch(p, b)
  PROVE  TInv'
<1> DEFINE k == [tx[p] EXCEPT !.batches = @ \ {b}]
           row == [batch[b] EXCEPT !.reserved =
                     Monus(batch[b].reserved + Qty(tx[p].new, b), Qty(alloc[p], b))]
<1>1. p \in Packages /\ tx[p] \in PackageTx /\ tx[p].kind = "reserve"
  BY Zenon, Kinds DEF TInv, ReserveBatch
<1>2. \A c \in Batches : Reserving(p, c)
  BY Zenon, <1>1 DEF TInv, Holds
<1>3. /\ k \in PackageTx /\ k.kind = "reserve" /\ k.new = tx[p].new
      /\ k.batches = tx[p].batches \ {b}
  BY Zenon, <1>1 DEF PackageTx
<1>4. tx' = [tx EXCEPT ![p] = k] /\ tx'[p] = k
  BY Zenon DEF ReserveBatch, TInv, TxnsType
<1>5. p \notin sent /\ tx[p].new \in FormRows /\ batch[b] \in Row
  BY Zenon, <1>1, <1>2 DEF Reserving, PackageTx, TInv, RowsType
<1>6. /\ Qty(alloc[p], b) \in Nat /\ Qty(alloc[p], b) <= batch[b].reserved
      /\ Qty(tx[p].new, b) \in Nat
  BY Zenon, <1>1, <1>5, ReservedCoversOwn, FormRowsFacts
<1>7. batch[b].reserved + Qty(tx[p].new, b) <= batch[b].usable + Qty(alloc[p], b)
  BY Zenon DEF ReserveBatch
<1>8. /\ row \in Row /\ row.reserved <= row.usable /\ row.usable = batch[b].usable
      /\ row.reserved + Qty(alloc[p], b) = batch[b].reserved + Qty(tx[p].new, b)
  <2>1. batch[b].usable \in Nat /\ batch[b].reserved \in Nat
    BY Zenon, <1>5 DEF Row
  <2>2. row.usable = batch[b].usable
    BY Zenon, <1>5 DEF Row
  <2>3. row.reserved = batch[b].reserved + Qty(tx[p].new, b) - Qty(alloc[p], b)
    BY <1>5, <1>6, <2>1 DEF Row, Monus
  <2>4. row \in Row
    BY <1>5, <1>6, <2>1, <2>3 DEF Row
  <2> QED
    BY <1>6, <1>7, <2>1, <2>2, <2>3, <2>4
<1>9. /\ batchW' = [batchW EXCEPT ![b] = row] /\ Take(p, b)
      /\ UNCHANGED <<batch, inv, invW, alloc, sent, brought>>
  BY Zenon DEF ReserveBatch
<1>10. batchW'[b] = row /\ \A c \in Batches \ {b} : batchW'[c] = batchW[c]
  BY Zenon, <1>9 DEF TInv, RowsType
<1>11. lock'[b] = p /\ \A c \in Batches \ {b} : lock'[c] = lock[c]
  BY Zenon, <1>9 DEF Take, TInv, TxnsType
<1>12. Holds(p)'
  <2> SUFFICES ASSUME NEW c \in Batches PROVE Reserving(p, c)'
    BY Zenon, <1>3, <1>4 DEF Holds
  <2> HIDE DEF k, row
  <2>1. CASE c = b
    BY Zenon, <1>3, <1>4, <1>5, <1>8, <1>9, <1>10, <1>11, <2>1 DEF Reserving
  <2>2. CASE c # b
    BY <1>2, <1>3, <1>4, <1>9, <1>10, <1>11, <2>2 DEF Reserving
  <2> QED
    BY <2>1, <2>2
<1>13. Shape(p, k)
  BY Zenon, <1>1, <1>3 DEF Shape
<1> HIDE DEF k, row
<1> QED
  BY Zenon, <1>4, <1>8, <1>9, <1>12, <1>13, BatchStep

\* Dispatch takes the package's quantity out of both columns: the reserved
\* column never stops at zero either.
LEMMA CommitBatchStep ==
  ASSUME TInv, NEW p \in Txns, NEW b \in Batches, CommitBatch(p, b)
  PROVE  TInv'
<1> DEFINE k == [tx[p] EXCEPT !.batches = @ \ {b}]
           row == [usable |-> batch[b].usable - alloc[p][b],
                   reserved |-> Monus(batch[b].reserved, alloc[p][b])]
<1>1. p \in Packages /\ tx[p] \in PackageTx /\ tx[p].kind = "commit"
  BY Zenon, Kinds DEF TInv, CommitBatch
<1>2. \A c \in Batches : Committing(p, c)
  BY Zenon, <1>1 DEF TInv, Holds
<1>3. /\ k \in PackageTx /\ k.kind = "commit" /\ k.sum = tx[p].sum
      /\ k.batches = tx[p].batches \ {b}
  BY Zenon, <1>1 DEF PackageTx
<1>4. tx' = [tx EXCEPT ![p] = k] /\ tx'[p] = k
  BY Zenon DEF CommitBatch, TInv, TxnsType
<1>5. p \notin sent /\ alloc[p] \in FormRows /\ batch[b] \in Row
  BY Zenon, <1>1, <1>2 DEF Committing, TInv, RowsType
<1>6. b \in Positive(alloc[p])
  BY Zenon, <1>2 DEF Committing, CommitBatch
<1>7. alloc[p][b] = Qty(alloc[p], b)
  BY Zenon, <1>5, <1>6, FormRowsFacts
<1>8. Qty(alloc[p], b) \in Nat /\ Qty(alloc[p], b) <= batch[b].reserved
  BY Zenon, <1>1, <1>5, ReservedCoversOwn
<1>9. batch[b].reserved <= batch[b].usable
  BY Zenon DEF TInv, NoDoubleAllocation
<1>10. /\ row \in Row /\ row.reserved <= row.usable
       /\ row.usable + Qty(alloc[p], b) = batch[b].usable
       /\ row.reserved + Qty(alloc[p], b) = batch[b].reserved
  <2>1. batch[b].usable \in Nat /\ batch[b].reserved \in Nat
    BY Zenon, <1>5 DEF Row
  <2>2. row.usable = batch[b].usable - Qty(alloc[p], b)
    BY Zenon, <1>7
  <2>3. row.reserved = batch[b].reserved - Qty(alloc[p], b)
    BY Zenon, <1>7, <1>8, <2>1 DEF Monus
  <2>4. row.usable \in Nat /\ row.reserved \in Nat
    BY <1>8, <1>9, <2>1, <2>2, <2>3
  <2>5. row \in Row
    BY Zenon, <2>4 DEF Row
  <2> QED
    BY <1>8, <1>9, <2>1, <2>2, <2>3, <2>5
<1>11. /\ batchW' = [batchW EXCEPT ![b] = row] /\ Take(p, b)
       /\ UNCHANGED <<batch, inv, invW, alloc, sent, brought>>
  BY Zenon DEF CommitBatch
<1>12. batchW'[b] = row /\ \A c \in Batches \ {b} : batchW'[c] = batchW[c]
  BY Zenon, <1>11 DEF TInv, RowsType
<1>13. lock'[b] = p /\ \A c \in Batches \ {b} : lock'[c] = lock[c]
  BY Zenon, <1>11 DEF Take, TInv, TxnsType
<1>14. Holds(p)'
  <2> SUFFICES ASSUME NEW c \in Batches PROVE Committing(p, c)'
    BY Zenon, <1>3, <1>4 DEF Holds
  <2> HIDE DEF k, row
  <2>1. CASE c = b
    BY Zenon, <1>3, <1>4, <1>5, <1>10, <1>11, <1>12, <1>13, <2>1 DEF Committing
  <2>2. CASE c # b
    BY Zenon, <1>2, <1>3, <1>4, <1>11, <1>12, <1>13, <2>2 DEF Committing
  <2> QED
    BY <2>1, <2>2
<1>15. Shape(p, k)
  BY Zenon, <1>1, <1>3 DEF Shape, TInv, Ordered
<1> HIDE DEF k, row
<1> QED
  BY Zenon, <1>4, <1>10, <1>11, <1>14, <1>15, BatchStep

\* An intake adds to the batch it has locked.
LEMMA IntakeBatchStep ==
  ASSUME TInv, NEW t \in Txns, NEW b \in Batches, IntakeBatch(t, b)
  PROVE  TInv'
<1> DEFINE k == [tx[t] EXCEPT !.batches = @ \ {b}, !.invs = {BatchInv[b]}]
           row == [batch[b] EXCEPT !.usable = @ + IntakeQty]
<1>1. t \in Intakes /\ tx[t] \in IntakeTx /\ tx[t].kind = "intake"
  BY Zenon, Kinds DEF TInv, IntakeBatch
<1>2. \A c \in Batches : TakingIn(t, c)
  BY Zenon, <1>1 DEF TInv, Holds
<1>3. k \in IntakeTx /\ k.kind = "intake"
  BY Zenon, <1>1, StockAssumption DEF IntakeTx
<1>4. tx' = [tx EXCEPT ![t] = k] /\ tx'[t] = k
  BY Zenon DEF IntakeBatch, TInv, TxnsType
<1>5. batch[b] \in Row /\ batch[b].reserved <= batch[b].usable
  BY Zenon DEF TInv, RowsType, NoDoubleAllocation
<1>6. /\ row \in Row /\ row.reserved <= row.usable
      /\ row.usable = batch[b].usable + IntakeQty /\ row.reserved = batch[b].reserved
  BY <1>5, StockAssumption DEF Row
<1>7. /\ batchW' = [batchW EXCEPT ![b] = row] /\ Take(t, b)
      /\ UNCHANGED <<batch, inv, invW, alloc, sent, brought>>
  BY Zenon DEF IntakeBatch
<1>8. batchW'[b] = row /\ \A c \in Batches \ {b} : batchW'[c] = batchW[c]
  BY Zenon, <1>7 DEF TInv, RowsType
<1>9. lock'[b] = t /\ \A c \in Batches \ {b} : lock'[c] = lock[c]
  BY Zenon, <1>7 DEF Take, TInv, TxnsType
<1>10. Holds(t)'
  <2> SUFFICES ASSUME NEW c \in Batches PROVE TakingIn(t, c)'
    BY Zenon, <1>3, <1>4 DEF Holds
  <2> HIDE DEF k, row
  <2> QED
    BY Zenon, <1>2, <1>6, <1>7, <1>8, <1>9 DEF TakingIn
<1>11. Shape(t, k)
  BY Zenon, <1>1, <1>3 DEF Shape
<1> HIDE DEF k, row
<1> QED
  BY Zenon, <1>4, <1>6, <1>7, <1>10, <1>11, BatchStep

\* What a transaction sees of a batch is a row within its usable quantity.
LEMMA SeenOrdered ==
  ASSUME TInv, NEW t, NEW b \in Batches
  PROVE  Seen(t, b) \in Row /\ Seen(t, b).reserved <= Seen(t, b).usable
BY Zenon DEF TInv, RowsType, Ordered, NoDoubleAllocation, Seen

\* A sum over the batches of an inventory row keeps the order of the columns,
\* also when the transactions it reads from are at different points.
LEMMA SumBatchesStep ==
  ASSUME TInv, NEW t \in Txns, NEW v \in Inventories, SumBatches(t, v)
  PROVE  TInv'
<1> DEFINE U == [b \in Batches |-> Seen(t, b)["usable"]]
           R == [b \in Batches |-> Seen(t, b)["reserved"]]
           sum == [of |-> v, usable |-> SumOver(U, BatchesOf(v)),
                   reserved |-> SumOver(R, BatchesOf(v))]
           k == [tx[t] EXCEPT !.sum = sum]
<1>1. t \in Packages /\ tx[t] \in PackageTx
  BY Zenon, Kinds DEF TInv, SumBatches
<1>2. IsFiniteSet(BatchesOf(v)) /\ BatchesOf(v) \subseteq Batches
  BY Zenon, StockAssumption, FS_Subset DEF BatchesOf
<1>3. \A b \in BatchesOf(v) : R[b] \in Nat /\ U[b] \in Nat /\ R[b] <= U[b]
  BY Zenon, <1>2, SeenOrdered DEF Row
<1>4. sum \in SumRows /\ sum.reserved <= sum.usable
  <2> HIDE DEF U, R
  <2>1. SumOver(U, BatchesOf(v)) \in Nat /\ SumOver(R, BatchesOf(v)) \in Nat
    BY Zenon, <1>2, <1>3, SumNat
  <2>2. SumOver(R, BatchesOf(v)) <= SumOver(U, BatchesOf(v))
    BY Zenon, <1>2, <1>3, SumMono
  <2> QED
    BY Zenon, <2>1, <2>2 DEF SumRows
<1>5. tx' = [tx EXCEPT ![t].sum = sum]
  BY Zenon DEF SumBatches
<1> HIDE DEF sum
<1>6. /\ k \in PackageTx /\ k.kind = tx[t].kind /\ k.sum = sum
      /\ k.batches = tx[t].batches /\ k.new = tx[t].new
  BY Zenon, <1>1, <1>4 DEF PackageTx
<1>7. tx' = [tx EXCEPT ![t] = k] /\ tx'[t] = k
  BY Zenon, <1>5 DEF TInv, TxnsType
<1>8. UNCHANGED <<batch, inv, batchW, invW, lock, alloc, sent, brought>>
  BY Zenon DEF SumBatches
<1> HIDE DEF k
<1>9. Holds(t)'
  BY Zenon, <1>6, <1>7, <1>8, HoldsKept DEF TInv
<1>10. Shape(t, k)
  BY Zenon, <1>1, <1>4, <1>6 DEF Shape
<1> QED
  BY Zenon, <1>7, <1>8, <1>9, <1>10, PlainStep

\* The reserved total is written only after its comparison with the usable
\* one, on the locked row.
LEMMA ReserveInventoryStep ==
  ASSUME TInv, NEW p \in Txns, NEW v \in Inventories, ReserveInventory(p, v)
  PROVE  TInv'
<1> DEFINE k == [tx[p] EXCEPT !.sum = NoSum, !.invs = @ \ {v}]
           row == [inv[v] EXCEPT !.reserved = tx[p].sum.reserved]
<1>1. p \in Packages /\ tx[p] \in PackageTx /\ tx[p].kind = "reserve"
  BY Zenon, Kinds DEF TInv, ReserveInventory
<1>2. tx[p].sum # NoSum
  BY RowAssumption DEF ReserveInventory, NoSum
<1>3. tx[p].sum.reserved \in Nat
  BY Zenon, <1>1, <1>2 DEF PackageTx, SumRows
<1>4. inv[v] \in Row
  BY Zenon DEF TInv, RowsType
<1>5. row \in Row /\ row.reserved <= row.usable
  BY Zenon, <1>3, <1>4 DEF Row, ReserveInventory
<1>6. /\ k \in PackageTx /\ k.kind = tx[p].kind
      /\ k.batches = tx[p].batches /\ k.new = tx[p].new
  BY Zenon, <1>1 DEF PackageTx, SumRows
<1>7. tx' = [tx EXCEPT ![p] = k]
  BY Zenon DEF ReserveInventory, TInv, TxnsType
<1>8. /\ invW' = [invW EXCEPT ![v] = row] /\ Take(p, v)
      /\ UNCHANGED <<batch, inv, batchW, alloc, sent, brought>>
  BY Zenon DEF ReserveInventory
<1>9. Shape(p, k)
  BY Zenon, <1>1, <1>6 DEF Shape
<1> HIDE DEF k, row
<1> QED
  BY Zenon, <1>5, <1>6, <1>7, <1>8, <1>9, InventoryStep

\* Dispatch writes both totals as they were summed.
LEMMA CommitInventoryStep ==
  ASSUME TInv, NEW p \in Txns, NEW v \in Inventories, CommitInventory(p, v)
  PROVE  TInv'
<1> DEFINE k == [tx[p] EXCEPT !.sum = NoSum, !.invs = @ \ {v}]
           row == [usable |-> tx[p].sum.usable, reserved |-> tx[p].sum.reserved]
<1>1. p \in Packages /\ tx[p] \in PackageTx /\ tx[p].kind = "commit"
  BY Zenon, Kinds DEF TInv, CommitInventory
<1>2. tx[p].sum # NoSum
  BY RowAssumption DEF CommitInventory, NoSum
<1>3. tx[p].sum.reserved \in Nat /\ tx[p].sum.usable \in Nat
  BY Zenon, <1>1, <1>2 DEF PackageTx, SumRows
<1>4. tx[p].sum.reserved <= tx[p].sum.usable
  BY Zenon, <1>1, <1>2 DEF TInv, Ordered
<1>5. row \in Row /\ row.reserved <= row.usable
  BY Zenon, <1>3, <1>4 DEF Row
<1>6. /\ k \in PackageTx /\ k.kind = tx[p].kind /\ k.sum = NoSum
      /\ k.batches = tx[p].batches /\ k.new = tx[p].new
  BY Zenon, <1>1 DEF PackageTx, SumRows
<1>7. tx' = [tx EXCEPT ![p] = k]
  BY Zenon DEF CommitInventory, TInv, TxnsType
<1>8. /\ invW' = [invW EXCEPT ![v] = row] /\ Take(p, v)
      /\ UNCHANGED <<batch, inv, batchW, alloc, sent, brought>>
  BY Zenon DEF CommitInventory
<1>9. Shape(p, k)
  BY Zenon, <1>1, <1>6 DEF Shape
<1> HIDE DEF k, row
<1> QED
  BY Zenon, <1>5, <1>6, <1>7, <1>8, <1>9, InventoryStep

\* An intake only raises the usable total.
LEMMA IntakeInventoryStep ==
  ASSUME TInv, NEW t \in Txns, NEW v \in Inventories, IntakeInventory(t, v)
  PROVE  TInv'
<1> DEFINE k == [tx[t] EXCEPT !.invs = {}]
           row == [inv[v] EXCEPT !.usable = @ + IntakeQty]
<1>1. t \in Intakes /\ tx[t] \in IntakeTx /\ tx[t].kind = "intake"
  BY Zenon, Kinds DEF TInv, IntakeInventory
<1>2. inv[v] \in Row /\ inv[v].reserved <= inv[v].usable
  BY Zenon DEF TInv, RowsType, InventoryWithinUsable
<1>3. row \in Row /\ row.reserved <= row.usable
  BY <1>2, StockAssumption DEF Row
<1>4. k \in IntakeTx /\ k.kind = tx[t].kind /\ k.batches = tx[t].batches
  BY Zenon, <1>1 DEF IntakeTx
<1>5. tx' = [tx EXCEPT ![t] = k]
  BY Zenon DEF IntakeInventory, TInv, TxnsType
<1>6. /\ invW' = [invW EXCEPT ![v] = row] /\ Take(t, v)
      /\ UNCHANGED <<batch, inv, batchW, alloc, sent, brought>>
  BY Zenon DEF IntakeInventory
<1>7. Shape(t, k) /\ t \notin Packages
  BY Zenon, <1>1, <1>4, TxnAssumption DEF Shape
<1> HIDE DEF k, row
<1> QED
  BY Zenon, <1>3, <1>4, <1>5, <1>6, <1>7, InventoryStep

-----------------------------------------------------------------------------
(* The end of a transaction *)

\* When t ends, by commit or by rollback, its rows become free, with one
\* value, and the other transactions are where they were.
LEMMA EndStep ==
  ASSUME TInv, NEW t \in Txns,
         lock' = Unlocked(t), tx' = [tx EXCEPT ![t] = Idle],
         \A b \in Batches : lock[b] # t => batch'[b] = batch[b] /\ batchW'[b] = batchW[b],
         \A b \in Batches : lock[b] = t => batch'[b] = batchW'[b],
         \A b \in Batches : batchW'[b].reserved <= batchW'[b].usable,
         \A v \in Inventories : invW'[v].reserved <= invW'[v].usable,
         \A p \in Packages \ {t} : alloc'[p] = alloc[p] /\ (p \in sent' <=> p \in sent),
         \A u \in Intakes \ {t} : brought'[u] = brought[u]
  PROVE  TxnsType' /\ LocksHeld' /\ Ordered' /\ \A u \in Txns : Holds(u)'
<1>1. lock \in [Batches \cup Inventories -> Txns \cup {"free"}] /\ t # "free"
  BY Zenon, TxnAssumption DEF TInv, TxnsType, Txns
<1>2. /\ lock' \in [Batches \cup Inventories -> Txns \cup {"free"}]
      /\ \A x \in Batches \cup Inventories :
           lock'[x] = IF lock[x] = t THEN "free" ELSE lock[x]
  BY Zenon, <1>1 DEF Unlocked
<1>3. TxnsType' /\ tx'[t] = Idle /\ \A u \in Txns \ {t} : tx'[u] = tx[u]
  BY Zenon, <1>2, TxTyped DEF TInv
<1>4. LocksHeld'
  <2>1. \A u \in Txns : tx'[u] = Idle => \A x \in Batches \cup Inventories : lock'[x] # u
    BY <1>1, <1>2, <1>3, TxnAssumption DEF TInv, LocksHeld, Txns
  <2>2. \A b \in Batches : lock'[b] = "free" => batchW'[b] = batch'[b]
    BY Zenon, <1>2 DEF TInv, LocksHeld
  <2> QED
    BY Zenon, <2>1, <2>2 DEF LocksHeld
<1>5. Idle.kind = "idle"
  BY Zenon DEF Idle
<1>6. Ordered'
  BY <1>3, <1>5 DEF TInv, Ordered, Txns
<1>7. ASSUME NEW u \in Txns \ {t} PROVE Holds(u)'
  <2>1. u # "free"
    BY Zenon, TxnAssumption DEF Txns
  <2>2. \A b \in Batches : lock'[b] = u <=> lock[b] = u
    BY Zenon, <1>1, <1>2, <2>1
  <2>3. \A b \in Batches : lock[b] = u => batchW'[b] = batchW[b] /\ batch'[b] = batch[b]
    BY Zenon
  <2> QED
    BY Zenon, <1>3, <2>2, <2>3, OthersHold DEF TInv
<1>8. Holds(t)'
  BY Zenon, <1>3, <1>5 DEF Holds
<1> QED
  BY Zenon, <1>3, <1>4, <1>6, <1>7, <1>8

\* A rollback restores the committed value of every row it frees.
LEMMA AbortStep ==
  ASSUME TInv, NEW t \in Txns, Abort(t)
  PROVE  TInv'
<1>1. \A b \in Batches : batchW'[b] = IF lock[b] = t THEN batch[b] ELSE batchW[b]
  BY Zenon DEF Abort
<1>2. \A v \in Inventories : invW'[v] = IF lock[v] = t THEN inv[v] ELSE invW[v]
  BY Zenon DEF Abort
<1>3. RowsType'
  BY Zenon DEF TInv, RowsType, Abort
<1>4. \A b \in Batches : batchW'[b].reserved <= batchW'[b].usable
  BY Zenon, <1>1 DEF TInv, Ordered, NoDoubleAllocation
<1>5. \A v \in Inventories : invW'[v].reserved <= invW'[v].usable
  BY Zenon, <1>2 DEF TInv, Ordered, InventoryWithinUsable
<1>6. TxnsType' /\ LocksHeld' /\ Ordered' /\ \A u \in Txns : Holds(u)'
  BY Zenon, <1>1, <1>4, <1>5, EndStep DEF Abort
<1> QED
  BY Zenon, <1>3, <1>6, CommittedSame DEF TInv, Abort

\* The sums over packages and intakes that the batch invariants use have
\* natural terms.
LEMMA TermsNat ==
  ASSUME RowsType, NEW b \in Batches
  PROVE  /\ \A p \in Packages : Held(b)[p] \in Nat /\ Gone(b)[p] \in Nat
         /\ \A t \in Intakes : Came(b)[t] \in Nat
         /\ SumOver(Held(b), Packages) \in Nat /\ SumOver(Gone(b), Packages) \in Nat
         /\ SumOver(Came(b), Intakes) \in Nat
<1>1. \A p \in Packages : Held(b)[p] \in Nat /\ Gone(b)[p] \in Nat
  BY Zenon, FormRowsFacts DEF RowsType, Held, Gone
<1>2. \A t \in Intakes : Came(b)[t] \in Nat
  BY Zenon, StockAssumption DEF RowsType, Came
<1> QED
  BY Zenon, <1>1, <1>2, StockAssumption, SumNat

\* A commit that saves no package leaves the sums over the packages.
LEMMA PackagesSame ==
  ASSUME NEW b \in Batches, UNCHANGED <<alloc, sent>>
  PROVE  /\ SumOver(Held(b), Packages)' = SumOver(Held(b), Packages)
         /\ SumOver(Gone(b), Packages)' = SumOver(Gone(b), Packages)
BY DEF Held, Gone

\* And one that records no intake leaves the sum over the intakes.
LEMMA IntakesSame ==
  ASSUME NEW b \in Batches, UNCHANGED brought
  PROVE  SumOver(Came(b), Intakes)' = SumOver(Came(b), Intakes)
BY DEF Came

\* Only the columns of package p change: the sums move by p's own terms.
LEMMA PackageSums ==
  ASSUME RowsType, RowsType', NEW b \in Batches, NEW p \in Packages,
         \A q \in Packages \ {p} : alloc'[q] = alloc[q] /\ (q \in sent' <=> q \in sent)
  PROVE  /\ SumOver(Held(b), Packages)' =
              SumOver(Held(b), Packages) - Held(b)[p] + Held(b)'[p]
         /\ SumOver(Gone(b), Packages)' =
              SumOver(Gone(b), Packages) - Gone(b)[p] + Gone(b)'[p]
<1> DEFINE H == Held(b)
           H2 == Held(b)'
           G == Gone(b)
           G2 == Gone(b)'
<1>1. \A q \in Packages : H[q] \in Nat /\ G[q] \in Nat
  BY Zenon, TermsNat
<1>2. \A q \in Packages : H2[q] \in Nat /\ G2[q] \in Nat
  BY Zenon, FormRowsFacts DEF RowsType, Held, Gone
<1>3. \A q \in Packages \ {p} : H[q] = H2[q] /\ G[q] = G2[q]
  BY Zenon DEF Held, Gone
<1> HIDE DEF H, H2, G, G2
<1>4. SumOver(H2, Packages) = SumOver(H, Packages) - H[p] + H2[p]
  BY <1>1, <1>2, <1>3, StockAssumption, SumChange
<1>5. SumOver(G2, Packages) = SumOver(G, Packages) - G[p] + G2[p]
  BY <1>1, <1>2, <1>3, StockAssumption, SumChange
<1> QED
  BY Zenon, <1>4, <1>5 DEF H, H2, G, G2

\* The same for the intakes.
LEMMA IntakeSums ==
  ASSUME RowsType, RowsType', NEW b \in Batches, NEW t \in Intakes,
         \A u \in Intakes \ {t} : brought'[u] = brought[u]
  PROVE  SumOver(Came(b), Intakes)' = SumOver(Came(b), Intakes) - Came(b)[t] + Came(b)'[t]
<1> DEFINE C == Came(b)
           C2 == Came(b)'
<1>1. \A u \in Intakes : C[u] \in Nat
  BY Zenon, TermsNat
<1>2. \A u \in Intakes : C2[u] \in Nat
  BY Zenon, StockAssumption DEF Came
<1>3. \A u \in Intakes \ {t} : C[u] = C2[u]
  BY Zenon DEF Came
<1> HIDE DEF C, C2
<1>4. SumOver(C2, Intakes) = SumOver(C, Intakes) - C[t] + C2[t]
  BY <1>1, <1>2, <1>3, StockAssumption, SumChange
<1> QED
  BY Zenon, <1>4 DEF C, C2

\* What the batch invariants say of one batch.
BatchSound(b) ==
  /\ batch[b].reserved = SumOver(Held(b), Packages)
  /\ batch[b].reserved <= batch[b].usable
  /\ batch[b].usable + SumOver(Gone(b), Packages) = InitialQty[b] + SumOver(Came(b), Intakes)

\* Saving a reservation: the new quantities replace the old ones in the
\* batches that were locked, and are equal to them in every other.
LEMMA CommitReserve ==
  ASSUME TInv, NEW p \in Txns, Commit(p), tx[p].kind = "reserve", RowsType',
         NEW b \in Batches
  PROVE  BatchSound(b)'
<1>1. p \in Packages /\ tx[p] \in PackageTx /\ Reserving(p, b)
  BY Zenon, Kinds DEF TInv, Holds
<1>2. /\ alloc' = [alloc EXCEPT ![p] = tx[p].new] /\ UNCHANGED <<sent, brought>>
      /\ tx[p].batches = {} /\ batch'[b] = Seen(p, b)
  BY Zenon DEF Commit
<1>3. alloc'[p] = tx[p].new /\ \A q \in Packages \ {p} : alloc'[q] = alloc[q]
  BY Zenon, <1>1, <1>2 DEF TInv, RowsType
<1>4. p \notin sent /\ p \notin sent'
  BY Zenon, <1>1, <1>2 DEF Reserving
<1>5. /\ Held(b)[p] = Qty(alloc[p], b) /\ Held(b)'[p] = Qty(tx[p].new, b)
      /\ Gone(b)[p] = 0 /\ Gone(b)'[p] = 0
  BY Zenon, <1>1, <1>3, <1>4 DEF Held, Gone
<1>6. /\ SumOver(Held(b), Packages)' =
           SumOver(Held(b), Packages) - Qty(alloc[p], b) + Qty(tx[p].new, b)
      /\ SumOver(Gone(b), Packages)' = SumOver(Gone(b), Packages) - 0 + 0
  BY Zenon, <1>1, <1>2, <1>3, <1>5, PackageSums DEF TInv
<1>7. SumOver(Came(b), Intakes)' = SumOver(Came(b), Intakes)
  BY Zenon, <1>2, IntakesSame
<1>8. /\ batch'[b].usable = batch[b].usable
      /\ batch'[b].reserved + Qty(alloc[p], b) = batch[b].reserved + Qty(tx[p].new, b)
      /\ batch'[b].reserved <= batch'[b].usable
  <2>1. CASE lock[b] = p
    BY Zenon, <1>1, <1>2, <2>1 DEF Reserving, Seen, TInv, Ordered
  <2>2. CASE lock[b] # p
    BY Zenon, <1>1, <1>2, <2>2 DEF Reserving, Seen, TInv, NoDoubleAllocation
  <2> QED
    BY Zenon, <2>1, <2>2
<1>9. /\ batch[b].reserved = SumOver(Held(b), Packages)
      /\ batch[b].usable + SumOver(Gone(b), Packages)
           = InitialQty[b] + SumOver(Came(b), Intakes)
  BY Zenon DEF TInv, NoDoubleAllocation, BatchConserved
<1>10. /\ SumOver(Held(b), Packages) \in Nat /\ SumOver(Gone(b), Packages) \in Nat
       /\ Qty(alloc[p], b) \in Nat /\ Qty(tx[p].new, b) \in Nat
       /\ batch'[b].reserved \in Nat
  <2>1. alloc[p] \in FormRows /\ tx[p].new \in FormRows /\ batch'[b] \in Row
    BY Zenon, <1>1 DEF TInv, RowsType, PackageTx
  <2> QED
    BY Zenon, <2>1, TermsNat, FormRowsFacts DEF TInv, Row
<1>11. batch'[b].reserved = SumOver(Held(b), Packages)'
  BY <1>6, <1>8, <1>9, <1>10
<1>12. batch'[b].usable + SumOver(Gone(b), Packages)'
         = InitialQty[b] + SumOver(Came(b), Intakes)'
  BY <1>6, <1>7, <1>8, <1>9, <1>10
<1> QED
  BY Zenon, <1>8, <1>11, <1>12 DEF BatchSound

\* Dispatch: what the package held leaves both columns of each batch it drew
\* on and is counted as gone.
LEMMA CommitDispatch ==
  ASSUME TInv, NEW p \in Txns, Commit(p), tx[p].kind = "commit", RowsType',
         NEW b \in Batches
  PROVE  BatchSound(b)'
<1>1. p \in Packages /\ Committing(p, b)
  BY Zenon, Kinds DEF TInv, Holds
<1>2. /\ sent' = sent \cup {p} /\ UNCHANGED <<alloc, brought>>
      /\ tx[p].batches = {} /\ batch'[b] = Seen(p, b)
  BY Zenon DEF Commit
<1>3. p \notin sent
  BY Zenon, <1>1 DEF Committing
<1>4. /\ Held(b)[p] = Qty(alloc[p], b) /\ Held(b)'[p] = 0
      /\ Gone(b)[p] = 0 /\ Gone(b)'[p] = Qty(alloc[p], b)
  BY Zenon, <1>1, <1>2, <1>3 DEF Held, Gone
<1>5. /\ SumOver(Held(b), Packages)' = SumOver(Held(b), Packages) - Qty(alloc[p], b) + 0
      /\ SumOver(Gone(b), Packages)' = SumOver(Gone(b), Packages) - 0 + Qty(alloc[p], b)
  BY Zenon, <1>1, <1>2, <1>4, PackageSums DEF TInv
<1>6. SumOver(Came(b), Intakes)' = SumOver(Came(b), Intakes)
  BY Zenon, <1>2, IntakesSame
<1>7. alloc[p] \in FormRows /\ batch'[b] \in Row /\ batch[b] \in Row
  BY Zenon, <1>1 DEF TInv, RowsType
<1>8. /\ SumOver(Held(b), Packages) \in Nat /\ SumOver(Gone(b), Packages) \in Nat
      /\ Qty(alloc[p], b) \in Nat /\ batch'[b].reserved \in Nat /\ batch'[b].usable \in Nat
      /\ batch[b].reserved \in Nat /\ batch[b].usable \in Nat
  BY Zenon, <1>7, TermsNat, FormRowsFacts DEF TInv, Row
<1>9. /\ batch'[b].usable + Qty(alloc[p], b) = batch[b].usable
      /\ batch'[b].reserved + Qty(alloc[p], b) = batch[b].reserved
  <2>1. CASE lock[b] = p
    BY Zenon, <1>1, <1>2, <2>1 DEF Committing, Seen
  <2>2. CASE lock[b] # p
    <3>1. Qty(alloc[p], b) = 0 /\ batch'[b] = batch[b]
      BY Zenon, <1>1, <1>2, <2>2 DEF Committing, Seen
    <3> QED
      BY <1>8, <3>1
  <2> QED
    BY Zenon, <2>1, <2>2
<1>10. /\ batch[b].reserved = SumOver(Held(b), Packages)
       /\ batch[b].reserved <= batch[b].usable
       /\ batch[b].usable + SumOver(Gone(b), Packages)
            = InitialQty[b] + SumOver(Came(b), Intakes)
  BY Zenon DEF TInv, NoDoubleAllocation, BatchConserved
<1>11. batch'[b].reserved = SumOver(Held(b), Packages)' /\ batch'[b].reserved <= batch'[b].usable
  BY <1>5, <1>8, <1>9, <1>10
<1>12. batch'[b].usable + SumOver(Gone(b), Packages)'
         = InitialQty[b] + SumOver(Came(b), Intakes)'
  BY <1>5, <1>6, <1>8, <1>9, <1>10
<1> QED
  BY Zenon, <1>11, <1>12 DEF BatchSound

\* An intake: every batch it wrote is up by what the intake is recorded to
\* have brought.
LEMMA CommitIntake ==
  ASSUME TInv, NEW t \in Txns, Commit(t), tx[t].kind = "intake", RowsType',
         NEW b \in Batches
  PROVE  BatchSound(b)'
<1>1. t \in Intakes /\ TakingIn(t, b)
  BY Zenon, Kinds DEF TInv, Holds
<1>2. /\ brought' = [brought EXCEPT ![t] = {c \in Batches : lock[c] = t}]
      /\ UNCHANGED <<alloc, sent>> /\ batch'[b] = Seen(t, b)
  BY Zenon DEF Commit
<1>3. /\ brought'[t] = {c \in Batches : lock[c] = t}
      /\ \A u \in Intakes \ {t} : brought'[u] = brought[u]
  BY Zenon, <1>1, <1>2 DEF TInv, RowsType
<1>4. Came(b)[t] = 0 /\ Came(b)'[t] = IF lock[b] = t THEN IntakeQty ELSE 0
  BY Zenon, <1>1, <1>3 DEF Came, TakingIn
<1>5. SumOver(Came(b), Intakes)' =
        SumOver(Came(b), Intakes) - 0 + (IF lock[b] = t THEN IntakeQty ELSE 0)
  BY Zenon, <1>1, <1>3, <1>4, IntakeSums DEF TInv
<1>6. /\ SumOver(Held(b), Packages)' = SumOver(Held(b), Packages)
      /\ SumOver(Gone(b), Packages)' = SumOver(Gone(b), Packages)
  BY Zenon, <1>2, PackagesSame
<1>7. batch[b] \in Row /\ batch[b].usable \in Nat /\ batch[b].reserved \in Nat
  BY Zenon DEF TInv, RowsType, Row
<1>8. /\ SumOver(Gone(b), Packages) \in Nat /\ SumOver(Came(b), Intakes) \in Nat
      /\ IntakeQty \in Nat /\ InitialQty[b] \in Nat
  BY Zenon, TermsNat, StockAssumption DEF TInv
<1>9. /\ batch'[b].usable = batch[b].usable + (IF lock[b] = t THEN IntakeQty ELSE 0)
      /\ batch'[b].reserved = batch[b].reserved
  BY <1>1, <1>2, <1>7 DEF TakingIn, Seen
<1>10. /\ batch[b].reserved = SumOver(Held(b), Packages)
       /\ batch[b].reserved <= batch[b].usable
       /\ batch[b].usable + SumOver(Gone(b), Packages)
            = InitialQty[b] + SumOver(Came(b), Intakes)
  BY Zenon DEF TInv, NoDoubleAllocation, BatchConserved
<1>11. batch'[b].reserved = SumOver(Held(b), Packages)' /\ batch'[b].reserved <= batch'[b].usable
  BY <1>6, <1>7, <1>8, <1>9, <1>10
<1>12. batch'[b].usable + SumOver(Gone(b), Packages)'
         = InitialQty[b] + SumOver(Came(b), Intakes)'
  BY <1>5, <1>6, <1>7, <1>8, <1>9, <1>10
<1> QED
  BY Zenon, <1>11, <1>12 DEF BatchSound

\* A commit publishes the rows it frees.
LEMMA CommitStep ==
  ASSUME TInv, NEW t \in Txns, Commit(t)
  PROVE  TInv'
<1>1. tx[t].kind \in {"reserve", "commit", "intake"}
  BY Zenon, Kinds DEF TInv, Commit
<1>2. /\ tx[t].kind \in {"reserve", "commit"} => t \in Packages /\ tx[t] \in PackageTx
      /\ tx[t].kind = "intake" => t \in Intakes
  BY Zenon, Kinds DEF TInv
<1>3. /\ \A b \in Batches : batch'[b] = IF lock[b] = t THEN batchW[b] ELSE batch[b]
      /\ \A v \in Inventories : inv'[v] = IF lock[v] = t THEN invW[v] ELSE inv[v]
      /\ UNCHANGED <<batchW, invW>>
  BY Zenon DEF Commit, Seen
<1>4. RowsType'
  <2>1. batch' \in [Batches -> Row] /\ inv' \in [Inventories -> Row]
    BY Zenon DEF Commit, Seen, TInv, RowsType
  <2>2. alloc' \in [Packages -> FormRows]
    BY Zenon, <1>2 DEF Commit, TInv, RowsType, PackageTx
  <2>3. sent' \subseteq Packages
    BY Zenon, <1>2 DEF Commit, TInv, RowsType
  <2>4. brought' \in [Intakes -> SUBSET Batches]
    BY Zenon, <1>2 DEF Commit, TInv, RowsType
  <2> QED
    BY Zenon, <1>3, <2>1, <2>2, <2>3, <2>4 DEF TInv, RowsType
<1>5. TxnsType' /\ LocksHeld' /\ Ordered' /\ \A u \in Txns : Holds(u)'
  <2>1. \A p \in Packages \ {t} : alloc'[p] = alloc[p] /\ (p \in sent' <=> p \in sent)
    BY Zenon DEF Commit, TInv, RowsType
  <2>2. \A u \in Intakes \ {t} : brought'[u] = brought[u]
    BY Zenon DEF Commit, TInv, RowsType
  <2>3. lock' = Unlocked(t) /\ tx' = [tx EXCEPT ![t] = Idle]
    BY Zenon DEF Commit
  <2>4. /\ \A b \in Batches : batchW'[b].reserved <= batchW'[b].usable
        /\ \A v \in Inventories : invW'[v].reserved <= invW'[v].usable
    BY Zenon, <1>3 DEF TInv, Ordered
  <2> QED
    BY Zenon, <1>3, <2>1, <2>2, <2>3, <2>4, EndStep
<1>6. \A b \in Batches : BatchSound(b)'
  BY Zenon, <1>1, <1>4, CommitReserve, CommitDispatch, CommitIntake
<1>7. NoDoubleAllocation' /\ BatchConserved'
  BY Zenon, <1>6 DEF BatchSound, NoDoubleAllocation, BatchConserved
<1>8. InventoryWithinUsable'
  BY Zenon, <1>3 DEF InventoryWithinUsable, TInv, Ordered
<1> QED
  BY Zenon, <1>4, <1>5, <1>7, <1>8 DEF TInv

-----------------------------------------------------------------------------
(* The theorems *)

\* The invariant holds at the start, with every batch untouched.
LEMMA TInvInit == Init => TInv
<1> SUFFICES ASSUME Init PROVE TInv
  OBVIOUS
<1>1. \A v \in Inventories : SumOver(InitialQty, BatchesOf(v)) \in Nat
  <2> SUFFICES ASSUME NEW v \in Inventories PROVE SumOver(InitialQty, BatchesOf(v)) \in Nat
    OBVIOUS
  <2>1. IsFiniteSet(BatchesOf(v)) /\ \A b \in BatchesOf(v) : InitialQty[b] \in Nat
    BY Zenon, StockAssumption, FS_Subset DEF BatchesOf
  <2> QED
    BY Zenon, <2>1, SumNat
<1>2. /\ \A b \in Batches : batch[b].usable = InitialQty[b] /\ batch[b].reserved = 0
      /\ \A v \in Inventories : inv[v].usable \in Nat /\ inv[v].reserved = 0
      /\ batchW = batch /\ invW = inv
      /\ \A b \in Batches : InitialQty[b] \in Nat
  BY Zenon, <1>1, StockAssumption DEF Init
<1>3. RowsType
  <2>1. batch \in [Batches -> Row]
    BY Zenon, StockAssumption DEF Init, Row
  <2>2. inv \in [Inventories -> Row]
    BY Zenon, <1>1 DEF Init, Row
  <2> QED
    BY Zenon, <2>1, <2>2, NoRowsForm DEF Init, RowsType
<1>4. TxnsType /\ LocksHeld
  <2>1. Idle \notin PackageTx /\ Idle \notin IntakeTx
    BY Zenon DEF Idle, PackageTx, IntakeTx
  <2>2. \A t \in Txns : t # "free"
    BY TxnAssumption DEF Txns
  <2> QED
    BY Zenon, <2>1, <2>2 DEF Init, TxnsType, LocksHeld, Txns
<1>5. \A t \in Txns : tx[t].kind = "idle"
  BY Zenon DEF Init, Idle
<1>6. (\A t \in Txns : Holds(t)) /\ Ordered /\ InventoryWithinUsable
  <2>1. \A t \in Txns : Holds(t)
    BY Zenon, <1>5 DEF Holds
  <2>2. Ordered /\ InventoryWithinUsable
    <3>1. \A q \in Nat : 0 <= q
      OBVIOUS
    <3>2. \A p \in Packages : tx[p].kind = "idle"
      BY Zenon, <1>5 DEF Txns
    <3> QED
      BY Zenon, <1>2, <3>1, <3>2 DEF Ordered, InventoryWithinUsable
  <2> QED
    BY Zenon, <2>1, <2>2
<1>7. ASSUME NEW b \in Batches PROVE BatchSound(b)
  <2>1. \A p \in Packages : Held(b)[p] = 0 /\ Gone(b)[p] = 0
    BY Zenon, NoRowsForm DEF Init, Held, Gone
  <2>2. \A t \in Intakes : Came(b)[t] = 0
    BY Zenon DEF Init, Came
  <2>3. /\ SumOver(Held(b), Packages) = 0 /\ SumOver(Gone(b), Packages) = 0
        /\ SumOver(Came(b), Intakes) = 0
    BY Zenon, <2>1, <2>2, SumZero
  <2>4. /\ batch[b].usable = InitialQty[b] /\ batch[b].reserved = 0
        /\ InitialQty[b] \in Nat
    BY Zenon, <1>2
  <2>5. \A q \in Nat : 0 <= q /\ q + 0 = q
    OBVIOUS
  <2> QED
    BY Zenon, <2>3, <2>4, <2>5 DEF BatchSound
<1> QED
  BY Zenon, <1>3, <1>4, <1>6, <1>7 DEF TInv, BatchSound, NoDoubleAllocation, BatchConserved

\* Every step preserves the invariant.
LEMMA TInvNext == TInv /\ [Next]_vars => TInv'
<1> SUFFICES ASSUME TInv, [Next]_vars PROVE TInv'
  OBVIOUS
<1>1. CASE UNCHANGED vars
  <2>1. RowsType' /\ TxnsType' /\ LocksHeld' /\ Ordered'
    <3>1. RowsType' /\ TxnsType'
      BY Zenon, <1>1 DEF vars, TInv, RowsType, TxnsType
    <3>2. LocksHeld'
      BY Zenon, <1>1 DEF vars, TInv, LocksHeld
    <3>3. Ordered'
      BY Zenon, <1>1 DEF vars, TInv, Ordered
    <3> QED
      BY Zenon, <3>1, <3>2, <3>3
  <2>2. ASSUME NEW t \in Txns PROVE Holds(t)'
    BY Zenon, <1>1, HoldsKept DEF vars, TInv
  <2>3. NoDoubleAllocation' /\ BatchConserved' /\ InventoryWithinUsable'
    BY Zenon, <1>1, CommittedSame DEF vars, TInv
  <2> QED
    BY Zenon, <2>1, <2>2, <2>3 DEF TInv
<1>2. ASSUME NEW t \in Txns, Begin(t) PROVE TInv'
  BY <1>2, BeginReserveStep, BeginCommitStep, BeginIntakeStep DEF Begin
<1>3. ASSUME NEW t \in Txns, Statement(t) PROVE TInv'
  <2>1. ASSUME NEW b \in Batches,
               ReserveBatch(t, b) \/ CommitBatch(t, b) \/ IntakeBatch(t, b)
        PROVE  TInv'
    BY <2>1, ReserveBatchStep, CommitBatchStep, IntakeBatchStep
  <2>2. ASSUME NEW v \in Inventories,
               \/ SumBatches(t, v) \/ ReserveInventory(t, v)
               \/ CommitInventory(t, v) \/ IntakeInventory(t, v)
        PROVE  TInv'
    BY Zenon, <2>2, SumBatchesStep, ReserveInventoryStep, CommitInventoryStep, IntakeInventoryStep
  <2> QED
    BY Zenon, <1>3, <2>1, <2>2, CommitStep DEF Statement
<1> QED
  BY <1>1, <1>2, <1>3, AbortStep DEF Next

\* The row locks of reserve_inventory, commit_inventory and the intake are
\* enough: in every interleaving of their statements, commits and rollbacks,
\* a batch counts as reserved exactly what the open packages hold of it, and
\* that is never more than it has.
THEOREM LocksPreventDoubleAllocation == Spec => []NoDoubleAllocation
<1>1. TInv => NoDoubleAllocation
  BY DEF TInv
<1> QED
  BY <1>1, TInvInit, TInvNext, PTL DEF Spec

\* No update of a batch is lost: what is left and what was dispatched is what
\* was there and what committed intakes brought, whatever was rolled back.
THEOREM NoUnitIsLost == Spec => []BatchConserved
<1>1. TInv => BatchConserved
  BY DEF TInv
<1> QED
  BY <1>1, TInvInit, TInvNext, PTL DEF Spec

\* The stale totals that SELECT SUM may read never make an inventory row
\* reserve more than it has: the check constraint of the table refuses no
\* commit.
THEOREM StaleTotalsStayOrdered == Spec => []InventoryWithinUsable
<1>1. TInv => InventoryWithinUsable
  BY DEF TInv
<1> QED
  BY <1>1, TInvInit, TInvNext, PTL DEF Spec

=============================================================================
