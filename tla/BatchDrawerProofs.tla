------------------------- MODULE BatchDrawerProofs -------------------------
(***************************************************************************)
(* Proofs about what BatchDrawer saves, for any items, batches and         *)
(* quantities.  The drawer may show, and the page may carry, anything: the *)
(* rows are right because _save_draft checks each one against the batches  *)
(* as they are then.  A batch has one item, so once the rows name batches  *)
(* of their own item, at most one of them reserves a given batch, and the  *)
(* check of one row bounds the whole reservation.                          *)
(***************************************************************************)
EXTENDS BatchDrawer, SumLemmas

Column == [Batches -> Nat]

BInv ==
  /\ other \in Column /\ alloc \in Column /\ shown \in [Batches -> Int]
  /\ saved \in [Items -> Column] /\ form \in [Items -> Column]
  /\ open \in Items \cup {NoItem}
  /\ \A q \in asked : q.item \in Items /\ q.alloc \in Column
  /\ RowsOfTheirItem
  /\ NeverOverReserved

\* The smaller of two numbers.
LEMMA MinOfTwo ==
  ASSUME NEW a \in Int, NEW b \in Int
  PROVE  Min({a, b}) = IF a <= b THEN a ELSE b
<1> DEFINE m == IF a <= b THEN a ELSE b
<1>1. m \in {a, b} /\ \A y \in {a, b} : m <= y
  OBVIOUS
<1>2. \A x \in {a, b} : (\A y \in {a, b} : x <= y) => x = m
  OBVIOUS
<1> HIDE DEF m
<1>3. Min({a, b}) = m
  BY <1>1, <1>2 DEF Min
<1> QED
  BY <1>3 DEF m

\* What the rows of their own items reserve of a batch.
LEMMA OneRowPerBatch ==
  ASSUME NEW rows \in [Items -> Column], NEW b \in Batches,
         \A i \in Items : rows[i][b] > 0 => ItemOf[b] = i
  PROVE  SumOver([i \in Items |-> rows[i][b]], Items) = rows[ItemOf[b]][b]
<1> DEFINE f == [i \in Items |-> rows[i][b]]
           j == ItemOf[b]
<1>1. IsFiniteSet(Items) /\ j \in Items /\ \A i \in Items : f[i] \in Nat
  BY DrawerAssumption DEF Column
<1>2. \A i \in Items \ {j} : f[i] = 0
  BY <1>1
<1>3. f[j] = rows[j][b]
  BY Zenon, <1>1
<1> HIDE DEF f, j
<1>4. SumOver(f, Items) = f[j] + SumOver(f, Items \ {j})
  BY <1>1, SumSplit
<1>5. SumOver(f, Items \ {j}) = 0
  BY Zenon, <1>2, SumZero
<1>6. SumOver(f, Items) = f[j]
  BY <1>1, <1>4, <1>5
<1> QED
  BY Zenon, <1>3, <1>6 DEF f, j

\* What is reserved of a batch.
LEMMA Reserved ==
  BInv => \A b \in Batches : reserved_qty(b) = other[b] + saved[ItemOf[b]][b]
BY Zenon, OneRowPerBatch DEF BInv, RowsOfTheirItem, reserved_qty

\* A step that leaves what is saved and what others reserve.
LEMMA SameReserved ==
  ASSUME BInv, UNCHANGED <<other, saved>>
  PROVE  RowsOfTheirItem' /\ NeverOverReserved'
BY Zenon DEF BInv, RowsOfTheirItem, NeverOverReserved, reserved_qty

\* An answer of the server.
LEMMA AnswerType ==
  ASSUME BInv, NEW q \in asked, NEW answer \in get_limited_batches_for_drawer(q)
  PROVE  answer \in [Batches -> Int]
<1>1. PICK S : answer = [b \in Batches |-> IF b \in S THEN calc_available_qty(q, b) ELSE 0]
  BY Zenon DEF get_limited_batches_for_drawer
<1>2. ASSUME NEW b \in Batches PROVE calc_available_qty(q, b) \in Int
  <2>1. reserved_qty(b) = other[b] + saved[ItemOf[b]][b]
    BY Zenon, Reserved
  <2>2. /\ other[b] \in Nat /\ saved[ItemOf[b]][b] \in Nat
        /\ Usable[b] \in Nat /\ q.alloc[b] \in Nat
    BY DrawerAssumption DEF BInv, Column
  <2> QED
    BY <2>1, <2>2 DEF calc_available_qty
<1> QED
  BY <1>1, <1>2

\* The drawer is opened, filled or closed, or the page is changed.
LEMMA DrawerStep ==
  ASSUME BInv,
         \/ \E i \in Items : openDrawer(i)
         \/ \E q \in asked : loadBatches(q) \/ loadBatches_fails(q)
         \/ \E b \in Batches : input(b)
         \/ closeDrawer \/ resetDrawer \/ applyAllocations
  PROVE  BInv'
<1>1. UNCHANGED <<other, saved>> /\ None \in Column /\ None \in [Batches -> Int]
  BY DEF openDrawer, loadBatches, loadBatches_fails, input, closeDrawer, resetDrawer,
     applyAllocations, Close, stock, None, Column
<1>2. ASSUME NEW i \in Items, openDrawer(i) PROVE BInv'
  <2> DEFINE q == Request(i)
  <2>1. /\ open' = i /\ alloc' = form[i] /\ shown' = None /\ asked' = asked \union {q}
        /\ UNCHANGED form
    BY Zenon, <1>2 DEF openDrawer
  <2>2. q.item = i /\ q.alloc = form[i] /\ form[i] \in Column
    BY Zenon DEF BInv, Request
  <2> HIDE DEF q
  <2> QED
    BY Zenon, <1>1, <2>1, <2>2, SameReserved DEF BInv
<1>3. ASSUME NEW q \in asked, loadBatches(q) PROVE BInv'
  <2>1. shown' \in [Batches -> Int]
    BY Zenon, <1>3, AnswerType DEF loadBatches, BInv
  <2> QED
    BY Zenon, <1>1, <1>3, <2>1, SameReserved DEF BInv, loadBatches
<1>4. ASSUME NEW q \in asked, loadBatches_fails(q) PROVE BInv'
  BY Zenon, <1>1, <1>4, SameReserved DEF BInv, loadBatches_fails
<1>5. ASSUME NEW b \in Batches, input(b) PROVE BInv'
  <2>1. PICK qty \in 0 .. Requested[open] :
          alloc' = [alloc EXCEPT ![b] = Min({qty, shown[b]})]
    BY Zenon, <1>5 DEF input
  <2>2. qty \in Nat /\ shown[b] \in Int /\ shown[b] > 0
    BY <1>5, DrawerAssumption DEF input, BInv
  <2>3. Min({qty, shown[b]}) \in Nat
    BY <2>2, MinOfTwo
  <2>4. alloc' \in Column
    BY Zenon, <2>1, <2>3 DEF BInv, Column
  <2> QED
    BY Zenon, <1>1, <1>5, <2>4, SameReserved DEF BInv, input
<1>6. CASE closeDrawer
  BY Zenon, <1>1, <1>6, SameReserved DEF BInv, closeDrawer, Close, Cleared
<1>7. CASE resetDrawer
  BY Zenon, <1>1, <1>7, SameReserved DEF BInv, resetDrawer, Cleared
<1>8. CASE applyAllocations
  <2>1. form' \in [Items -> Column]
    BY Zenon, <1>8 DEF BInv, applyAllocations, Applied
  <2> QED
    BY Zenon, <1>1, <1>8, <2>1, SameReserved DEF BInv, applyAllocations, Close, Cleared
<1> QED
  BY Zenon, <1>2, <1>3, <1>4, <1>5, <1>6, <1>7, <1>8

\* Other packages reserve or release.
LEMMA OtherStep ==
  ASSUME BInv, NEW b \in Batches, reserve_other(b) \/ release_other(b)
  PROVE  BInv'
<1>1. UNCHANGED <<saved, form, open, alloc, shown, asked>>
  BY Zenon DEF reserve_other, release_other, browser
<1>2. /\ \A d \in Batches : other[d] \in Nat /\ saved[ItemOf[d]][d] \in Nat /\ Usable[d] \in Nat
      /\ \A d \in Batches : reserved_qty(d) = other[d] + saved[ItemOf[d]][d]
      /\ \A d \in Batches : reserved_qty(d) <= Usable[d]
  BY Reserved, DrawerAssumption DEF BInv, Column, NeverOverReserved
<1>3. /\ other' \in Column
      /\ \A d \in Batches : other'[d] + saved[ItemOf[d]][d] <= Usable[d]
  <2>1. CASE reserve_other(b)
    <3>1. other' = [other EXCEPT ![b] = other[b] + 1] /\ reserved_qty(b) < Usable[b]
      BY <1>2, <2>1 DEF reserve_other, Free
    <3> QED
      BY <1>2, <3>1 DEF BInv, Column
  <2>2. CASE release_other(b)
    <3>1. other' = [other EXCEPT ![b] = other[b] - 1] /\ other[b] > 0
      BY Zenon, <2>2 DEF release_other
    <3> QED
      BY <1>2, <3>1 DEF BInv, Column
  <2> QED
    BY Zenon, <2>1, <2>2
<1>4. RowsOfTheirItem'
  BY Zenon, <1>1 DEF BInv, RowsOfTheirItem
<1>5. NeverOverReserved'
  <2> SUFFICES ASSUME NEW d \in Batches PROVE reserved_qty(d)' <= Usable[d]
    BY DEF NeverOverReserved
  <2>1. reserved_qty(d)' = other'[d] + saved[ItemOf[d]][d]
    BY Zenon, <1>1, OneRowPerBatch DEF BInv, RowsOfTheirItem, reserved_qty
  <2> QED
    BY Zenon, <1>3, <2>1
<1> QED
  BY Zenon, <1>1, <1>3, <1>4, <1>5 DEF BInv

\* The page is saved, or refused.
LEMMA SaveStep ==
  ASSUME BInv, _save_draft
  PROVE  BInv'
<1> DEFINE valid == \A i \in Items :
             /\ \A b \in Batches : form[i][b] > 0 => validate_batch_allocation(i, b, form[i][b])
             /\ Total(form[i]) <= Requested[i]
<1>1. /\ saved' = IF valid THEN form ELSE saved
      /\ form' = saved' /\ open' = NoItem /\ alloc' = None /\ shown' = None /\ asked' = {}
      /\ UNCHANGED other
  BY Zenon DEF _save_draft, Cleared, stock
<1>2. None \in Column /\ None \in [Batches -> Int]
  BY DEF None, Column
<1>3. CASE ~ valid
  <2>1. saved' = saved
    BY Zenon, <1>1, <1>3
  <2> QED
    BY Zenon, <1>1, <1>2, <2>1, SameReserved DEF BInv
<1>4. CASE valid
  <2>1. saved' = form /\ saved' \in [Items -> Column]
    BY Zenon, <1>1, <1>4 DEF BInv
  <2>2. \A i \in Items : \A b \in Batches : form[i][b] > 0 =>
          ItemOf[b] = i /\ form[i][b] <= Usable[b] - (reserved_qty(b) - saved[i][b])
    BY Zenon, <1>4 DEF validate_batch_allocation
  <2>3. RowsOfTheirItem'
    BY Zenon, <2>1, <2>2 DEF RowsOfTheirItem
  <2>4. NeverOverReserved'
    <3> SUFFICES ASSUME NEW b \in Batches PROVE reserved_qty(b)' <= Usable[b]
      BY DEF NeverOverReserved
    <3> DEFINE j == ItemOf[b]
    <3>1. /\ j \in Items /\ other[b] \in Nat /\ saved[j][b] \in Nat /\ form[j][b] \in Nat
          /\ Usable[b] \in Nat /\ reserved_qty(b) = other[b] + saved[j][b]
          /\ reserved_qty(b) <= Usable[b]
      BY Reserved, DrawerAssumption DEF BInv, Column, NeverOverReserved
    <3>2. reserved_qty(b)' = other[b] + form[j][b]
      BY Zenon, <1>1, <2>1, <2>2, OneRowPerBatch DEF BInv, reserved_qty
    <3>3. form[j][b] > 0 => form[j][b] <= Usable[b] - (reserved_qty(b) - saved[j][b])
      BY Zenon, <2>2, <3>1
    <3> HIDE DEF j
    <3> QED
      BY <3>1, <3>2, <3>3
  <2> QED
    BY Zenon, <1>1, <1>2, <2>1, <2>3, <2>4 DEF BInv
<1> QED
  BY Zenon, <1>3, <1>4

\* The invariant holds on the page as first loaded.
LEMMA BInvInit == Init => BInv
<1> SUFFICES ASSUME Init PROVE BInv
  OBVIOUS
<1>1. /\ other = None /\ saved = [i \in Items |-> None] /\ form = saved
      /\ open = NoItem /\ alloc = None /\ shown = None /\ asked = {}
  BY Zenon DEF Init
<1>2. None \in Column /\ None \in [Batches -> Int] /\ \A b \in Batches : None[b] = 0
  BY DEF None, Column
<1>3. RowsOfTheirItem
  BY <1>1, <1>2 DEF RowsOfTheirItem
<1>4. NeverOverReserved
  <2> SUFFICES ASSUME NEW b \in Batches PROVE reserved_qty(b) <= Usable[b]
    BY DEF NeverOverReserved
  <2> DEFINE f == [i \in Items |-> saved[i][b]]
  <2>1. \A i \in Items : f[i] = 0
    BY Zenon, <1>1, <1>2
  <2> HIDE DEF f
  <2>2. SumOver(f, Items) = 0
    BY <2>1, SumZero
  <2>3. Usable[b] \in Nat /\ other[b] = 0
    BY Zenon, <1>1, <1>2, DrawerAssumption
  <2>4. reserved_qty(b) = other[b] + SumOver(f, Items)
    BY DEF reserved_qty, f
  <2> QED
    BY <2>2, <2>3, <2>4
<1> QED
  BY Zenon, <1>1, <1>2, <1>3, <1>4 DEF BInv

\* Every step of the browser, the server and other packages preserves it.
LEMMA BInvNext == BInv /\ [Next]_vars => BInv'
<1> SUFFICES ASSUME BInv, [Next]_vars PROVE BInv'
  OBVIOUS
<1>1. CASE UNCHANGED vars
  <2>1. UNCHANGED <<other, saved, form, open, alloc, shown, asked>>
    BY <1>1 DEF vars, stock, browser
  <2> QED
    BY Zenon, <2>1, SameReserved DEF BInv
<1>2. CASE Next
  BY Zenon, <1>2, DrawerStep, OtherStep, SaveStep DEF Next
<1> QED
  BY <1>1, <1>2

\* No batch is reserved beyond what it holds, whatever the drawer showed and
\* whoever reserved since: _save_draft releases only the package's own rows
\* when it validates the form.
THEOREM ReservationsFit == Spec => []NeverOverReserved
<1>1. BInv => NeverOverReserved
  BY Zenon DEF BInv
<1> QED
  BY <1>1, BInvInit, BInvNext, PTL DEF Spec

\* The rows that are saved name batches of their own item, although a late
\* answer fills the open drawer with the batches of another one.
THEOREM RowsNameTheirItem == Spec => []RowsOfTheirItem
<1>1. BInv => RowsOfTheirItem
  BY Zenon DEF BInv
<1> QED
  BY <1>1, BInvInit, BInvNext, PTL DEF Spec

=============================================================================
