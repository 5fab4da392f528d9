--------------------------- MODULE DonationsProofs ---------------------------
(***************************************************************************)
(* Proofs about Donations, for any donations, items, warehouses, clients   *)
(* and quantities.                                                         *)
(*                                                                         *)
(* The argument is the one of optimistic locking: a handler's copy of a    *)
(* row either is the row, or has an older version, or the row is gone.     *)
(* A commit that finds its version therefore acts on the row it validated. *)
(* That holds for the donation (so one intake excludes another, also at    *)
(* another warehouse) and for the NULL batches an intake found (so no      *)
(* quantity is lost).  The stock sums follow from it batch by batch.       *)
(***************************************************************************)
EXTENDS Donations, TLAPS

-----------------------------------------------------------------------------
(* What the proofs need of finite sets, of sums and of rounding *)

FiniteLaws ==
  /\ \A S : IsFiniteSet(S) => Cardinality(S) \in Nat
  /\ \A S, T : IsFiniteSet(S) /\ T \subseteq S => IsFiniteSet(T)
  /\ \A S, T : IsFiniteSet(S) /\ IsFiniteSet(T) => IsFiniteSet(S \X T)
  /\ \A n \in Nat : IsFiniteSet(1 .. n)
  /\ IsFiniteSet({}) /\ Cardinality({}) = 0
  /\ \A S, y : IsFiniteSet(S) /\ y \notin S => Cardinality(S \cup {y}) = Cardinality(S) + 1

NatLaw == \A f, S : IsFiniteSet(S) /\ (\A x \in S : f[x] \in Nat) => SumOver(f, S) \in Nat
ZeroLaw == \A f, S : (\A x \in S : f[x] = 0) => SumOver(f, S) = 0
SameLaw == \A f, g, S : (\A x \in S : f[x] = g[x]) => SumOver(f, S) = SumOver(g, S)
RaisesRow(f, g, S, y, q) ==
  /\ y \in S /\ q \in Nat /\ IsFiniteSet(S)
  /\ \A x \in S : f[x] \in Nat
  /\ \A x \in S \ {y} : f[x] = g[x]
  /\ g[y] = f[y] + q
RaiseLaw == \A f, g, S, y, q : RaisesRow(f, g, S, y, q) => SumOver(g, S) = SumOver(f, S) + q
AddsRow(f, g, S, T, y) ==
  /\ y \notin S /\ T = S \cup {y} /\ IsFiniteSet(S)
  /\ \A x \in S : f[x] \in Nat
  /\ \A x \in S : f[x] = g[x]
  /\ g[y] \in Nat
GrowLaw ==
  \A f, g, S, T, y : AddsRow(f, g, S, T, y) =>
    IsFiniteSet(T) /\ SumOver(g, T) = SumOver(f, S) + g[y]

\* The numbers a column keeps as they are.
Kept(unit) == {n \in Nat : RoundTo(n, unit) = n}

KeptLaw(unit) ==
  /\ Kept(unit) \subseteq Nat /\ 0 \in Kept(unit)
  /\ \A q \in Nat : RoundTo(q, unit) \in Kept(unit)
  /\ \A a \in Kept(unit), q \in Nat :
       RoundTo(a + q, unit) \in Kept(unit) /\ RoundTo(a + q, unit) = a + RoundTo(q, unit)
DriftLaw ==
  /\ Drift \in Nat
  /\ \A q \in Counted \cup {0} : /\ 2 * RoundTo(q, Tick) <= 2 * RoundTo(q, Cent) + Drift
                                  /\ 2 * RoundTo(q, Cent) <= 2 * RoundTo(q, Tick) + Drift
PartsLaw ==
  \A a, b, e \in Counted \cup {0} : a + b + e \in Kept(Cent) =>
    LET sum == RoundTo(a, Cent) + RoundTo(b, Cent) + RoundTo(e, Cent)
    IN  sum <= a + b + e + Drift /\ a + b + e <= sum + Drift
RoundLaws == KeptLaw(Tick) /\ KeptLaw(Cent) /\ DriftLaw /\ PartsLaw

Laws == FiniteLaws /\ NatLaw /\ ZeroLaw /\ SameLaw /\ RaiseLaw /\ GrowLaw /\ RoundLaws

-----------------------------------------------------------------------------
(* The inductive invariant *)

DonationRows == [status : Statuses \cup Missing, version : Nat, header : Headers]
ItemRows == [qty : Kept(Cent), version : Nat]
Lines == [w : Warehouses, item : Items, no : BatchNos \cup {"NULL"},
          usable : Nat, defective : Nat, expired : Nat]
BatchRows == [w : Warehouses, item : Items, no : BatchNos \cup {"NULL"},
              usable : Kept(Tick), defective : Kept(Tick), expired : Kept(Tick), version : Nat]
StockRows == [usable : Kept(Cent), defective : Kept(Cent), expired : Kept(Cent),
              exists : BOOLEAN]
CountedLines == [no : BatchNos \cup {"NULL"}, usable : Counted \cup {0},
                 defective : Counted \cup {0}, expired : Counted \cup {0}]

RowsType ==
  /\ donation \in [Donations -> DonationRows]
  /\ items \in [Donations -> [Items -> ItemRows]]
  /\ lines \in [Donations -> SUBSET Lines]
  /\ intakes \subseteq Donations \X Warehouses
  /\ batches \in Seq(BatchRows)
  /\ inv \in [Warehouses -> [Items -> StockRows]]
  /\ DOMAIN task = Clients

\* A donation row that is there has a version, one that is gone has none,
\* and a donation that create_donation stored is never open for editing.
RowsSound ==
  \A d \in Donations :
    /\ donation[d].status \notin Missing => donation[d].version >= 1
    /\ donation[d].status \in Missing => donation[d].version = 0
    /\ d \notin Entered => donation[d].status # "E"
    /\ (\A w \in Warehouses : <<d, w>> \notin intakes) => lines[d] = {}

\* The copy of its donation that a handler works on.
CopySound(c) ==
  LET d == task[c].d
      row == task[c].row
  IN  /\ task[c] = [op |-> task[c].op, d |-> d, row |-> row, more |-> task[c].more]
      /\ d \in Donations /\ row \in DonationRows
      /\ row.version >= 1
      /\ row.status = IF task[c].op = "intake" THEN "V" ELSE "E"
      /\ task[c].op # "intake" => d \in Entered
      /\ donation[d].status # "none"
      /\ donation[d].status = "deleted" \/ row.version <= donation[d].version
      /\ donation[d].version = row.version => donation[d] = row

\* An intake that has read the donation's items, and one that has validated
\* its form and found the batches without a number.
ReadSound(c) ==
  LET m == task[c].more
  IN  /\ m.rows \in [Items -> ItemRows]
      /\ task[c].d \notin Entered => m.rows = items[task[c].d]

\* The row an intake has of the batch it found for item i, in the table bs.
FoundBatch(bs, m, i) ==
  LET b == m.found[i].id
      row == m.found[i].row
  IN  /\ b \in DOMAIN bs /\ row \in BatchRows
      /\ bs[b].w = m.w /\ bs[b].item = i
      /\ row.version <= bs[b].version
      /\ row.version = bs[b].version => bs[b] = row

FoundSound(c) ==
  LET m == task[c].more
      d == task[c].d
  IN  /\ DOMAIN m.form \subseteq Items
      /\ \A i \in DOMAIN m.form : m.form[i] \in CountedLines
      /\ d \notin Entered => DOMAIN m.form = ItemsOf(items[d]) /\ AccountedFor(m.form, items[d])
      /\ DOMAIN m.found \subseteq DOMAIN m.form
      /\ \A i \in DOMAIN m.found : FoundBatch(batches, m, i)

TaskSound(c) ==
  \/ task[c] = Idle
  \/ /\ task[c].op \in {"edit_donation", "delete_donation"}
     /\ CopySound(c)
  \/ /\ task[c].op \in {"add_donation_item", "edit_donation_item", "delete_donation_item"}
     /\ CopySound(c)
     /\ task[c].more.item \in Items
  \/ /\ task[c].op = "intake"
     /\ CopySound(c)
     /\ task[c].more.w \in Warehouses
     /\ \/ task[c].more.step = "loaded"
        \/ task[c].more.step = "items" /\ ReadSound(c)
        \/ task[c].more.step = "found" /\ FoundSound(c)

BroughtFinite == \A w \in Warehouses, i \in Items : IsFiniteSet(Brought(w, i))

DInv == /\ RowsType /\ RowsSound /\ BroughtFinite
        /\ \A c \in Clients : TaskSound(c)
        /\ IntakeOnce /\ StockMatchesIntakes /\ IntakeComplete

-----------------------------------------------------------------------------
(* Steps and the handlers that do not take them *)

\* What a step may do to a donation row that a handler has loaded: leave it,
\* raise its version, or delete it.
Forward(d) ==
  \/ donation'[d] = donation[d]
  \/ donation[d].status = "none"
  \/ /\ donation[d].status # "deleted" /\ donation'[d].status # "none"
     /\ donation'[d].version > donation[d].version
  \/ donation'[d].status = "deleted" /\ donation'[d].version = 0

\* And to a batch: leave it, or raise its version.
BatchForward(b) ==
  /\ b \in BatchIds'
  /\ batches'[b].w = batches[b].w /\ batches'[b].item = batches[b].item
  /\ batches'[b] = batches[b] \/ batches'[b].version > batches[b].version

\* The items of a donation that create_donation stored stay as they are.
KeepsItems(d) == d \in Entered \/ donation[d].status = "none" \/ items'[d] = items[d]

\* Every row of itembatch has its columns.
LEMMA InBatchRows ==
  ASSUME NEW s \in Seq(BatchRows), NEW b \in DOMAIN s
  PROVE  s[b] \in BatchRows
OBVIOUS

\* The rows of a table are numbered from 1.
LEMMA SeqDomain ==
  ASSUME NEW X, NEW s \in Seq(X)
  PROVE  Len(s) \in Nat /\ DOMAIN s = 1 .. Len(s)
OBVIOUS

\* The copy of a donation stays current or outdated.
LEMMA CopyStays ==
  ASSUME RowsType, RowsType', NEW c, CopySound(c), task'[c] = task[c],
         \A d \in Donations : Forward(d)
  PROVE  CopySound(c)'
<1> DEFINE d == task[c].d
           row == task[c].row
<1>1. /\ d \in Donations /\ row \in DonationRows /\ row.version >= 1
      /\ donation[d].status # "none"
      /\ donation[d].status = "deleted" \/ row.version <= donation[d].version
      /\ donation[d].version = row.version => donation[d] = row
  BY Zenon DEF CopySound
<1>2. row.version \in Nat /\ donation[d].version \in Nat /\ donation'[d].version \in Nat
  BY Zenon, <1>1 DEF RowsType, DonationRows
<1>3. /\ donation'[d].status # "none"
      /\ donation'[d].status = "deleted" \/ row.version <= donation'[d].version
      /\ donation'[d].version = row.version => donation'[d] = row
  <2>1. Forward(d)
    BY Zenon, <1>1
  <2> QED
    BY <1>1, <1>2, <2>1 DEF Forward
<1> QED
  BY Zenon, <1>3 DEF CopySound

\* What one handler has read is not disturbed by the step of another.
LEMMA OthersSound ==
  ASSUME RowsType, RowsType', NEW c, TaskSound(c), task'[c] = task[c],
         \A d \in Donations : Forward(d) /\ KeepsItems(d),
         \A b \in BatchIds : BatchForward(b)
  PROVE  TaskSound(c)'
<1>1. CASE task[c] = Idle
  BY Zenon, <1>1 DEF TaskSound
<1>2. CASE CopySound(c)
  <2>1. CopySound(c)'
    BY Zenon, <1>2, CopyStays
  <2>2. /\ task[c].d \in Donations /\ donation[task[c].d].status # "none"
    BY Zenon, <1>2 DEF CopySound
  <2>3. task[c].d \notin Entered => items'[task[c].d] = items[task[c].d]
    BY Zenon, <2>2 DEF KeepsItems
  <2>4. ReadSound(c) => ReadSound(c)'
    BY Zenon, <2>3 DEF ReadSound
  <2>5. ASSUME FoundSound(c) PROVE FoundSound(c)'
    <3> DEFINE m == task[c].more
               d == task[c].d
    <3>1. d \notin Entered => /\ DOMAIN m.form = ItemsOf(items'[d])
                              /\ AccountedFor(m.form, items'[d])
      BY Zenon, <2>3, <2>5 DEF FoundSound
    <3>2. ASSUME NEW i \in DOMAIN m.found PROVE FoundBatch(batches', m, i)
      <4> DEFINE b == m.found[i].id
                 row == m.found[i].row
      <4>1. /\ b \in BatchIds /\ row \in BatchRows
            /\ batches[b].w = m.w /\ batches[b].item = i
            /\ row.version <= batches[b].version
            /\ row.version = batches[b].version => batches[b] = row
        BY Zenon, <2>5 DEF FoundSound, FoundBatch, BatchIds
      <4>2. BatchForward(b)
        BY Zenon, <4>1
      <4>3. batches[b].version \in Nat /\ batches'[b].version \in Nat /\ row.version \in Nat
        <5>1. b \in DOMAIN batches /\ b \in DOMAIN batches'
          BY Zenon, <4>1, <4>2 DEF BatchIds, BatchForward
        <5>2. batches \in Seq(BatchRows) /\ batches' \in Seq(BatchRows)
          BY Zenon DEF RowsType
        <5>3. batches[b] \in BatchRows /\ batches'[b] \in BatchRows
          BY Zenon, <5>1, <5>2, InBatchRows
        <5> QED
          BY Zenon, <4>1, <5>3 DEF BatchRows
      <4>4. /\ b \in DOMAIN batches' /\ row \in BatchRows
            /\ batches'[b].w = m.w /\ batches'[b].item = i
            /\ row.version <= batches'[b].version
            /\ row.version = batches'[b].version => batches'[b] = row
        <5> HIDE DEF b, row, m
        <5> QED
          BY <4>1, <4>2, <4>3 DEF BatchForward, BatchIds
      <4> QED
        BY Zenon, <4>4 DEF FoundBatch
    <3> QED
      BY Zenon, <2>5, <3>1, <3>2 DEF FoundSound
  <2> QED
    BY Zenon, <1>2, <2>1, <2>4, <2>5 DEF TaskSound
<1> QED
  BY Zenon, <1>1, <1>2 DEF TaskSound

\* In particular by a step that writes no row.
LEMMA Undisturbed ==
  ASSUME RowsType, RowsType', NEW c, TaskSound(c), task'[c] = task[c],
         UNCHANGED <<donation, items, batches>>
  PROVE  TaskSound(c)'
<1>1. \A d \in Donations : Forward(d) /\ KeepsItems(d)
  BY DEF Forward, KeepsItems
<1>2. \A b \in BatchIds : BatchForward(b)
  BY DEF BatchForward, BatchIds
<1> QED
  BY Zenon, <1>1, <1>2, OthersSound

\* The stock and the record of the intakes change together or not at all.
LEMMA StockSame ==
  ASSUME StockMatchesIntakes, BroughtFinite, UNCHANGED <<lines, batches, inv>>
  PROVE  StockMatchesIntakes' /\ BroughtFinite'
<1>1. \A w, i, column : BatchTotal(w, i, column)' = BatchTotal(w, i, column)
  BY DEF BatchTotal, StockOf, BatchIds
<1>2. \A w, i, column : BroughtTotal(w, i, column)' = BroughtTotal(w, i, column)
  BY DEF BroughtTotal, Brought
<1>3. \A w, i : Brought(w, i)' = Brought(w, i)
  BY DEF Brought
<1>4. BroughtFinite'
  BY Zenon, <1>3 DEF BroughtFinite
<1> QED
  BY Zenon, <1>1, <1>2, <1>3, <1>4 DEF StockMatchesIntakes

\* A step of one handler that writes no row.
LEMMA TaskStep ==
  ASSUME DInv, NEW c \in Clients, \A e \in Clients \ {c} : task'[e] = task[e],
         DOMAIN task' = Clients, TaskSound(c)',
         UNCHANGED <<donation, items, lines, intakes, batches, inv>>
  PROVE  DInv'
<1>1. RowsType'
  BY Zenon DEF DInv, RowsType
<1>2. RowsSound' /\ IntakeOnce'
  BY Zenon DEF DInv, RowsSound, IntakeOnce
<1>3. IntakeComplete'
  BY Zenon DEF DInv, IntakeComplete
<1>4. ASSUME NEW e \in Clients \ {c} PROVE TaskSound(e)'
  BY Zenon, <1>1, Undisturbed DEF DInv
<1> QED
  BY Zenon, <1>1, <1>2, <1>3, <1>4, StockSame DEF DInv

\* A handler ends without having written anything: also a page that is
\* shown, which starts no handler.
LEMMA RollbackStep ==
  ASSUME DInv, NEW c \in Clients, Rollback(c)
  PROVE  DInv'
<1>1. task'[c] = Idle /\ DOMAIN task' = Clients /\ \A e \in Clients \ {c} : task'[e] = task[e]
  BY Zenon DEF Rollback, Finish, DInv, RowsType
<1>2. TaskSound(c)'
  BY <1>1 DEF TaskSound
<1> QED
  BY Zenon, <1>1, <1>2, TaskStep DEF Rollback

\* The handlers load the row as it is.
LEMMA LoadStep ==
  ASSUME DInv, NEW c \in Clients, NEW op, NEW d \in Donations, NEW more,
         Load(c, op, d, more),
         \/ /\ op \in {"edit_donation", "delete_donation"} /\ donation[d].status = "E"
         \/ /\ op \in {"add_donation_item", "edit_donation_item", "delete_donation_item"}
            /\ donation[d].status = "E" /\ more.item \in Items
         \/ /\ op = "intake" /\ donation[d].status = "V"
            /\ more.step = "loaded" /\ more.w \in Warehouses
  PROVE  DInv'
<1> DEFINE k == [op |-> op, d |-> d, row |-> donation[d], more |-> more]
<1>1. /\ task'[c] = k /\ DOMAIN task' = Clients
      /\ \A e \in Clients \ {c} : task'[e] = task[e]
      /\ UNCHANGED <<donation, items, lines, intakes, batches, inv>>
  BY Zenon DEF Load, DInv, RowsType
<1>2. /\ donation[d] \in DonationRows /\ donation[d].version \in Nat
      /\ donation[d].status \notin Missing => donation[d].version >= 1
      /\ donation[d].status = "E" => d \in Entered
  BY Zenon DEF DInv, RowsType, RowsSound, DonationRows
<1>3. donation[d].status \notin Missing /\ donation[d].status # "none"
  BY Zenon DEF Load, Missing
<1>4. CopySound(c)'
  BY <1>1, <1>2, <1>3 DEF CopySound
<1>5. TaskSound(c)'
  BY <1>1, <1>4 DEF TaskSound
<1> QED
  BY Zenon, <1>1, <1>5, TaskStep

\* A donation that was not taken in is not processed by an intake's record.
LEMMA NotTaken ==
  ASSUME IntakeOnce, NEW d \in Donations, donation[d].status # "P"
  PROVE  \A w \in Warehouses : <<d, w>> \notin intakes
BY Zenon DEF IntakeOnce

\* A quantity entered for a donation item is stored in whole cents.
LEMMA StoredQuantity ==
  ASSUME Laws, NEW q \in Quantities
  PROVE  RoundTo(q, Cent) \in Kept(Cent)
<1>1. q \in Nat
  BY Zenon, DonationAssumption
<1> QED
  BY Zenon, <1>1 DEF Laws, RoundLaws, KeptLaw

\* An intake that is running has a copy of a verified donation.
LEMMA IntakeTask ==
  ASSUME DInv, NEW c \in Clients, Running(c, "intake")
  PROVE  /\ CopySound(c) /\ task[c].more.w \in Warehouses
         /\ task[c].more.step = "items" => ReadSound(c)
         /\ task[c].more.step = "found" => FoundSound(c)
<1>1. TaskSound(c)
  BY DEF DInv
<1>2. task[c].op = "intake"
  BY DEF Running
<1>3. task[c] # Idle
  BY <1>2 DEF Idle
<1> QED
  BY Zenon, <1>1, <1>2, <1>3 DEF TaskSound

-----------------------------------------------------------------------------
(* The forms of donations and their items *)

\* The handlers of app/features/donations.py keep the invariant.
LEMMA ManageStep ==
  ASSUME Laws, DInv, NEW c \in Clients, Manage(c)
  PROVE  DInv'
\* Showing a page changes no row and no handler.
<1>PageStep. ASSUME UNCHANGED <<donation, items, lines, intakes, batches, inv, task>>
             PROVE  DInv'
  <2> USE <1>PageStep
  <2>1. DOMAIN task' = Clients /\ \A e \in Clients : task'[e] = task[e]
    BY Zenon DEF DInv, RowsType
  <2>2. RowsType /\ RowsType' /\ TaskSound(c)
    BY Zenon DEF DInv, RowsType
  <2>3. TaskSound(c)'
    BY Zenon, <2>1, <2>2, Undisturbed
  <2> QED
    BY Zenon, <2>1, <2>3, TaskStep
\* A commit that changes no stock.
<1>FormStep. ASSUME task'[c] = Idle \/ task'[c] = task[c],
                     \A e \in Clients \ {c} : task'[e] = task[e],
                     UNCHANGED <<lines, intakes, batches, inv>>,
                     \A d \in Donations : Forward(d) /\ KeepsItems(d),
                     RowsType', RowsSound', IntakeOnce', IntakeComplete'
             PROVE  DInv'
  <2> USE <1>FormStep
  <2>1. \A b \in BatchIds : BatchForward(b)
    BY Zenon DEF BatchForward, BatchIds
  <2>2. ASSUME NEW e \in Clients, task'[e] = task[e] PROVE TaskSound(e)'
    BY Zenon, <2>1, <2>2, OthersSound DEF DInv
  <2>3. task'[c] = Idle => TaskSound(c)'
    BY Zenon DEF TaskSound
  <2> QED
    BY Zenon, <2>2, <2>3, StockSame DEF DInv
\* create_donation stores a verified donation that nobody has loaded.
<1>CreateStep. ASSUME NEW d \in Donations, NEW h \in Headers,
                       NEW S \in SUBSET Items, NEW qty \in [S -> Quantities],
                       create_donation(c, d, h, qty)
               PROVE  DInv'
  <2> USE <1>CreateStep
  <2> DEFINE row == [status |-> "V", version |-> 1, header |-> h]
             rows == [i \in Items |->
                        IF i \in DOMAIN qty THEN [qty |-> RoundTo(qty[i], Cent), version |-> 1]
                        ELSE NoItem]
  <2>1. /\ donation' = [donation EXCEPT ![d] = row] /\ items' = [items EXCEPT ![d] = rows]
        /\ donation[d].status = "none"
        /\ UNCHANGED <<lines, intakes, batches, inv, task>>
    BY Zenon DEF create_donation
  <2>2. /\ row \in DonationRows /\ row.status = "V" /\ row.version = 1
    BY Zenon DEF DonationRows, Statuses
  <2>3. rows \in [Items -> ItemRows]
    <3>1. \A i \in DOMAIN qty : RoundTo(qty[i], Cent) \in Kept(Cent)
      BY Zenon, StoredQuantity
    <3>2. NoItem \in ItemRows
      BY Zenon DEF NoItem, ItemRows, Laws, RoundLaws, KeptLaw
    <3> QED
      BY Zenon, <3>1, <3>2 DEF ItemRows
  <2> HIDE DEF row, rows
  <2>4. /\ donation'[d] = row /\ \A e \in Donations \ {d} : donation'[e] = donation[e]
        /\ items'[d] = rows /\ \A e \in Donations \ {d} : items'[e] = items[e]
    BY Zenon, <2>1 DEF DInv, RowsType
  <2>5. RowsType'
    BY Zenon, <2>1, <2>2, <2>3 DEF DInv, RowsType
  <2>6. \A w \in Warehouses : <<d, w>> \notin intakes
    BY Zenon, <2>1, NotTaken DEF DInv
  <2>7. RowsSound'
    BY <2>1, <2>2, <2>4 DEF DInv, RowsSound, Missing
  <2>8. IntakeOnce'
    BY Zenon, <2>1, <2>4, <2>6 DEF DInv, IntakeOnce
  <2>9. IntakeComplete'
    <3>1. \A e \in Donations \ Entered, w \in Warehouses : <<e, w>> \in intakes' =>
            <<e, w>> \in intakes /\ items'[e] = items[e] /\ lines'[e] = lines[e]
      BY Zenon, <2>1, <2>4, <2>6
    <3> QED
      BY <3>1 DEF DInv, IntakeComplete
  <2>10. \A e \in Donations : Forward(e) /\ KeepsItems(e)
    BY Zenon, <2>1, <2>4 DEF Forward, KeepsItems
  <2> QED
    BY Zenon, <2>1, <2>5, <2>7, <2>8, <2>9, <2>10, <1>FormStep
\* The other handlers of a donation work on one that is being edited.
<1>EditTask. ASSUME NEW op, Running(c, op),
                     op \in {"edit_donation", "delete_donation", "add_donation_item",
                             "edit_donation_item", "delete_donation_item"}
             PROVE  /\ CopySound(c) /\ task[c].d \in Entered /\ task[c].d \in Donations
                    /\ task[c].row.status = "E" /\ task[c].row.version \in Nat
                    /\ op \notin {"edit_donation", "delete_donation"} => task[c].more.item \in Items
  <2> USE <1>EditTask
  <2>1. TaskSound(c) /\ task[c].op = op
    BY Zenon DEF DInv, Running
  <2>2. task[c] # Idle
    BY <2>1 DEF Idle
  <2>3. CopySound(c) /\ (op \notin {"edit_donation", "delete_donation"} => task[c].more.item \in Items)
    BY Zenon, <2>1, <2>2 DEF TaskSound
  <2> QED
    BY Zenon, <2>1, <2>3 DEF CopySound, DonationRows
\* edit_donation and delete_donation find the version they loaded, hence a
\* donation that is still being edited and was never taken in.
<1>HeaderStep. ASSUME NEW d \in Donations, d \in Entered,
                       donation[d].status = "E", NEW row \in DonationRows,
                       donation' = [donation EXCEPT ![d] = row],
                       \/ row.status \in Statuses /\ row.version > donation[d].version
                       \/ row.status = "deleted" /\ row.version = 0,
                       Finish(c), UNCHANGED <<items, lines, intakes, batches, inv>>
               PROVE  DInv'
  <2> USE <1>HeaderStep
  <2>1. donation'[d] = row /\ \A e \in Donations \ {d} : donation'[e] = donation[e]
    BY Zenon DEF DInv, RowsType
  <2>2. /\ task'[c] = Idle /\ DOMAIN task' = Clients
        /\ \A e \in Clients \ {c} : task'[e] = task[e]
    BY Zenon DEF Finish, DInv, RowsType
  <2>3. RowsType'
    BY Zenon, <2>2 DEF DInv, RowsType
  <2>4. \A w \in Warehouses : <<d, w>> \notin intakes
    BY Zenon, NotTaken DEF DInv
  <2>5. donation[d].version \in Nat /\ row.version \in Nat
    BY Zenon DEF DInv, RowsType, DonationRows
  <2>6. RowsSound'
    <3>1. ASSUME NEW e \in Donations
          PROVE  /\ donation'[e].status \notin Missing => donation'[e].version >= 1
                 /\ donation'[e].status \in Missing => donation'[e].version = 0
                 /\ e \notin Entered => donation'[e].status # "E"
      <4>1. CASE e = d
        BY <2>1, <2>5, <4>1 DEF Missing, Statuses
      <4>2. CASE e # d
        BY Zenon, <2>1, <4>2 DEF DInv, RowsSound
      <4> QED
        BY Zenon, <4>1, <4>2
    <3> QED
      BY Zenon, <3>1 DEF DInv, RowsSound
  <2>7. IntakeOnce'
    BY Zenon, <2>1, <2>4 DEF DInv, IntakeOnce
  <2>8. IntakeComplete'
    BY DEF DInv, IntakeComplete
  <2>9. \A e \in Donations : Forward(e) /\ KeepsItems(e)
    BY Zenon, <2>1 DEF Forward, KeepsItems, Statuses
  <2> QED
    BY Zenon, <2>2, <2>3, <2>6, <2>7, <2>8, <2>9, <1>FormStep
\* The update of an entered donation.
<1>EditStep. ASSUME NEW h \in Headers, NEW s \in Statuses,
                     edit_donation(c, h, s)
             PROVE  DInv'
  <2> USE <1>EditStep
  <2> DEFINE d == task[c].d
             row == [status |-> s, version |-> task[c].row.version + 1, header |-> h]
  <2>1. /\ CopySound(c) /\ d \in Entered /\ d \in Donations
        /\ task[c].row.status = "E" /\ task[c].row.version \in Nat
    BY Zenon, <1>EditTask DEF edit_donation
  <2>2. donation[d] = task[c].row
    BY Zenon, <2>1 DEF edit_donation, Unchanged, CopySound
  <2>3. row \in DonationRows /\ row.status \in Statuses /\ row.version > donation[d].version
    BY <2>1, <2>2 DEF DonationRows
  <2>4. /\ donation' = [donation EXCEPT ![d] = row] /\ Finish(c)
        /\ UNCHANGED <<items, lines, intakes, batches, inv>>
    BY Zenon DEF edit_donation
  <2> HIDE DEF row
  <2> QED
    BY Zenon, <2>1, <2>2, <2>3, <2>4, <1>HeaderStep
\* And its deletion.
<1>DeleteStep. ASSUME delete_donation(c)
               PROVE  DInv'
  <2> USE <1>DeleteStep
  <2> DEFINE d == task[c].d
             row == [donation[d] EXCEPT !.status = "deleted", !.version = 0]
  <2>1. /\ CopySound(c) /\ d \in Entered /\ d \in Donations /\ task[c].row.status = "E"
    BY Zenon, <1>EditTask DEF delete_donation
  <2>2. donation[d] = task[c].row
    BY Zenon, <2>1 DEF delete_donation, Unchanged, CopySound
  <2>3. donation[d] \in DonationRows
    BY Zenon, <2>1 DEF DInv, RowsType
  <2>4. row \in DonationRows /\ row.status = "deleted" /\ row.version = 0
    BY Zenon, <2>3 DEF DonationRows, Missing
  <2>5. /\ donation' = [donation EXCEPT ![d] = row] /\ Finish(c)
        /\ UNCHANGED <<items, lines, intakes, batches, inv>>
    BY Zenon DEF delete_donation, DInv, RowsType
  <2> HIDE DEF row
  <2> QED
    BY Zenon, <2>1, <2>2, <2>4, <2>5, <1>HeaderStep
\* The items of entered donations change; no property of stored ones is
\* about them.
<1>ItemStep. ASSUME NEW d \in Donations, d \in Entered,
                     NEW i \in Items, NEW row \in ItemRows,
                     items' = [items EXCEPT ![d][i] = row],
                     Finish(c), UNCHANGED <<donation, lines, intakes, batches, inv>>
             PROVE  DInv'
  <2> USE <1>ItemStep
  <2>1. \A e \in Donations \ {d} : items'[e] = items[e]
    BY Zenon DEF DInv, RowsType
  <2>2. /\ task'[c] = Idle /\ DOMAIN task' = Clients
        /\ \A e \in Clients \ {c} : task'[e] = task[e]
    BY Zenon DEF Finish, DInv, RowsType
  <2>3. items' \in [Donations -> [Items -> ItemRows]]
    BY Zenon DEF DInv, RowsType
  <2>4. RowsType'
    BY Zenon, <2>2, <2>3 DEF DInv, RowsType
  <2>5. RowsSound' /\ IntakeOnce'
    BY Zenon DEF DInv, RowsSound, IntakeOnce
  <2>6. IntakeComplete'
    BY <2>1 DEF DInv, IntakeComplete
  <2>7. \A e \in Donations : Forward(e) /\ KeepsItems(e)
    BY Zenon, <2>1 DEF Forward, KeepsItems
  <2> QED
    BY Zenon, <2>2, <2>4, <2>5, <2>6, <2>7, <1>FormStep
\* add_donation_item, edit_donation_item and delete_donation_item.
<1>ItemSteps. CASE \/ \E q \in Quantities : add_donation_item(c, q) \/ edit_donation_item(c, q)
                   \/ delete_donation_item(c)
  <2> DEFINE d == task[c].d
             i == task[c].more.item
  <2>1. ASSUME NEW q \in Quantities, add_donation_item(c, q) PROVE DInv'
    <3>1. d \in Entered /\ d \in Donations /\ i \in Items
      BY <2>1, <1>EditTask DEF add_donation_item
    <3>2. [qty |-> RoundTo(q, Cent), version |-> 1] \in ItemRows
      BY Zenon, StoredQuantity DEF ItemRows
    <3> QED
      BY Zenon, <2>1, <3>1, <3>2, <1>ItemStep DEF add_donation_item
  <2>2. ASSUME NEW q \in Quantities, edit_donation_item(c, q) PROVE DInv'
    <3>1. d \in Entered /\ d \in Donations /\ i \in Items
      <4>1. Running(c, "edit_donation_item")
        BY Zenon, <2>2 DEF edit_donation_item
      <4> QED
        BY <4>1, <1>EditTask
    <3>2. items[d][i] \in ItemRows
      BY Zenon, <3>1 DEF DInv, RowsType
    <3>3. [qty |-> RoundTo(q, Cent), version |-> items[d][i].version + 1] \in ItemRows
      <4>1. RoundTo(q, Cent) \in Kept(Cent) /\ items[d][i].version \in Nat
        BY Zenon, <3>2, StoredQuantity DEF ItemRows
      <4> QED
        BY <4>1 DEF ItemRows
    <3>4. items' = [items EXCEPT ![d][i] =
                      [qty |-> RoundTo(q, Cent), version |-> items[d][i].version + 1]]
      BY Zenon, <2>2, <3>1 DEF edit_donation_item, DInv, RowsType
    <3> QED
      BY Zenon, <2>2, <3>1, <3>3, <3>4, <1>ItemStep DEF edit_donation_item
  <2>3. ASSUME delete_donation_item(c) PROVE DInv'
    <3>1. d \in Entered /\ d \in Donations /\ i \in Items
      BY <2>3, <1>EditTask DEF delete_donation_item
    <3>2. NoItem \in ItemRows
      BY Zenon DEF NoItem, ItemRows, Laws, RoundLaws, KeptLaw
    <3> QED
      BY Zenon, <2>3, <3>1, <3>2, <1>ItemStep DEF delete_donation_item
  <2> QED
    BY <1>ItemSteps, <2>1, <2>2, <2>3
<1>1. CASE \/ \E d \in Donations : edit_donation_form(c, d)
           \/ \E d \in Donations, i \in Items : edit_donation_item_form(c, d, i)
           \/ list_donations(c)
  BY Zenon, <1>1, <1>PageStep DEF edit_donation_form, edit_donation_item_form, list_donations
<1>2. CASE \E d \in Donations, h \in Headers, S \in SUBSET Items :
             \E qty \in [S -> Quantities] : create_donation(c, d, h, qty)
  BY Zenon, <1>2, <1>CreateStep
<1>3. CASE \E d \in Donations : load_edit_donation(c, d) \/ load_delete_donation(c, d)
  BY Zenon, <1>3, LoadStep DEF load_edit_donation, load_delete_donation
<1>4. CASE \E d \in Donations, i \in Items : load_add_donation_item(c, d, i)
  <2>1. PICK d \in Donations, i \in Items : load_add_donation_item(c, d, i)
    BY <1>4
  <2>2. [item |-> i].item \in Items
    OBVIOUS
  <2> QED
    BY Zenon, <2>1, <2>2, LoadStep DEF load_add_donation_item
<1>5. CASE \E d \in Donations, i \in Items :
             load_edit_donation_item(c, d, i) \/ load_delete_donation_item(c, d, i)
  <2>1. PICK d \in Donations, i \in Items :
          load_edit_donation_item(c, d, i) \/ load_delete_donation_item(c, d, i)
    BY <1>5
  <2>2. [item |-> i, row |-> items[d][i]].item \in Items
    OBVIOUS
  <2> QED
    BY Zenon, <2>1, <2>2, LoadStep DEF load_edit_donation_item, load_delete_donation_item
<1>6. CASE \/ \E h \in Headers, s \in Statuses : edit_donation(c, h, s)
           \/ delete_donation(c)
  BY <1>6, <1>EditStep, <1>DeleteStep
<1> QED
  BY Zenon, <1>1, <1>2, <1>3, <1>4, <1>5, <1>6, <1>ItemSteps DEF Manage

-----------------------------------------------------------------------------
(* The reads of an intake *)

\* The items read are those of the donation, and nobody changes them if the
\* donation was stored verified.
LEMMA ReadItemsStep ==
  ASSUME DInv, NEW c \in Clients, read_donation_items(c)
  PROVE  DInv'
<1> DEFINE d == task[c].d
           m == [step |-> "items", w |-> task[c].more.w, rows |-> items[d]]
<1>1. CopySound(c) /\ task[c].more.w \in Warehouses /\ task[c].op = "intake"
  BY Zenon, IntakeTask DEF read_donation_items, Running
<1>2. task' = [task EXCEPT ![c].more = m]
  BY Zenon DEF read_donation_items
<1>3. /\ task'[c] = [task[c] EXCEPT !.more = m] /\ DOMAIN task' = Clients
      /\ \A e \in Clients \ {c} : task'[e] = task[e]
  BY Zenon, <1>2 DEF DInv, RowsType
<1>4. UNCHANGED <<donation, items, lines, intakes, batches, inv>>
  BY Zenon DEF read_donation_items
<1>5. task[c] = [op |-> "intake", d |-> d, row |-> task[c].row, more |-> task[c].more]
  BY Zenon, <1>1 DEF CopySound
<1>6. task'[c] = [op |-> "intake", d |-> d, row |-> task[c].row, more |-> m]
  BY <1>3, <1>5
<1>7. /\ task'[c].op = "intake" /\ task'[c].d = d /\ task'[c].row = task[c].row
      /\ task'[c].more.step = "items" /\ task'[c].more.w = task[c].more.w
      /\ task'[c].more.rows = items[d]
  BY <1>6
<1>8. CopySound(c)'
  BY Zenon, <1>1, <1>4, <1>6, <1>7 DEF CopySound
<1>9. ReadSound(c)'
  <2>1. items[d] \in [Items -> ItemRows]
    BY Zenon, <1>1 DEF CopySound, DInv, RowsType
  <2> QED
    BY Zenon, <1>4, <1>7, <2>1 DEF ReadSound
<1>10. TaskSound(c)'
  BY Zenon, <1>1, <1>7, <1>8, <1>9 DEF TaskSound
<1> QED
  BY Zenon, <1>3, <1>4, <1>10, TaskStep

\* The form was validated against the items read, and the batches found are
\* rows of the item at the warehouse.
LEMMA FindBatchesStep ==
  ASSUME DInv, NEW c \in Clients, NEW form \in Forms(task[c].more.rows),
         find_batches(c, form)
  PROVE  DInv'
\* The quantities of a form are counted ones.
<1>FormLinesCounted. ASSUME NEW l \in FormLines
                 PROVE  l \in CountedLines
  <2> USE <1>FormLinesCounted
  <2>1. /\ l.no \in BatchNos \cup {"NULL"} /\ l.usable \in Counted
        /\ l.defective \in Counted \cup {0} /\ l.expired \in Counted \cup {0}
        /\ l = [no |-> l.no, usable |-> l.usable, defective |-> l.defective,
                expired |-> l.expired]
    BY Zenon DEF FormLines
  <2> QED
    BY Zenon, <2>1 DEF CountedLines
<1> DEFINE d == task[c].d
           w == task[c].more.w
           rows == task[c].more.rows
           null == {i \in DOMAIN form : form[i].no = "NULL" /\ NullBatches(w, i) # {}}
<1>0. PICK found \in [null -> BatchIds] :
        /\ \A i \in null : found[i] \in NullBatches(w, i)
        /\ task' = [task EXCEPT ![c].more =
             [step |-> "found", w |-> w, form |-> form,
              found |-> [i \in null |-> [id |-> found[i], row |-> batches[found[i]]]],
              seen |-> {i \in DOMAIN form : inv[w][i].exists}]]
  BY Zenon DEF find_batches
<1> DEFINE found2 == [i \in null |-> [id |-> found[i], row |-> batches[found[i]]]]
           m == [step |-> "found", w |-> w, form |-> form, found |-> found2,
                 seen |-> {i \in DOMAIN form : inv[w][i].exists}]
<1>1. /\ CopySound(c) /\ w \in Warehouses /\ task[c].op = "intake" /\ ReadSound(c)
  BY Zenon, IntakeTask DEF find_batches, Running
<1>2. task' = [task EXCEPT ![c].more = m]
  BY Zenon, <1>0
<1>3. /\ task'[c] = [task[c] EXCEPT !.more = m] /\ DOMAIN task' = Clients
      /\ \A e \in Clients \ {c} : task'[e] = task[e]
  <2> HIDE DEF m
  <2> QED
    BY Zenon, <1>2 DEF DInv, RowsType
<1>4. UNCHANGED <<donation, items, lines, intakes, batches, inv>>
  BY Zenon DEF find_batches
<1>5. task[c] = [op |-> "intake", d |-> d, row |-> task[c].row, more |-> task[c].more]
  BY Zenon, <1>1 DEF CopySound
<1>6. task'[c] = [op |-> "intake", d |-> d, row |-> task[c].row, more |-> m]
  <2> HIDE DEF m
  <2> QED
    BY <1>3, <1>5
<1>7. /\ task'[c].op = "intake" /\ task'[c].d = d /\ task'[c].row = task[c].row
      /\ task'[c].more = m
  <2> HIDE DEF m
  <2> QED
    BY <1>6
<1>8. m.step = "found" /\ m.w = w /\ m.form = form /\ m.found = found2
  BY Zenon
<1>9. CopySound(c)'
  <2> HIDE DEF m
  <2> QED
    BY <1>1, <1>4, <1>6, <1>7 DEF CopySound
<1>10. FoundSound(c)'
  <2>1. DOMAIN form = ItemsOf(rows) /\ AccountedFor(form, rows) /\ ItemsOf(rows) \subseteq Items
    BY Zenon DEF find_batches, ItemsOf
  <2>2. \A i \in DOMAIN form : form[i] \in CountedLines
    <3>1. \A i \in DOMAIN form : form[i] \in FormLines
      BY Zenon DEF Forms
    <3> QED
      BY Zenon, <3>1, <1>FormLinesCounted
  <2>3. d \notin Entered => rows = items[d]
    BY Zenon, <1>1 DEF ReadSound
  <2>4. DOMAIN found = null /\ null \subseteq DOMAIN form
    BY Zenon
  <2>5. ASSUME NEW i \in DOMAIN found
        PROVE  /\ found[i] \in BatchIds /\ batches[found[i]] \in BatchRows
               /\ batches[found[i]].w = w /\ batches[found[i]].item = i
               /\ batches[found[i]].version \in Nat
    <3>1. found[i] \in NullBatches(w, i)
      BY Zenon, <1>0, <2>4
    <3>2. found[i] \in BatchIds /\ batches[found[i]].w = w /\ batches[found[i]].item = i
      BY Zenon, <3>1 DEF NullBatches, StockOf
    <3>3. batches[found[i]] \in BatchRows
      BY Zenon, <3>2, InBatchRows DEF DInv, RowsType, BatchIds
    <3> QED
      BY Zenon, <3>2, <3>3 DEF BatchRows
  <2>6. /\ DOMAIN found2 = DOMAIN found
        /\ \A i \in DOMAIN found : found2[i].id = found[i] /\ found2[i].row = batches[found[i]]
    BY Zenon
  <2> HIDE DEF m, found2
  <2>7. \A i \in DOMAIN m.found : FoundBatch(batches, m, i)
    BY <1>8, <2>5, <2>6 DEF FoundBatch, BatchIds
  <2> QED
    BY Zenon, <1>4, <1>7, <1>8, <2>1, <2>2, <2>3, <2>4, <2>6, <2>7 DEF FoundSound
<1>11. TaskSound(c)'
  <2> HIDE DEF m
  <2> QED
    BY Zenon, <1>1, <1>7, <1>8, <1>9, <1>10 DEF TaskSound
<1> QED
  BY Zenon, <1>3, <1>4, <1>11, TaskStep

-----------------------------------------------------------------------------
(* The commit of an intake *)

\* The intake of client c has a line for item i at warehouse w.
Brings(c, w, i) == w = task[c].more.w /\ i \in DOMAIN task[c].more.form

\* What it adds to a column that keeps multiples of unit.
Delta(c, w, i, column, unit) ==
  IF Brings(c, w, i) THEN RoundTo(task[c].more.form[i][column], unit) ELSE 0

\* The quantities of a form are natural numbers.
LEMMA CountedNat ==
  ASSUME NEW l \in CountedLines, NEW column \in Columns
  PROVE  l[column] \in Counted \cup {0} /\ l[column] \in Nat
<1>1. l[column] \in Counted \cup {0}
  BY Zenon DEF CountedLines, Columns
<1>2. Counted \cup {0} \subseteq Nat
  BY DonationAssumption
<1> QED
  BY Zenon, <1>1, <1>2

\* A line is added to a column, or starts one, rounded on its own: what the
\* column holds already is a multiple of its unit.
LEMMA ColumnUp ==
  ASSUME Laws, NEW unit \in {Tick, Cent}, NEW l \in CountedLines, NEW column \in Columns
  PROVE  /\ RoundTo(l[column], unit) \in Kept(unit) /\ RoundTo(l[column], unit) \in Nat
         /\ \A a \in Kept(unit) : /\ RoundTo(a + l[column], unit) \in Kept(unit)
                                  /\ RoundTo(a + l[column], unit) = a + RoundTo(l[column], unit)
<1>1. l[column] \in Nat
  BY Zenon, CountedNat
<1>2. KeptLaw(unit)
  BY Zenon DEF Laws, RoundLaws
<1> QED
  BY Zenon, <1>1, <1>2 DEF KeptLaw

\* The intake of client c commits, and adds batches for the items new.
Commits(c, new) ==
  /\ DInv /\ CopySound(c) /\ FoundSound(c) /\ task[c].more.w \in Warehouses
  /\ new \in Orders(DOMAIN task[c].more.form \ DOMAIN task[c].more.found)
  /\ _process_intake_submission(c, new)

\* The members of S, numbered without repetition.
NumbersOnce(new, S) ==
  /\ new \in Seq(S) /\ Len(new) \in Nat /\ DOMAIN new = 1 .. Len(new)
  /\ \A k \in 1 .. Len(new) : new[k] \in S
  /\ \A x \in S : \E k \in 1 .. Len(new) : new[k] = x
  /\ \A j, k \in 1 .. Len(new) : new[j] = new[k] => j = k

\* So are the items of the new batches.
LEMMA NewItems ==
  ASSUME Laws, NEW c \in Clients, NEW new, Commits(c, new)
  PROVE  NumbersOnce(new, DOMAIN task[c].more.form \ DOMAIN task[c].more.found)
<1> DEFINE S == DOMAIN task[c].more.form \ DOMAIN task[c].more.found
           n == Cardinality(S)
<1>1. S \subseteq Items /\ new \in Orders(S)
  BY Zenon DEF Commits, FoundSound
<1> HIDE DEF S
<1>2. n \in Nat
  BY Zenon, <1>1, DonationAssumption DEF Laws, FiniteLaws
<1>3. /\ new \in [1 .. n -> S] /\ \A x \in S : \E k \in 1 .. n : new[k] = x
      /\ \A j, k \in 1 .. n : new[j] = new[k] => j = k
  BY Zenon, <1>1 DEF Orders
<1> HIDE DEF n
<1>4. new \in Seq(S) /\ Len(new) = n
  BY <1>2, <1>3
<1> QED
  BY Zenon, <1>2, <1>3, <1>4 DEF S, NumbersOnce

\* The row an intake writes over the batch it found for item i.
Topped(m, i) == [Added(m.found[i].row, m.form[i], Tick) EXCEPT !.version = @ + 1]

TopsUp(m, i) ==
  LET b == m.found[i].id
      row == Topped(m, i)
  IN  /\ b \in BatchIds /\ batches[b].w = m.w /\ batches[b].item = i
      /\ row \in BatchRows /\ row.w = m.w /\ row.item = i
      /\ row.version = batches[b].version + 1
      /\ \A column \in Columns :
           row[column] = batches[b][column] + RoundTo(m.form[i][column], Tick)

\* The itembatch table after an intake: each batch it found is up by its
\* line, the others are as they were, and there is one new batch for each
\* other line.
WritesBatches(m, new) ==
  /\ batches' \in Seq(BatchRows) /\ Len(batches') = Len(batches) + Len(new)
  /\ \A b \in BatchIds :
       /\ BatchForward(b) /\ batches'[b] \in BatchRows
       /\ IF \E i \in DOMAIN m.found : m.found[i].id = b
            THEN /\ batches[b].w = m.w /\ batches[b].item \in DOMAIN m.found
                 /\ m.found[batches[b].item].id = b
                 /\ \A column \in Columns :
                      batches'[b][column] = batches[b][column]
                        + RoundTo(m.form[batches[b].item][column], Tick)
            ELSE batches'[b] = batches[b]
  /\ \A k \in 1 .. Len(new) :
       /\ batches'[Len(batches) + k] = NewBatch(m.w, new[k], m.form[new[k]])
       /\ batches'[Len(batches) + k] \in BatchRows

\* That is what the commit of an intake writes.
LEMMA BatchesAfter ==
  ASSUME Laws, NEW c \in Clients, NEW new, Commits(c, new)
  PROVE  WritesBatches(task[c].more, new)
<1> DEFINE m == task[c].more
           added(b) == {i \in DOMAIN m.found : m.found[i].id = b}
           old == [b \in BatchIds |->
                     IF added(b) = {} THEN batches[b]
                     ELSE LET i == CHOOSE i \in added(b) : TRUE
                          IN  [Added(m.found[i].row, m.form[i], Tick) EXCEPT !.version = @ + 1]]
           fresh == [k \in DOMAIN new |-> NewBatch(m.w, new[k], m.form[new[k]])]
           S == DOMAIN m.form \ DOMAIN m.found
<1>0. DInv /\ FoundSound(c) /\ task[c].more.w \in Warehouses
  BY Zenon DEF Commits
<1> USE <1>0
<1>1. batches' = old \o fresh
  BY Zenon DEF Commits, _process_intake_submission
<1>2. \A i \in DOMAIN m.found : BatchUnchanged(m.found[i])
  BY Zenon DEF Commits, _process_intake_submission, Accepted
<1>3. ASSUME NEW i \in DOMAIN m.found PROVE TopsUp(m, i)
  <2> DEFINE b == m.found[i].id
             l == m.form[i]
             row == m.found[i].row
  <2>1. /\ b \in BatchIds /\ batches[b].w = m.w /\ batches[b].item = i
        /\ i \in DOMAIN m.form /\ l \in CountedLines
        /\ row.version = batches[b].version => batches[b] = row
    BY Zenon DEF FoundSound, FoundBatch, BatchIds
  <2>2. batches[b] = row
    BY Zenon, <1>2, <2>1 DEF BatchUnchanged
  <2>3. row \in BatchRows
    BY Zenon, <2>1, <2>2, InBatchRows DEF DInv, RowsType, BatchIds
  <2>4. \A column \in Columns, a \in Kept(Tick) :
          /\ RoundTo(a + l[column], Tick) \in Kept(Tick)
          /\ RoundTo(a + l[column], Tick) = a + RoundTo(l[column], Tick)
    <3> HIDE DEF l
    <3> QED
      BY Zenon, <2>1, ColumnUp
  <2> DEFINE u == RoundTo(row.usable + l.usable, Tick)
             x == RoundTo(row.defective + l.defective, Tick)
             y == RoundTo(row.expired + l.expired, Tick)
  <2>5. Topped(m, i) = [w |-> row.w, item |-> row.item, no |-> row.no,
                        usable |-> u, defective |-> x, expired |-> y,
                        version |-> row.version + 1]
    <3>1. row = [w |-> row.w, item |-> row.item, no |-> row.no, usable |-> row.usable,
                 defective |-> row.defective, expired |-> row.expired, version |-> row.version]
      BY Zenon, <2>3 DEF BatchRows
    <3>2. Topped(m, i) = [Added(row, l, Tick) EXCEPT !.version = @ + 1]
      BY Zenon DEF Topped
    <3> HIDE DEF row, l
    <3> QED
      BY Zenon, <3>1, <3>2 DEF Added
  <2>6. /\ row.w \in Warehouses /\ row.item \in Items /\ row.no \in BatchNos \cup {"NULL"}
        /\ row.usable \in Kept(Tick) /\ row.defective \in Kept(Tick)
        /\ row.expired \in Kept(Tick) /\ row.version \in Nat
    BY Zenon, <2>3 DEF BatchRows
  <2> HIDE DEF row, l
  <2>7. /\ u \in Kept(Tick) /\ u = row.usable + RoundTo(l.usable, Tick)
        /\ x \in Kept(Tick) /\ x = row.defective + RoundTo(l.defective, Tick)
        /\ y \in Kept(Tick) /\ y = row.expired + RoundTo(l.expired, Tick)
    BY Zenon, <2>4, <2>6 DEF Columns
  <2> HIDE DEF u, x, y
  <2>8. Topped(m, i) \in BatchRows
    <3> DEFINE v == row.version + 1
    <3>1. v \in Nat
      BY <2>6
    <3>2. u \in Kept(Tick) /\ x \in Kept(Tick) /\ y \in Kept(Tick)
      BY Zenon, <2>7
    <3> HIDE DEF v
    <3>3. [w |-> row.w, item |-> row.item, no |-> row.no,
           usable |-> u, defective |-> x, expired |-> y, version |-> v] \in BatchRows
      BY Zenon, <2>6, <3>1, <3>2 DEF BatchRows
    <3> QED
      BY Zenon, <2>5, <3>3 DEF v
  <2>9. /\ Topped(m, i).w = row.w /\ Topped(m, i).item = row.item
        /\ Topped(m, i).version = row.version + 1
        /\ \A column \in Columns :
             Topped(m, i)[column] = row[column] + RoundTo(l[column], Tick)
    <3> DEFINE t == Topped(m, i)
    <3>1. /\ t.w = row.w /\ t.item = row.item /\ t.version = row.version + 1
          /\ t.usable = u /\ t.defective = x /\ t.expired = y
      BY <2>5
    <3> HIDE DEF t
    <3>2. /\ t.usable = row.usable + RoundTo(l.usable, Tick)
          /\ t.defective = row.defective + RoundTo(l.defective, Tick)
          /\ t.expired = row.expired + RoundTo(l.expired, Tick)
      BY Zenon, <2>7, <3>1
    <3>3. \A column \in Columns : t[column] = row[column] + RoundTo(l[column], Tick)
      BY Zenon, <3>2 DEF Columns
    <3> QED
      BY Zenon, <3>1, <3>3 DEF t
  <2> QED
    BY Zenon, <2>1, <2>2, <2>8, <2>9 DEF TopsUp, l
<1>4. batches \in Seq(BatchRows) /\ BatchIds = 1 .. Len(batches) /\ Len(batches) \in Nat
  BY DEF DInv, RowsType, BatchIds
<1>5. ASSUME NEW b \in BatchIds
      PROVE  /\ batches[b] \in BatchRows /\ old[b] \in BatchRows
             /\ IF added(b) = {}
                  THEN old[b] = batches[b]
                  ELSE LET i == batches[b].item
                       IN  /\ i \in DOMAIN m.found /\ m.found[i].id = b /\ batches[b].w = m.w
                           /\ old[b] = Topped(m, i)
  <2>1. batches[b] \in BatchRows
    BY Zenon, <1>4, InBatchRows DEF BatchIds
  <2>2. CASE added(b) = {}
    BY Zenon, <2>1, <2>2
  <2>3. CASE added(b) # {}
    <3> DEFINE i == CHOOSE i \in added(b) : TRUE
    <3>1. i \in added(b)
      BY Zenon, <2>3
    <3>2. i \in DOMAIN m.found /\ m.found[i].id = b
      BY Zenon, <3>1
    <3>3. old[b] = Topped(m, i)
      BY Zenon, <2>3 DEF Topped
    <3> HIDE DEF i
    <3>4. batches[b].item = i /\ batches[b].w = m.w /\ Topped(m, i) \in BatchRows
      BY Zenon, <1>3, <3>2 DEF TopsUp
    <3> QED
      BY Zenon, <2>1, <2>3, <3>2, <3>3, <3>4
  <2> QED
    BY Zenon, <2>2, <2>3
<1>6. old \in Seq(BatchRows) /\ Len(old) = Len(batches)
  <2> HIDE DEF old
  <2>1. DOMAIN old = 1 .. Len(batches)
    BY Zenon, <1>4 DEF old
  <2>2. old \in [1 .. Len(batches) -> BatchRows]
    <3>1. old = [b \in DOMAIN old |-> old[b]]
      BY Zenon DEF old
    <3> QED
      BY Zenon, <1>4, <1>5, <2>1, <3>1
  <2> QED
    BY <1>4, <2>2
<1>7. /\ new \in Seq(S) /\ S \subseteq Items /\ DOMAIN new = 1 .. Len(new) /\ Len(new) \in Nat
  BY Zenon, NewItems DEF NumbersOnce, FoundSound
<1>8. ASSUME NEW k \in DOMAIN new
      PROVE  fresh[k] = NewBatch(m.w, new[k], m.form[new[k]]) /\ fresh[k] \in BatchRows
  <2>1. new[k] \in S
    BY <1>7
  <2>2. new[k] \in Items /\ m.form[new[k]] \in CountedLines
    BY Zenon, <1>7, <2>1 DEF FoundSound
  <2> DEFINE l == m.form[new[k]]
  <2>3. l.no \in BatchNos \cup {"NULL"} /\ 1 \in Nat
    BY Zenon, <2>2 DEF CountedLines
  <2> HIDE DEF l
  <2>4. /\ RoundTo(l.usable, Tick) \in Kept(Tick) /\ RoundTo(l.defective, Tick) \in Kept(Tick)
        /\ RoundTo(l.expired, Tick) \in Kept(Tick)
    BY Zenon, <2>2, ColumnUp DEF l, Columns
  <2>5. NewBatch(m.w, new[k], l) \in BatchRows
    BY Zenon, <2>2, <2>3, <2>4 DEF NewBatch, BatchRows
  <2> QED
    BY Zenon, <2>5 DEF l
<1>9. fresh \in Seq(BatchRows) /\ Len(fresh) = Len(new)
  <2> HIDE DEF fresh
  <2>1. DOMAIN fresh = 1 .. Len(new)
    BY Zenon, <1>7 DEF fresh
  <2>2. fresh \in [1 .. Len(new) -> BatchRows]
    <3>1. fresh = [k \in DOMAIN fresh |-> fresh[k]]
      BY Zenon DEF fresh
    <3> QED
      BY Zenon, <1>7, <1>8, <2>1, <3>1
  <2> QED
    BY <1>7, <2>2
<1>10. /\ batches' \in Seq(BatchRows) /\ Len(batches') = Len(batches) + Len(new)
       /\ \A b \in 1 .. Len(batches) : batches'[b] = old[b]
       /\ \A k \in 1 .. Len(new) : batches'[Len(batches) + k] = fresh[k]
  <2> HIDE DEF old, fresh
  <2>1. /\ old \o fresh \in Seq(BatchRows) /\ Len(old \o fresh) = Len(old) + Len(fresh)
        /\ \A k \in 1 .. Len(old) + Len(fresh) :
             (old \o fresh)[k] = IF k <= Len(old) THEN old[k] ELSE fresh[k - Len(old)]
    BY <1>6, <1>9
  <2>2. \A b \in 1 .. Len(batches) : b \in 1 .. Len(old) + Len(fresh) /\ b <= Len(old)
    BY <1>4, <1>6, <1>7, <1>9
  <2>3. \A k \in 1 .. Len(new) :
          /\ Len(batches) + k \in 1 .. Len(old) + Len(fresh)
          /\ ~ (Len(batches) + k <= Len(old)) /\ Len(batches) + k - Len(old) = k
    BY <1>4, <1>6, <1>7, <1>9
  <2>4. \A b \in 1 .. Len(batches) : batches'[b] = old[b]
    BY Zenon, <1>1, <1>6, <2>1, <2>2
  <2>5. \A k \in 1 .. Len(new) : batches'[Len(batches) + k] = fresh[k]
    BY <1>1, <1>6, <2>1, <2>3
  <2> QED
    BY Zenon, <1>1, <1>6, <1>9, <2>1, <2>4, <2>5
<1>11. BatchIds' = 1 .. Len(batches) + Len(new)
  <2>1. DOMAIN batches' = 1 .. Len(batches')
    BY Zenon, <1>10, SeqDomain
  <2> QED
    BY Zenon, <1>10, <2>1 DEF BatchIds
<1>12. ASSUME NEW b \in BatchIds
       PROVE  /\ BatchForward(b) /\ batches'[b] \in BatchRows
              /\ IF added(b) # {}
                   THEN /\ batches[b].w = m.w /\ batches[b].item \in DOMAIN m.found
                        /\ m.found[batches[b].item].id = b
                        /\ \A column \in Columns :
                             batches'[b][column] = batches[b][column]
                               + RoundTo(m.form[batches[b].item][column], Tick)
                   ELSE batches'[b] = batches[b]
  <2> HIDE DEF old, m
  <2>1. batches'[b] = old[b] /\ b \in BatchIds'
    BY <1>4, <1>7, <1>10, <1>11
  <2>2. CASE added(b) = {}
    <3>1. batches'[b] = batches[b] /\ batches'[b] \in BatchRows
      BY Zenon, <1>5, <2>1, <2>2
    <3> QED
      BY Zenon, <2>1, <2>2, <3>1 DEF BatchForward
  <2>3. CASE added(b) # {}
    <3> DEFINE i == batches[b].item
    <3>1. /\ i \in DOMAIN m.found /\ m.found[i].id = b /\ batches[b].w = m.w
          /\ batches'[b] = Topped(m, i) /\ batches[b] \in BatchRows
      BY Zenon, <1>5, <2>1, <2>3
    <3>2. batches[b].version \in Nat
      BY Zenon, <3>1 DEF BatchRows
    <3> HIDE DEF i
    <3>3. /\ Topped(m, i) \in BatchRows /\ Topped(m, i).w = m.w /\ Topped(m, i).item = i
          /\ Topped(m, i).version = batches[b].version + 1
          /\ \A column \in Columns :
               Topped(m, i)[column] = batches[b][column] + RoundTo(m.form[i][column], Tick)
      BY Zenon, <1>3, <3>1 DEF TopsUp
    <3>4. BatchForward(b)
      BY <2>1, <3>1, <3>2, <3>3 DEF BatchForward, i
    <3>5. \A column \in Columns :
            batches'[b][column] = batches[b][column] + RoundTo(m.form[i][column], Tick)
      BY Zenon, <3>1, <3>3
    <3> QED
      BY Zenon, <2>3, <3>1, <3>3, <3>4, <3>5 DEF i
  <2> QED
    BY Zenon, <2>2, <2>3
<1>13. \A k \in 1 .. Len(new) :
         /\ batches'[Len(batches) + k] = NewBatch(m.w, new[k], m.form[new[k]])
         /\ batches'[Len(batches) + k] \in BatchRows
  <2> SUFFICES ASSUME NEW k \in 1 .. Len(new)
               PROVE  /\ batches'[Len(batches) + k] = NewBatch(m.w, new[k], m.form[new[k]])
                      /\ batches'[Len(batches) + k] \in BatchRows
    BY Zenon
  <2> HIDE DEF fresh, m
  <2>1. k \in DOMAIN new /\ batches'[Len(batches) + k] = fresh[k]
    BY Zenon, <1>7, <1>10
  <2> QED
    BY Zenon, <1>8, <2>1
<1> HIDE DEF old, fresh, m
<1> QED
  BY Zenon, <1>10, <1>12, <1>13 DEF WritesBatches, m

\* The batches of an item at a warehouse are up by what the intake brings.
LEMMA BatchTotalAfter ==
  ASSUME Laws, NEW c \in Clients, NEW new, Commits(c, new), WritesBatches(task[c].more, new),
         NEW v \in Warehouses, NEW i \in Items, NEW column \in Columns
  PROVE  /\ BatchTotal(v, i, column)' = BatchTotal(v, i, column) + Delta(c, v, i, column, Tick)
         /\ BatchTotal(v, i, column) \in Nat
<1> DEFINE m == task[c].more
           n == Len(batches)
           S == DOMAIN m.form \ DOMAIN m.found
           f == [b \in BatchIds |-> batches[b][column]]
           g == [b \in BatchIds' |-> batches'[b][column]]
           T == StockOf(v, i)
           U == StockOf(v, i)'
           q == Delta(c, v, i, column, Tick)
<1>0. DInv /\ FoundSound(c) /\ task[c].more.w \in Warehouses
  BY Zenon DEF Commits
<1> USE <1>0
<1>1. /\ DOMAIN m.form \subseteq Items /\ DOMAIN m.found \subseteq DOMAIN m.form
      /\ \A j \in DOMAIN m.form : m.form[j] \in CountedLines
      /\ \A j \in DOMAIN m.found : /\ m.found[j].id \in BatchIds
                                   /\ batches[m.found[j].id].w = m.w
                                   /\ batches[m.found[j].id].item = j
  BY Zenon DEF FoundSound, FoundBatch, BatchIds
<1>2. /\ Len(new) \in Nat
      /\ \A j \in S : \E k \in 1 .. Len(new) : new[k] = j
      /\ \A j, k \in 1 .. Len(new) : new[j] = new[k] => j = k
      /\ \A k \in 1 .. Len(new) : new[k] \in S
  <2>1. NumbersOnce(new, S)
    BY Zenon, NewItems
  <2> QED
    BY Zenon, <2>1 DEF NumbersOnce
<1>4. n \in Nat /\ BatchIds = 1 .. n /\ \A b \in BatchIds : batches[b] \in BatchRows
  <2>1. batches \in Seq(BatchRows)
    BY Zenon DEF DInv, RowsType
  <2> QED
    BY Zenon, <2>1, InBatchRows, SeqDomain DEF BatchIds
<1> HIDE DEF m
<1>5. BatchIds' = 1 .. n + Len(new)
  <2>1. batches' \in Seq(BatchRows) /\ Len(batches') = n + Len(new)
    BY Zenon DEF WritesBatches, m
  <2>2. DOMAIN batches' = 1 .. Len(batches')
    BY Zenon, <2>1, SeqDomain
  <2> QED
    BY Zenon, <2>1, <2>2 DEF BatchIds
<1>6. \A b \in BatchIds :
        /\ batches'[b].w = batches[b].w /\ batches'[b].item = batches[b].item
        /\ IF \E j \in DOMAIN m.found : m.found[j].id = b
             THEN /\ batches[b].w = m.w /\ batches[b].item \in DOMAIN m.found
                  /\ m.found[batches[b].item].id = b
                  /\ batches'[b][column] = batches[b][column]
                       + RoundTo(m.form[batches[b].item][column], Tick)
             ELSE batches'[b] = batches[b]
  BY Zenon DEF WritesBatches, BatchForward, m
<1>7. \A k \in 1 .. Len(new) :
        /\ batches'[n + k].w = m.w /\ batches'[n + k].item = new[k]
        /\ batches'[n + k][column] = RoundTo(m.form[new[k]][column], Tick)
  <2>1. \A k \in 1 .. Len(new) : batches'[n + k] = NewBatch(m.w, new[k], m.form[new[k]])
    BY Zenon DEF WritesBatches, m
  <2>2. \A w, j, l : /\ NewBatch(w, j, l).w = w /\ NewBatch(w, j, l).item = j
                     /\ NewBatch(w, j, l)[column] = RoundTo(l[column], Tick)
    <3>1. column = "usable" \/ column = "defective" \/ column = "expired"
      BY Zenon DEF Columns
    <3> TAKE w, j, l
    <3> DEFINE t == NewBatch(w, j, l)
    <3>2. /\ t.w = w /\ t.item = j /\ t.usable = RoundTo(l.usable, Tick)
          /\ t.defective = RoundTo(l.defective, Tick) /\ t.expired = RoundTo(l.expired, Tick)
      BY Zenon DEF NewBatch
    <3> HIDE DEF t
    <3>3. t[column] = RoundTo(l[column], Tick)
      BY Zenon, <3>1, <3>2
    <3> QED
      BY Zenon, <3>2, <3>3 DEF t
  <2> HIDE DEF n
  <2> QED
    BY <2>1, <2>2
<1> HIDE DEF S, n
<1>8. /\ (v # m.w \/ \A k \in 1 .. Len(new) : new[k] # i) => U = T
      /\ \A k \in 1 .. Len(new) :
           v = m.w /\ new[k] = i => n + k \notin T /\ U = T \cup {n + k}
  <2>1. /\ T = {b \in 1 .. n : batches[b].w = v /\ batches[b].item = i}
        /\ U = {b \in 1 .. n + Len(new) : batches'[b].w = v /\ batches'[b].item = i}
    BY Zenon, <1>4, <1>5 DEF StockOf
  <2>2. \A b \in 1 .. n : batches'[b].w = batches[b].w /\ batches'[b].item = batches[b].item
    BY Zenon, <1>4, <1>6
  <2>3. \A k \in 1 .. Len(new) : batches'[n + k].w = m.w /\ batches'[n + k].item = new[k]
    BY Zenon, <1>7
  <2> HIDE DEF T, U
  <2>4. \A b \in 1 .. n : b \in 1 .. n + Len(new) /\ (b \in U <=> b \in T)
    BY <1>2, <1>4, <2>1, <2>2
  <2>5. \A k \in 1 .. Len(new) : n + k \in 1 .. n + Len(new) /\ n + k \notin 1 .. n
    BY <1>2, <1>4
  <2>6. \A k \in 1 .. Len(new) : n + k \in U <=> v = m.w /\ new[k] = i
    BY Zenon, <2>1, <2>3, <2>5
  <2>7. ASSUME NEW b \in U, b \notin T PROVE \E k \in 1 .. Len(new) : b = n + k
    <3>1. b \in 1 .. n + Len(new) /\ b \notin 1 .. n
      BY Zenon, <2>1, <2>4, <2>7
    <3>2. b - n \in 1 .. Len(new) /\ b = n + (b - n)
      BY <1>2, <1>4, <3>1
    <3> QED
      BY Zenon, <3>2
  <2>8. T \subseteq U /\ T \subseteq 1 .. n
    BY Zenon, <2>1, <2>4
  <2>9. ASSUME v # m.w \/ \A k \in 1 .. Len(new) : new[k] # i PROVE U = T
    <3>1. ASSUME NEW b \in U PROVE b \in T
      <4>1. ASSUME b \notin T PROVE FALSE
        <5>1. PICK k \in 1 .. Len(new) : b = n + k
          BY Zenon, <2>7, <4>1
        <5> QED
          BY Zenon, <2>6, <2>9, <5>1
      <4> QED
        BY Zenon, <4>1
    <3> QED
      BY Zenon, <2>8, <3>1
  <2>10. ASSUME NEW k \in 1 .. Len(new), v = m.w, new[k] = i
        PROVE  n + k \notin T /\ U = T \cup {n + k}
    <3>1. n + k \in U /\ n + k \notin T
      BY Zenon, <2>5, <2>6, <2>8, <2>10
    <3>2. ASSUME NEW b \in U, b \notin T PROVE b = n + k
      <4>1. PICK j \in 1 .. Len(new) : b = n + j
        BY Zenon, <2>7, <3>2
      <4>2. new[j] = i
        BY Zenon, <2>6, <3>2, <4>1
      <4> QED
        BY Zenon, <1>2, <2>10, <4>1, <4>2
    <3> QED
      BY Zenon, <2>8, <3>1, <3>2
  <2> QED
    BY Zenon, <2>9, <2>10
<1>9. IsFiniteSet(T) /\ \A b \in T : b \in BatchIds /\ batches[b].w = v /\ batches[b].item = i
  <2>1. T \subseteq 1 .. n
    BY Zenon, <1>4 DEF StockOf
  <2>2. IsFiniteSet(1 .. n)
    BY Zenon, <1>4 DEF Laws, FiniteLaws
  <2>3. IsFiniteSet(T)
    <3> HIDE DEF T
    <3> QED
      BY Zenon, <2>1, <2>2 DEF Laws, FiniteLaws
  <2> QED
    BY Zenon, <2>3 DEF StockOf
<1>10. \A b \in BatchIds : f[b] = batches[b][column] /\ f[b] \in Nat
  <2>1. \A x \in BatchRows : x[column] \in Kept(Tick)
    BY Zenon DEF BatchRows, Columns
  <2>2. Kept(Tick) \subseteq Nat
    BY Zenon DEF Laws, RoundLaws, KeptLaw
  <2> QED
    BY Zenon, <1>4, <2>1, <2>2
<1>11. \A b \in 1 .. n + Len(new) : g[b] = batches'[b][column]
  BY Zenon, <1>5
<1>12. BatchTotal(v, i, column) = SumOver(f, T) /\ BatchTotal(v, i, column)' = SumOver(g, U)
  BY Zenon DEF BatchTotal
<1>13. q \in Nat /\ q = IF v = m.w /\ i \in DOMAIN m.form
                           THEN RoundTo(m.form[i][column], Tick) ELSE 0
  <2>1. \A j \in DOMAIN m.form : RoundTo(m.form[j][column], Tick) \in Nat
    BY Zenon, <1>1, ColumnUp DEF m
  <2> QED
    BY Zenon, <2>1 DEF Delta, Brings, m
<1> HIDE DEF f, g, T, U, q
<1>14. ASSUME NEW b \in T
       PROVE  IF v = m.w /\ i \in DOMAIN m.found /\ b = m.found[i].id
                THEN g[b] = f[b] + RoundTo(m.form[i][column], Tick) ELSE g[b] = f[b]
  <2>1. b \in BatchIds /\ batches[b].w = v /\ batches[b].item = i
    BY Zenon, <1>9
  <2>2. b \in 1 .. n + Len(new)
    BY <1>2, <1>4, <2>1
  <2>3. f[b] = batches[b][column] /\ g[b] = batches'[b][column]
    BY Zenon, <1>10, <1>11, <2>1, <2>2
  <2> QED
    BY <1>6, <2>1, <2>3
<1>15. SumOver(g, U) = SumOver(f, T) + q
  <2>1. \A b \in T : f[b] \in Nat
    BY Zenon, <1>9, <1>10
  <2>2. CASE ~ (v = m.w /\ i \in DOMAIN m.form)
    <3>1. v # m.w \/ \A k \in 1 .. Len(new) : new[k] # i
      BY Zenon, <1>2, <2>2 DEF S
    <3>2. U = T
      BY Zenon, <1>8, <3>1
    <3>3. q = 0
      BY Zenon, <1>13, <2>2
    <3>4. \A b \in T : f[b] = g[b]
      BY Zenon, <1>1, <1>14, <2>2 DEF m
    <3>5. SumOver(f, T) \in Nat /\ SumOver(f, T) = SumOver(g, T)
      BY Zenon, <1>9, <2>1, <3>4 DEF Laws, NatLaw, SameLaw
    <3> QED
      BY <3>2, <3>3, <3>5
  <2>3. CASE v = m.w /\ i \in DOMAIN m.found
    <3> DEFINE y == m.found[i].id
    <3>1. \A k \in 1 .. Len(new) : new[k] # i
      BY Zenon, <1>2, <2>3 DEF S
    <3>2. U = T
      BY Zenon, <1>8, <3>1
    <3>3. y \in T
      BY Zenon, <1>1, <2>3 DEF T, StockOf, m
    <3>4. q = RoundTo(m.form[i][column], Tick)
      BY Zenon, <1>1, <1>13, <2>3 DEF m
    <3>5. g[y] = f[y] + q /\ \A b \in T \ {y} : f[b] = g[b]
      BY Zenon, <1>14, <2>3, <3>3, <3>4
    <3> HIDE DEF y
    <3>6. SumOver(g, T) = SumOver(f, T) + q
      <4>1. RaisesRow(f, g, T, y, q)
        BY Zenon, <1>9, <1>13, <2>1, <3>3, <3>5 DEF RaisesRow
      <4> QED
        BY <4>1 DEF Laws, RaiseLaw
    <3> QED
      BY Zenon, <3>2, <3>6
  <2>4. CASE v = m.w /\ i \in S
    <3>1. PICK k \in 1 .. Len(new) : new[k] = i
      BY Zenon, <1>2, <2>4
    <3>2. n + k \notin T /\ U = T \cup {n + k}
      BY Zenon, <1>8, <2>4, <3>1
    <3>3. i \in DOMAIN m.form /\ i \notin DOMAIN m.found
      BY Zenon, <2>4 DEF S
    <3>4. q = RoundTo(m.form[i][column], Tick)
      BY Zenon, <1>13, <2>4, <3>3
    <3>5. g[n + k] = q
      <4>1. n + k \in 1 .. n + Len(new)
        BY <1>2, <1>4
      <4> QED
        BY Zenon, <1>7, <1>11, <3>1, <3>4, <4>1
    <3>6. \A b \in T : f[b] = g[b]
      BY Zenon, <1>14, <3>3
    <3>7. SumOver(g, U) = SumOver(f, T) + g[n + k]
      <4>1. AddsRow(f, g, T, U, n + k)
        BY Zenon, <1>9, <1>13, <2>1, <3>2, <3>5, <3>6 DEF AddsRow
      <4> QED
        BY <4>1 DEF Laws, GrowLaw
    <3> QED
      BY Zenon, <3>5, <3>7
  <2> QED
    BY Zenon, <2>2, <2>3, <2>4 DEF S
<1>16. SumOver(f, T) \in Nat
  BY Zenon, <1>9, <1>10 DEF Laws, NatLaw
<1> QED
  BY Zenon, <1>12, <1>15, <1>16 DEF q

\* The lines of an intake, as dnintake_item keeps them.
LineOf(m, i) == NewLine(m.w, i, m.form[i])

\* The record of the intakes is up by what this one brings: the donation had
\* no lines before.
LEMMA BroughtTotalAfter ==
  ASSUME Laws, NEW c \in Clients, NEW new, Commits(c, new), lines[task[c].d] = {},
         NEW v \in Warehouses, NEW i \in Items, NEW column \in Columns
  PROVE  /\ IsFiniteSet(Brought(v, i)')
         /\ BroughtTotal(v, i, column)' = BroughtTotal(v, i, column) + Delta(c, v, i, column, Cent)
         /\ BroughtTotal(v, i, column) \in Nat /\ Cardinality(Brought(v, i)) \in Nat
         /\ Cardinality(Brought(v, i)') =
              Cardinality(Brought(v, i)) + IF Brings(c, v, i) THEN 1 ELSE 0
<1> DEFINE m == task[c].more
           d == task[c].d
           B == Brought(v, i)
           C == Brought(v, i)'
           f == [p \in B |-> p[2][column]]
           g == [p \in C |-> p[2][column]]
           y == <<d, LineOf(m, i)>>
           q == Delta(c, v, i, column, Cent)
<1>0. DInv /\ FoundSound(c) /\ d \in Donations
  BY Zenon DEF Commits, CopySound
<1> USE <1>0
<1>1. /\ DOMAIN m.form \subseteq Items
      /\ \A j \in DOMAIN m.form : m.form[j] \in CountedLines
  BY Zenon DEF FoundSound
<1>2. /\ lines'[d] = {LineOf(m, j) : j \in DOMAIN m.form}
      /\ \A e \in Donations \ {d} : lines'[e] = lines[e]
  <2>1. lines' = [lines EXCEPT ![d] = lines[d] \cup {LineOf(m, j) : j \in DOMAIN m.form}]
    BY Zenon DEF Commits, _process_intake_submission, LineOf
  <2> QED
    BY Zenon, <2>1 DEF DInv, RowsType
<1>3. \A p : p \in B <=> \E e \in Donations : \E l \in lines[e] :
                           p = <<e, l>> /\ l.w = v /\ l.item = i
  BY DEF Brought
<1>4. \A p : p \in C <=> \E e \in Donations : \E l \in lines'[e] :
                           p = <<e, l>> /\ l.w = v /\ l.item = i
  BY DEF Brought
<1>5. \A j : /\ LineOf(m, j).w = m.w /\ LineOf(m, j).item = j
             /\ LineOf(m, j)[column] = RoundTo(m.form[j][column], Cent)
  <2>1. \A j : /\ LineOf(m, j).w = m.w /\ LineOf(m, j).item = j
               /\ LineOf(m, j).usable = RoundTo(m.form[j].usable, Cent)
               /\ LineOf(m, j).defective = RoundTo(m.form[j].defective, Cent)
               /\ LineOf(m, j).expired = RoundTo(m.form[j].expired, Cent)
    BY Zenon DEF LineOf, NewLine
  <2>2. column = "usable" \/ column = "defective" \/ column = "expired"
    BY Zenon DEF Columns
  <2> QED
    BY Zenon, <2>1, <2>2
<1>6. IsFiniteSet(B) /\ \A p \in B : f[p] \in Nat
  <2>1. \A p \in B : p[2] \in Lines
    BY <1>3 DEF DInv, RowsType
  <2>2. \A l \in Lines : l[column] \in Nat
    BY Zenon DEF Lines, Columns
  <2> QED
    BY Zenon, <2>1, <2>2 DEF DInv, BroughtFinite
<1>7. BroughtTotal(v, i, column) = SumOver(f, B) /\ BroughtTotal(v, i, column)' = SumOver(g, C)
  BY Zenon DEF BroughtTotal
<1>8. /\ q \in Nat
      /\ q = IF v = m.w /\ i \in DOMAIN m.form THEN RoundTo(m.form[i][column], Cent) ELSE 0
      /\ Brings(c, v, i) <=> v = m.w /\ i \in DOMAIN m.form
  <2>1. \A j \in DOMAIN m.form : RoundTo(m.form[j][column], Cent) \in Nat
    BY Zenon, <1>1, ColumnUp
  <2> QED
    BY Zenon, <2>1 DEF Delta, Brings
<1>9. (\A p \in B : f[p] = p[2][column]) /\ (\A p \in C : g[p] = p[2][column])
  BY Zenon
<1>12. SumOver(f, B) \in Nat /\ Cardinality(B) \in Nat
  <2> HIDE DEF f, B
  <2> QED
    BY Zenon, <1>6 DEF Laws, NatLaw, FiniteLaws
<1> HIDE DEF m, d, B, C, f, g, y, q
<1>10. CASE ~ (v = m.w /\ i \in DOMAIN m.form)
  <2>1. C = B
    <3>1. \A l \in lines'[d] : ~ (l.w = v /\ l.item = i)
      BY <1>2, <1>5, <1>10
    <3>2. \A l \in lines[d] : FALSE
      BY Zenon DEF d
    <3>3. ASSUME NEW p \in C PROVE p \in B
      <4>1. PICK e \in Donations : \E l \in lines'[e] : p = <<e, l>> /\ l.w = v /\ l.item = i
        BY Zenon, <1>4
      <4>2. PICK l \in lines'[e] : p = <<e, l>> /\ l.w = v /\ l.item = i
        BY Zenon, <4>1
      <4>3. l \in lines[e]
        BY Zenon, <1>2, <3>1, <4>2
      <4> QED
        BY Zenon, <1>3, <4>2, <4>3
    <3>4. ASSUME NEW p \in B PROVE p \in C
      <4>1. PICK e \in Donations : \E l \in lines[e] : p = <<e, l>> /\ l.w = v /\ l.item = i
        BY Zenon, <1>3
      <4>2. lines'[e] = lines[e]
        BY Zenon, <1>2, <3>2, <4>1
      <4> QED
        BY Zenon, <1>4, <4>1, <4>2
    <3> QED
      BY Zenon, <3>3, <3>4
  <2>2. q = 0 /\ \A p \in B : f[p] = g[p]
    BY Zenon, <1>8, <1>9, <1>10, <2>1
  <2>3. SumOver(f, B) \in Nat /\ SumOver(f, B) = SumOver(g, B)
    BY Zenon, <1>6, <2>2 DEF Laws, NatLaw, SameLaw
  <2>4. Cardinality(C) = Cardinality(B) + 0 /\ SumOver(g, C) = SumOver(f, B) + q
    BY <1>12, <2>1, <2>2, <2>3
  <2> QED
    BY Zenon, <1>6, <1>7, <1>8, <1>10, <1>12, <2>1, <2>4 DEF B, C, q
<1>11. CASE v = m.w /\ i \in DOMAIN m.form
  <2>1. d \in Donations /\ \A l \in lines[d] : FALSE
    BY Zenon DEF d
  <2>2. \A l \in lines'[d] : l.w = v /\ l.item = i <=> l = LineOf(m, i)
    BY <1>2, <1>5, <1>11
  <2>3. LineOf(m, i) \in lines'[d]
    BY Zenon, <1>2, <1>11
  <2>4. y \in C
    BY Zenon, <1>4, <2>1, <2>2, <2>3 DEF y
  <2>5. y \notin B
    BY <1>3, <2>1 DEF y
  <2>6. C \ {y} = B
    <3>1. ASSUME NEW p \in C, p # y PROVE p \in B
      <4>1. PICK e \in Donations : \E l \in lines'[e] : p = <<e, l>> /\ l.w = v /\ l.item = i
        BY <1>4
      <4>2. PICK l \in lines'[e] : p = <<e, l>> /\ l.w = v /\ l.item = i
        BY <4>1
      <4>3. e # d
        BY Zenon, <2>2, <3>1, <4>2 DEF y
      <4>4. l \in lines[e]
        BY Zenon, <1>2, <4>2, <4>3
      <4> QED
        BY <1>3, <4>2, <4>4
    <3>2. \A p : p \in B => p \in C
      BY <1>2, <1>3, <1>4, <2>1
    <3> QED
      BY Zenon, <2>5, <3>1, <3>2
  <2>7. g[y] = q
    <3>1. g[y] = LineOf(m, i)[column]
      BY Zenon, <1>9, <2>4 DEF y
    <3> QED
      BY Zenon, <1>5, <1>8, <1>11, <3>1
  <2>8. \A p \in B : f[p] = g[p]
    BY Zenon, <1>9, <2>6
  <2>9. C = B \cup {y}
    BY Zenon, <2>4, <2>6
  <2>10. IsFiniteSet(C) /\ SumOver(g, C) = SumOver(f, B) + g[y]
    <3>1. AddsRow(f, g, B, C, y)
      BY Zenon, <1>6, <1>8, <2>5, <2>7, <2>8, <2>9 DEF AddsRow
    <3> QED
      BY <3>1 DEF Laws, GrowLaw
  <2>11. Cardinality(C) = Cardinality(B) + 1
    BY Zenon, <1>6, <2>5, <2>9 DEF Laws, FiniteLaws
  <2> QED
    BY Zenon, <1>7, <1>8, <1>11, <1>12, <2>7, <2>10, <2>11 DEF B, C, q
<1> QED
  BY Zenon, <1>10, <1>11

\* The inventory rows are up by what the intake brings.
LEMMA InventoryAfter ==
  ASSUME Laws, NEW c \in Clients, NEW new, Commits(c, new)
  PROVE  /\ inv' \in [Warehouses -> [Items -> StockRows]]
         /\ \A v \in Warehouses, i \in Items, column \in Columns :
              inv'[v][i][column] = inv[v][i][column] + Delta(c, v, i, column, Cent)
<1> DEFINE m == task[c].more
           up(i) == [Added(inv[m.w][i], m.form[i], Cent) EXCEPT !.exists = TRUE]
           rows == [i \in Items |-> IF i \in DOMAIN m.form THEN up(i) ELSE inv[m.w][i]]
<1>0. DInv /\ FoundSound(c) /\ task[c].more.w \in Warehouses
  BY Zenon DEF Commits
<1> USE <1>0
<1>1. inv' = [inv EXCEPT ![m.w] = rows]
  BY Zenon DEF Commits, _process_intake_submission
<1>2. \A j \in DOMAIN m.form : m.form[j] \in CountedLines
  BY Zenon DEF FoundSound
<1>3. inv \in [Warehouses -> [Items -> StockRows]] /\ m.w \in Warehouses
  BY Zenon DEF DInv, RowsType
<1>4. ASSUME NEW i \in Items, i \in DOMAIN m.form
      PROVE  /\ up(i) \in StockRows
             /\ \A column \in Columns :
                  up(i)[column] = inv[m.w][i][column] + RoundTo(m.form[i][column], Cent)
  <2> DEFINE r == inv[m.w][i]
             l == m.form[i]
             u == RoundTo(r.usable + l.usable, Cent)
             x == RoundTo(r.defective + l.defective, Cent)
             y == RoundTo(r.expired + l.expired, Cent)
  <2>1. r \in StockRows /\ l \in CountedLines
    BY Zenon, <1>2, <1>3, <1>4
  <2>2. /\ r = [usable |-> r.usable, defective |-> r.defective, expired |-> r.expired,
                exists |-> r.exists]
        /\ r.usable \in Kept(Cent) /\ r.defective \in Kept(Cent) /\ r.expired \in Kept(Cent)
    BY Zenon, <2>1 DEF StockRows
  <2>3. up(i) = [Added(r, l, Cent) EXCEPT !.exists = TRUE]
    BY Zenon
  <2> HIDE DEF r, l, up
  <2>4. \A column \in Columns, a \in Kept(Cent) :
          /\ RoundTo(a + l[column], Cent) \in Kept(Cent)
          /\ RoundTo(a + l[column], Cent) = a + RoundTo(l[column], Cent)
    BY Zenon, <2>1, ColumnUp
  <2>5. up(i) = [usable |-> u, defective |-> x, expired |-> y, exists |-> TRUE]
    BY Zenon, <2>2, <2>3 DEF Added
  <2>6. /\ u \in Kept(Cent) /\ u = r.usable + RoundTo(l.usable, Cent)
        /\ x \in Kept(Cent) /\ x = r.defective + RoundTo(l.defective, Cent)
        /\ y \in Kept(Cent) /\ y = r.expired + RoundTo(l.expired, Cent)
    BY Zenon, <2>2, <2>4 DEF Columns
  <2> HIDE DEF u, x, y
  <2>7. /\ up(i) \in StockRows
        /\ \A column \in Columns : up(i)[column] = r[column] + RoundTo(l[column], Cent)
    <3>1. up(i) \in StockRows
      BY <2>5, <2>6 DEF StockRows
    <3>2. up(i).usable = u /\ up(i).defective = x /\ up(i).expired = y
      BY <2>5
    <3>3. /\ up(i).usable = r.usable + RoundTo(l.usable, Cent)
          /\ up(i).defective = r.defective + RoundTo(l.defective, Cent)
          /\ up(i).expired = r.expired + RoundTo(l.expired, Cent)
      BY Zenon, <2>6, <3>2
    <3> QED
      BY Zenon, <3>1, <3>3 DEF Columns
  <2> QED
    BY Zenon, <2>7 DEF r, l
<1> HIDE DEF up, m
<1>5. rows \in [Items -> StockRows]
  BY Zenon, <1>3, <1>4
<1>6. inv' \in [Warehouses -> [Items -> StockRows]]
  <2> HIDE DEF rows
  <2> QED
    BY Zenon, <1>1, <1>3, <1>5
<1>7. ASSUME NEW v \in Warehouses, NEW i \in Items, NEW column \in Columns
      PROVE  inv'[v][i][column] = inv[v][i][column] + Delta(c, v, i, column, Cent)
  <2>1. inv[v][i][column] \in Nat
    <3>1. \A x \in StockRows : x[column] \in Kept(Cent)
      BY Zenon DEF StockRows, Columns
    <3>2. Kept(Cent) \subseteq Nat
      BY Zenon DEF Laws, RoundLaws, KeptLaw
    <3> QED
      BY Zenon, <1>3, <3>1, <3>2
  <2>2. inv'[v] = IF v = m.w THEN rows ELSE inv[v]
    <3> HIDE DEF rows
    <3> QED
      BY Zenon, <1>1, <1>3
  <2>3. CASE v = m.w /\ i \in DOMAIN m.form
    <3>1. inv'[v][i] = up(i)
      BY Zenon, <2>2, <2>3
    <3>2. up(i)[column] = inv[m.w][i][column] + RoundTo(m.form[i][column], Cent)
      BY Zenon, <1>4, <2>3
    <3> QED
      BY Zenon, <2>3, <3>1, <3>2 DEF Delta, Brings, m
  <2>4. CASE ~ (v = m.w /\ i \in DOMAIN m.form)
    <3>1. inv'[v][i] = inv[v][i]
      BY Zenon, <2>2, <2>4
    <3> QED
      BY <2>1, <2>4, <3>1 DEF Delta, Brings, m
  <2> QED
    BY Zenon, <2>3, <2>4
<1> QED
  BY Zenon, <1>6, <1>7

\* What StockMatchesIntakes says of one column.
StockMatches(v, i, column) ==
  LET drift == Drift * Cardinality(Brought(v, i))
  IN  /\ inv[v][i][column] = BroughtTotal(v, i, column)
      /\ 2 * BatchTotal(v, i, column) <= 2 * BroughtTotal(v, i, column) + drift
      /\ 2 * BroughtTotal(v, i, column) <= 2 * BatchTotal(v, i, column) + drift

\* The commit of an intake.
LEMMA ProcessStep ==
  ASSUME Laws, DInv, NEW c \in Clients, Running(c, "intake"), task[c].more.step = "found",
         NEW new \in Orders(DOMAIN task[c].more.form \ DOMAIN task[c].more.found),
         _process_intake_submission(c, new)
  PROVE  DInv'
<1> DEFINE d == task[c].d
           m == task[c].more
<1>1. CopySound(c) /\ m.w \in Warehouses /\ FoundSound(c)
  BY Zenon, IntakeTask
<1>0. Commits(c, new)
  BY Zenon, <1>1 DEF Commits
<1>2. d \in Donations /\ donation[d] = task[c].row /\ donation[d].status = "V"
  <2>1. Unchanged(c)
    BY Zenon DEF _process_intake_submission, Accepted
  <2>2. task[c].op = "intake"
    BY Zenon DEF Running
  <2> QED
    BY Zenon, <1>1, <2>1, <2>2 DEF CopySound, Unchanged
<1>3. (\A w \in Warehouses : <<d, w>> \notin intakes) /\ lines[d] = {}
  <2>1. \A w \in Warehouses : <<d, w>> \notin intakes
    BY Zenon, <1>2, NotTaken DEF DInv
  <2> QED
    BY Zenon, <1>2, <2>1 DEF DInv, RowsSound
<1>4. /\ donation' = [donation EXCEPT ![d].status = "P", ![d].version = @ + 1]
      /\ intakes' = intakes \cup {<<d, m.w>>} /\ Finish(c) /\ UNCHANGED items
  BY Zenon DEF _process_intake_submission
<1>5. /\ donation'[d].status = "P" /\ donation'[d].version = donation[d].version + 1
      /\ \A e \in Donations \ {d} : donation'[e] = donation[e]
      /\ donation' \in [Donations -> DonationRows] /\ donation[d].version \in Nat
  <2>1. donation \in [Donations -> DonationRows] /\ donation[d] \in DonationRows
    BY Zenon, <1>2 DEF DInv, RowsType
  <2>2. donation[d].version \in Nat
    BY Zenon, <2>1 DEF DonationRows
  <2> DEFINE row == [donation[d] EXCEPT !.status = "P", !.version = @ + 1]
  <2>3. row \in DonationRows /\ row.status = "P" /\ row.version = donation[d].version + 1
    <3> DEFINE r == donation[d]
    <3>1. r = [status |-> r.status, version |-> r.version, header |-> r.header]
          /\ r.header \in Headers
      BY Zenon, <2>1 DEF DonationRows
    <3>2. row = [r EXCEPT !.status = "P", !.version = @ + 1]
      BY Zenon
    <3> HIDE DEF r, row
    <3>3. row = [status |-> "P", version |-> r.version + 1, header |-> r.header]
      BY Zenon, <3>1, <3>2
    <3> QED
      BY <2>2, <3>1, <3>3 DEF DonationRows, Statuses, r
  <2>4. donation' = [donation EXCEPT ![d] = row]
    BY Zenon, <1>2, <1>4, <2>1
  <2> HIDE DEF row
  <2> QED
    BY Zenon, <1>2, <2>1, <2>2, <2>3, <2>4
<1>6. lines' = [lines EXCEPT ![d] = {LineOf(m, i) : i \in DOMAIN m.form}]
  <2>1. lines' = [lines EXCEPT ![d] = lines[d] \cup {LineOf(m, i) : i \in DOMAIN m.form}]
    BY Zenon DEF _process_intake_submission, LineOf
  <2> QED
    BY Zenon, <1>3, <2>1
<1>7. /\ lines'[d] = {LineOf(m, i) : i \in DOMAIN m.form}
      /\ \A e \in Donations \ {d} : lines'[e] = lines[e]
  BY Zenon, <1>2, <1>6 DEF DInv, RowsType
<1>8. /\ task'[c] = Idle /\ DOMAIN task' = Clients
      /\ \A e \in Clients \ {c} : task'[e] = task[e]
  BY Zenon, <1>4 DEF Finish, DInv, RowsType
<1>9. WritesBatches(m, new)
  BY Zenon, <1>0, BatchesAfter
<1>10. /\ DOMAIN m.form \subseteq Items /\ \A i \in DOMAIN m.form : m.form[i] \in CountedLines
  BY Zenon, <1>1 DEF FoundSound
<1>11. RowsType'
  <2>1. \A i \in DOMAIN m.form : LineOf(m, i) \in Lines
    <3> SUFFICES ASSUME NEW i \in DOMAIN m.form PROVE NewLine(m.w, i, m.form[i]) \in Lines
      BY Zenon DEF LineOf
    <3> DEFINE l == m.form[i]
    <3>1. l \in CountedLines /\ i \in Items /\ m.w \in Warehouses
      BY Zenon, <1>1, <1>10
    <3> HIDE DEF l, m
    <3>2. /\ RoundTo(l.usable, Cent) \in Nat /\ RoundTo(l.defective, Cent) \in Nat
          /\ RoundTo(l.expired, Cent) \in Nat
      BY Zenon, <3>1, ColumnUp DEF Columns
    <3>3. l.no \in BatchNos \cup {"NULL"}
      BY Zenon, <3>1 DEF CountedLines
    <3>4. NewLine(m.w, i, l) \in Lines
      BY Zenon, <3>1, <3>2, <3>3 DEF NewLine, Lines
    <3> QED
      BY Zenon, <3>4 DEF l
  <2>2. lines' \in [Donations -> SUBSET Lines]
    <3> DEFINE X == {LineOf(m, i) : i \in DOMAIN m.form}
    <3>1. X \in SUBSET Lines
      BY Zenon, <2>1
    <3> HIDE DEF X
    <3> QED
      BY Zenon, <1>2, <1>6, <3>1 DEF DInv, RowsType, X
  <2>3. intakes' \subseteq Donations \X Warehouses
    BY <1>1, <1>2, <1>4 DEF DInv, RowsType
  <2>4. batches' \in Seq(BatchRows)
    BY Zenon, <1>9 DEF WritesBatches
  <2>5. inv' \in [Warehouses -> [Items -> StockRows]]
    BY Zenon, <1>0, InventoryAfter
  <2>6. items' \in [Donations -> [Items -> ItemRows]]
    BY Zenon, <1>4 DEF DInv, RowsType
  <2> QED
    BY Zenon, <1>5, <1>8, <2>2, <2>3, <2>4, <2>5, <2>6 DEF RowsType
<1>12. RowsSound'
  <2>1. ASSUME NEW e \in Donations
        PROVE  /\ donation'[e].status \notin Missing => donation'[e].version >= 1
               /\ donation'[e].status \in Missing => donation'[e].version = 0
               /\ e \notin Entered => donation'[e].status # "E"
    <3>1. CASE e = d
      BY <1>5, <3>1 DEF Missing
    <3>2. CASE e # d
      BY Zenon, <1>5, <3>2 DEF DInv, RowsSound
    <3> QED
      BY Zenon, <3>1, <3>2
  <2>2. ASSUME NEW e \in Donations, \A w \in Warehouses : <<e, w>> \notin intakes'
        PROVE  lines'[e] = {}
    <3>1. e # d
      BY Zenon, <1>1, <1>4, <2>2
    <3>2. \A w \in Warehouses : <<e, w>> \notin intakes
      BY Zenon, <1>4, <2>2
    <3> QED
      BY Zenon, <1>7, <3>1, <3>2 DEF DInv, RowsSound
  <2> QED
    BY Zenon, <2>1, <2>2 DEF RowsSound
<1>13. IntakeOnce'
  <2>1. \A e \in Donations, w \in Warehouses :
          <<e, w>> \in intakes' <=> <<e, w>> \in intakes \/ (e = d /\ w = m.w)
    BY Zenon, <1>4
  <2> QED
    BY <1>3, <1>5, <2>1 DEF DInv, IntakeOnce
<1>14. IntakeComplete'
  <2> SUFFICES ASSUME NEW e \in Donations \ Entered, NEW w \in Warehouses, <<e, w>> \in intakes'
               PROVE  /\ {l.item : l \in lines'[e]} = ItemsOf(items'[e])
                      /\ \A l \in lines'[e] :
                           /\ l.w = w
                           /\ Sum(l) <= items'[e][l.item].qty + Drift
                           /\ items'[e][l.item].qty <= Sum(l) + Drift
    BY Zenon DEF IntakeComplete
  <2>1. CASE e = d
    <3>1. w = m.w
      BY Zenon, <1>3, <1>4, <2>1
    <3>2. DOMAIN m.form = ItemsOf(items[d]) /\ AccountedFor(m.form, items[d])
      BY Zenon, <1>1, <2>1 DEF FoundSound
    <3>3. \A i : LineOf(m, i).w = m.w /\ LineOf(m, i).item = i
      BY Zenon DEF LineOf, NewLine
    <3>4. ASSUME NEW i \in DOMAIN m.form
          PROVE  /\ Sum(LineOf(m, i)) <= items[d][i].qty + Drift
                 /\ items[d][i].qty <= Sum(LineOf(m, i)) + Drift
      <4> DEFINE a == m.form[i].usable
                 b == m.form[i].defective
                 x == m.form[i].expired
                 q == items[d][i].qty
      <4>1. a \in Counted \cup {0} /\ b \in Counted \cup {0} /\ x \in Counted \cup {0}
        BY Zenon, <1>10 DEF CountedLines
      <4>2. a + b + x = q
        BY Zenon, <3>2 DEF AccountedFor, Sum
      <4>3. q \in Kept(Cent)
        <5>1. items[d] \in [Items -> ItemRows] /\ i \in Items
          BY Zenon, <1>2, <1>10 DEF DInv, RowsType
        <5> QED
          BY Zenon, <5>1 DEF ItemRows
      <4>4. Sum(LineOf(m, i)) = RoundTo(a, Cent) + RoundTo(b, Cent) + RoundTo(x, Cent)
        BY Zenon DEF Sum, LineOf, NewLine
      <4> HIDE DEF a, b, x, q
      <4>5. /\ RoundTo(a, Cent) + RoundTo(b, Cent) + RoundTo(x, Cent) <= q + Drift
            /\ q <= RoundTo(a, Cent) + RoundTo(b, Cent) + RoundTo(x, Cent) + Drift
        BY Zenon, <4>1, <4>2, <4>3 DEF Laws, RoundLaws, PartsLaw
      <4> QED
        BY Zenon, <4>4, <4>5 DEF q
    <3> HIDE DEF m, d
    <3>5. {l.item : l \in lines'[d]} = DOMAIN m.form
      <4>1. \A i \in DOMAIN m.form : LineOf(m, i) \in lines'[d] /\ LineOf(m, i).item = i
        BY Zenon, <1>7, <3>3
      <4>2. \A l \in lines'[d] : l.item \in DOMAIN m.form
        BY <1>7, <3>3
      <4> QED
        BY Zenon, <4>1, <4>2
    <3>6. ASSUME NEW l \in lines'[d]
          PROVE  /\ l.w = m.w
                 /\ Sum(l) <= items[d][l.item].qty + Drift
                 /\ items[d][l.item].qty <= Sum(l) + Drift
      <4>1. PICK i \in DOMAIN m.form : l = LineOf(m, i)
        BY Zenon, <1>7
      <4> QED
        BY Zenon, <3>3, <3>4, <4>1
    <3>7. items' = items /\ lines'[e] = lines'[d] /\ items[e] = items[d]
      BY Zenon, <1>4, <2>1
    <3> QED
      BY Zenon, <3>1, <3>2, <3>5, <3>6, <3>7
  <2>2. CASE e # d
    <3>1. <<e, w>> \in intakes
      BY Zenon, <1>4, <2>2
    <3>2. lines'[e] = lines[e] /\ items'[e] = items[e]
      BY Zenon, <1>4, <1>7, <2>2
    <3> QED
      BY <3>1, <3>2 DEF DInv, IntakeComplete
  <2> QED
    BY Zenon, <2>1, <2>2
<1>15. StockMatchesIntakes' /\ BroughtFinite'
  <2>1. ASSUME NEW v \in Warehouses, NEW i \in Items, NEW column \in Columns
        PROVE  /\ StockMatches(v, i, column)'
               /\ IsFiniteSet(Brought(v, i)')
    <3> DEFINE fine == Delta(c, v, i, column, Tick)
               rough == Delta(c, v, i, column, Cent)
               one == IF Brings(c, v, i) THEN 1 ELSE 0
               old == BatchTotal(v, i, column)
               brought == BroughtTotal(v, i, column)
               k == Cardinality(Brought(v, i))
    <3>1. BatchTotal(v, i, column)' = old + fine /\ old \in Nat
      BY Zenon, <1>0, <1>9, BatchTotalAfter
    <3>2. /\ BroughtTotal(v, i, column)' = brought + rough
          /\ IsFiniteSet(Brought(v, i)') /\ brought \in Nat /\ k \in Nat
          /\ Cardinality(Brought(v, i)') = k + one
      BY Zenon, <1>0, <1>3, BroughtTotalAfter
    <3>3. inv'[v][i][column] = inv[v][i][column] + rough
      BY Zenon, <1>0, InventoryAfter
    <3>4. inv[v][i][column] = brought /\ 2 * old <= 2 * brought + Drift * k
                                       /\ 2 * brought <= 2 * old + Drift * k
      BY Zenon DEF StockMatchesIntakes, DInv
    <3>5. /\ fine \in Nat /\ rough \in Nat /\ one \in Nat /\ Drift \in Nat
          /\ 2 * fine <= 2 * rough + Drift * one /\ 2 * rough <= 2 * fine + Drift * one
      <4>1. Drift \in Nat
        BY Zenon DEF Laws, RoundLaws, DriftLaw
      <4>2. CASE Brings(c, v, i)
        <5> DEFINE q == m.form[i][column]
        <5>1. /\ q \in Counted \cup {0} /\ RoundTo(q, Tick) \in Nat /\ RoundTo(q, Cent) \in Nat
          BY Zenon, <1>10, <4>2, ColumnUp, CountedNat DEF Brings
        <5>2. fine = RoundTo(q, Tick) /\ rough = RoundTo(q, Cent) /\ one = 1
          BY Zenon, <4>2 DEF Delta
        <5> HIDE DEF q, fine, rough, one
        <5>3. /\ 2 * RoundTo(q, Tick) <= 2 * RoundTo(q, Cent) + Drift
              /\ 2 * RoundTo(q, Cent) <= 2 * RoundTo(q, Tick) + Drift
          BY Zenon, <5>1 DEF Laws, RoundLaws, DriftLaw
        <5>4. Drift * one = Drift
          BY <4>1, <5>2
        <5> QED
          BY <4>1, <5>1, <5>2, <5>3, <5>4
      <4>3. CASE ~ Brings(c, v, i)
        <5>1. fine = 0 /\ rough = 0 /\ one = 0
          BY Zenon, <4>3 DEF Delta
        <5> HIDE DEF fine, rough, one
        <5> QED
          BY <4>1, <5>1
      <4> QED
        BY Zenon, <4>2, <4>3
    <3> HIDE DEF fine, rough, one, old, brought, k
    <3>6. Drift * (k + one) = Drift * k + Drift * one /\ Drift * k \in Nat /\ Drift * one \in Nat
      BY <3>2, <3>5
    <3>7. /\ 2 * (old + fine) <= 2 * (brought + rough) + Drift * (k + one)
          /\ 2 * (brought + rough) <= 2 * (old + fine) + Drift * (k + one)
      <4> DEFINE A == Drift * k
                 B == Drift * one
      <4> HIDE DEF A, B
      <4>1. /\ A \in Nat /\ B \in Nat /\ 2 * old <= 2 * brought + A /\ 2 * brought <= 2 * old + A
            /\ 2 * fine <= 2 * rough + B /\ 2 * rough <= 2 * fine + B
        BY Zenon, <3>4, <3>5, <3>6 DEF A, B
      <4>2. /\ 2 * (old + fine) <= 2 * (brought + rough) + (A + B)
            /\ 2 * (brought + rough) <= 2 * (old + fine) + (A + B)
        BY <3>1, <3>2, <3>5, <4>1
      <4> QED
        BY Zenon, <3>6, <4>2 DEF A, B
    <3> QED
      BY Zenon, <3>1, <3>2, <3>3, <3>4, <3>7 DEF StockMatches
  <2>2. StockMatchesIntakes'
    BY Zenon, <2>1 DEF StockMatchesIntakes, StockMatches
  <2>3. "usable" \in Columns
    BY Zenon DEF Columns
  <2> QED
    BY Zenon, <2>1, <2>2, <2>3 DEF BroughtFinite
<1>16. ASSUME NEW e \in Clients PROVE TaskSound(e)'
  <2>1. CASE e = c
    BY Zenon, <1>8, <2>1 DEF TaskSound
  <2>2. CASE e # c
    <3>1. \A x \in Donations : Forward(x) /\ KeepsItems(x)
      BY <1>2, <1>4, <1>5 DEF Forward, KeepsItems
    <3>2. \A b \in BatchIds : BatchForward(b)
      BY Zenon, <1>9 DEF WritesBatches
    <3> QED
      BY Zenon, <1>8, <1>11, <2>2, <3>1, <3>2, OthersSound DEF DInv
  <2> QED
    BY Zenon, <2>1, <2>2
<1> QED
  BY Zenon, <1>11, <1>12, <1>13, <1>14, <1>15, <1>16 DEF DInv

-----------------------------------------------------------------------------
(* The theorems *)

\* A row that holds nothing has a row's type and three zero columns.
LEMMA EmptyColumns ==
  ASSUME 0 \in Kept(Tick)
  PROVE  /\ \A w \in Warehouses, i \in Items : EmptyBatch(w, i) \in BatchRows
         /\ \A w, i : \A column \in Columns : EmptyBatch(w, i)[column] = 0
         /\ \A column \in Columns : EmptyStock[column] = 0 /\ NoStock[column] = 0
<1>1. \A w, i : /\ EmptyBatch(w, i).usable = 0 /\ EmptyBatch(w, i).defective = 0
                /\ EmptyBatch(w, i).expired = 0
  BY Zenon DEF EmptyBatch
<1>2. /\ EmptyStock.usable = 0 /\ EmptyStock.defective = 0 /\ EmptyStock.expired = 0
      /\ NoStock.usable = 0 /\ NoStock.defective = 0 /\ NoStock.expired = 0
  BY Zenon DEF EmptyStock, NoStock
<1>3. \A w \in Warehouses, i \in Items : EmptyBatch(w, i) \in BatchRows
  BY DEF EmptyBatch, BatchRows
<1>4. \A column \in Columns : column = "usable" \/ column = "defective" \/ column = "expired"
  BY Zenon DEF Columns
<1> QED
  BY Zenon, <1>1, <1>2, <1>3, <1>4

\* The invariant holds at the start: no intake yet, and empty batches where a
\* warehouse had the items before.
LEMMA DInvInit ==
  ASSUME Laws, Init
  PROVE  DInv
<1>0. 0 \in Kept(Tick) /\ 0 \in Kept(Cent)
  BY Zenon DEF Laws, RoundLaws, KeptLaw
<1>1. PICK s \in Orders(Stocked \X Items) :
        batches = [k \in DOMAIN s |-> EmptyBatch(s[k][1], s[k][2])]
  BY Zenon DEF Init
<1> DEFINE n == Cardinality(Stocked \X Items)
<1>2. n \in Nat
  <2>1. IsFiniteSet(Stocked) /\ IsFiniteSet(Items)
    BY Zenon, DonationAssumption DEF Laws, FiniteLaws
  <2>2. IsFiniteSet(Stocked \X Items)
    BY Zenon, <2>1 DEF Laws, FiniteLaws
  <2> QED
    BY Zenon, <2>2 DEF Laws, FiniteLaws
<1>3. s \in [1 .. n -> Stocked \X Items]
  BY Zenon DEF Orders
<1> HIDE DEF n
<1>4. /\ DOMAIN batches = 1 .. n
      /\ \A k \in 1 .. n : /\ batches[k] \in BatchRows
                           /\ \A column \in Columns : batches[k][column] = 0
  <2>1. ASSUME NEW k \in 1 .. n
        PROVE  /\ EmptyBatch(s[k][1], s[k][2]) \in BatchRows
               /\ \A column \in Columns : EmptyBatch(s[k][1], s[k][2])[column] = 0
    <3>1. s[k][1] \in Warehouses /\ s[k][2] \in Items
      BY Zenon, <1>3, DonationAssumption
    <3> QED
      BY Zenon, <1>0, <3>1, EmptyColumns
  <2>2. DOMAIN s = 1 .. n
    BY Zenon, <1>3
  <2>3. \A k \in 1 .. n : batches[k] = EmptyBatch(s[k][1], s[k][2])
    BY Zenon, <1>1, <2>2
  <2> QED
    BY Zenon, <1>1, <2>1, <2>2, <2>3
<1>5. batches \in Seq(BatchRows)
  <2>1. batches \in [1 .. n -> BatchRows]
    <3>1. batches = [k \in DOMAIN batches |-> batches[k]]
      BY Zenon, <1>1
    <3> QED
      BY Zenon, <1>4, <3>1
  <2> QED
    BY <1>2, <2>1
<1>6. PICK h \in Headers : donation = [d \in Donations |->
        IF d \in Entered THEN [status |-> "E", version |-> 1, header |-> h]
                         ELSE [status |-> "none", version |-> 0, header |-> h]]
  BY Zenon DEF Init
<1>7. RowsType
  <2>1. donation \in [Donations -> DonationRows]
    BY Zenon, <1>6 DEF DonationRows, Statuses, Missing
  <2>2. items \in [Donations -> [Items -> ItemRows]]
    BY Zenon, <1>0 DEF Init, NoItems, NoItem, ItemRows
  <2>3. inv \in [Warehouses -> [Items -> StockRows]]
    BY Zenon, <1>0 DEF Init, EmptyStock, NoStock, StockRows
  <2> QED
    BY Zenon, <1>5, <2>1, <2>2, <2>3 DEF Init, RowsType
<1>8. RowsSound
  <2>1. \A d \in Donations :
          /\ d \in Entered => donation[d].status = "E" /\ donation[d].version = 1
          /\ d \notin Entered => donation[d].status = "none" /\ donation[d].version = 0
    BY Zenon, <1>6
  <2>2. \A d \in Donations : lines[d] = {}
    BY Zenon DEF Init
  <2> QED
    BY <2>1, <2>2 DEF RowsSound, Missing
<1>9. \A c \in Clients : TaskSound(c)
  BY Zenon DEF Init, TaskSound
<1>10. IntakeOnce /\ IntakeComplete
  BY Zenon DEF Init, IntakeOnce, IntakeComplete
<1>11. \A w \in Warehouses, i \in Items : Brought(w, i) = {}
  BY DEF Init, Brought
<1>12. BroughtFinite
  BY Zenon, <1>11 DEF BroughtFinite, Laws, FiniteLaws
<1>13. StockMatchesIntakes
  <2> SUFFICES ASSUME NEW w \in Warehouses, NEW i \in Items, NEW column \in Columns
               PROVE  /\ inv[w][i][column] = 0
                      /\ BatchTotal(w, i, column) = 0 /\ BroughtTotal(w, i, column) = 0
    <3>1. \A w \in Warehouses, i \in Items : Drift * Cardinality(Brought(w, i)) \in Nat
      <4>1. Drift \in Nat
        BY Zenon DEF Laws, RoundLaws, DriftLaw
      <4>2. \A w \in Warehouses, i \in Items : Cardinality(Brought(w, i)) \in Nat
        BY Zenon, <1>12 DEF BroughtFinite, Laws, FiniteLaws
      <4> QED
        BY <4>1, <4>2
    <3>2. \A x \in Nat : 2 * 0 <= 2 * 0 + x
      OBVIOUS
    <3> QED
      BY Zenon, <3>1, <3>2 DEF StockMatchesIntakes
  <2>1. inv[w][i][column] = 0
    <3>1. inv[w][i] = EmptyStock \/ inv[w][i] = NoStock
      BY Zenon DEF Init
    <3> QED
      BY Zenon, <1>0, <3>1, EmptyColumns
  <2>2. BroughtTotal(w, i, column) = 0
    BY Zenon, <1>11 DEF BroughtTotal, Laws, ZeroLaw
  <2>3. BatchTotal(w, i, column) = 0
    <3> DEFINE f == [b \in BatchIds |-> batches[b][column]]
               T == StockOf(w, i)
    <3>1. \A b \in T : f[b] = 0
      BY Zenon, <1>4 DEF StockOf, BatchIds
    <3>2. BatchTotal(w, i, column) = SumOver(f, T)
      BY Zenon DEF BatchTotal
    <3> HIDE DEF f, T
    <3> QED
      BY Zenon, <3>1, <3>2 DEF Laws, ZeroLaw
  <2> QED
    BY Zenon, <2>1, <2>2, <2>3
<1> QED
  BY Zenon, <1>7, <1>8, <1>9, <1>10, <1>12, <1>13 DEF DInv

\* Every step preserves the invariant.
LEMMA DInvNext ==
  ASSUME Laws, DInv, [Next]_vars
  PROVE  DInv'
<1>1. CASE UNCHANGED vars
  <2>1. UNCHANGED <<donation, items, lines, intakes, batches, inv, task>>
    BY <1>1 DEF vars
  <2>2. RowsType'
    BY Zenon, <2>1 DEF DInv, RowsType
  <2>3. RowsSound'
    BY Zenon, <2>1 DEF DInv, RowsSound
  <2>4. IntakeOnce'
    BY Zenon, <2>1 DEF DInv, IntakeOnce
  <2>6. IntakeComplete'
    BY <2>1 DEF DInv, IntakeComplete
  <2>5. ASSUME NEW c \in Clients PROVE TaskSound(c)'
    BY Zenon, <2>1, <2>2, Undisturbed DEF DInv
  <2> QED
    BY Zenon, <2>1, <2>2, <2>3, <2>4, <2>5, <2>6, StockSame DEF DInv
<1>2. ASSUME NEW c \in Clients, TakeIn(c) PROVE DInv'
  <2>1. CASE \E d \in Donations, w \in Warehouses : load_intake_form(c, d, w)
    <3>1. PICK d \in Donations, w \in Warehouses : load_intake_form(c, d, w)
      BY <2>1
    <3>2. [step |-> "loaded", w |-> w].step = "loaded" /\ [step |-> "loaded", w |-> w].w \in Warehouses
      BY Zenon
    <3> QED
      BY Zenon, <3>1, <3>2, LoadStep DEF load_intake_form
  <2> QED
    BY Zenon, <1>2, <2>1, ReadItemsStep, FindBatchesStep, ProcessStep DEF TakeIn
<1> QED
  BY <1>1, <1>2, ManageStep, RollbackStep DEF Next

SL == INSTANCE SumLemmas

\* The rounding of a column, as SumLemmas states it.
LEMMA SameRounding ==
  ASSUME NEW n, NEW unit
  PROVE  SL!RoundTo(n, unit) = RoundTo(n, unit)
BY Zenon DEF RoundTo, SL!RoundTo

\* A column keeps the multiples of its unit, and adds by the rounded quantity.
LEMMA KeptHolds ==
  ASSUME NEW unit \in Nat \ {0}
  PROVE  KeptLaw(unit) /\ \A n \in Nat : n \in Kept(unit) => \E k \in Nat : n = unit * k
<1>1. \A n \in Nat : \E k \in Nat : RoundTo(n, unit) = unit * k
  BY Zenon, SL!RoundMultiple, SameRounding
<1>2. \A k \in Nat : unit * k \in Nat /\ RoundTo(unit * k, unit) = unit * k
  <2>1. \A k \in Nat : unit * k \in Nat
    OBVIOUS
  <2> QED
    BY Zenon, <2>1, SL!RoundExact, SameRounding
<1>3. \A k \in Nat, n \in Nat : RoundTo(unit * k + n, unit) = unit * k + RoundTo(n, unit)
  BY Zenon, SL!RoundShift, SameRounding
<1>4. Kept(unit) \subseteq Nat /\ \A n \in Nat : RoundTo(n, unit) \in Kept(unit)
  BY Zenon, <1>1, <1>2 DEF Kept
<1>5. ASSUME NEW n \in Kept(unit) PROVE \E k \in Nat : n = unit * k
  BY Zenon, <1>1 DEF Kept
<1>6. 0 \in Kept(unit)
  <2>1. unit * 0 = 0 /\ 0 \in Nat
    OBVIOUS
  <2> QED
    BY Zenon, <1>2, <2>1 DEF Kept
<1>7. ASSUME NEW a \in Kept(unit), NEW q \in Nat
      PROVE  RoundTo(a + q, unit) \in Kept(unit) /\ RoundTo(a + q, unit) = a + RoundTo(q, unit)
  <2>1. PICK k \in Nat : a = unit * k
    BY Zenon, <1>5
  <2>2. RoundTo(a + q, unit) = a + RoundTo(q, unit)
    BY Zenon, <1>3, <2>1
  <2>3. a + q \in Nat
    <3>1. a \in Nat
      BY Zenon, <1>4
    <3> QED
      BY <3>1
  <2> QED
    BY Zenon, <1>4, <2>2, <2>3
<1> QED
  BY Zenon, <1>4, <1>5, <1>6, <1>7 DEF KeptLaw

\* Rounding moves a line by as much as Drift says.
LEMMA RoundLawsHold == RoundLaws
<1>1. Tick \in Nat \ {0} /\ Cent \in Nat \ {0} /\ Counted \cup {0} \subseteq Nat
  BY DonationAssumption
<1>2. PICK n \in Nat \ {0} : Cent = 2 * (Tick * n)
  BY DonationAssumption
<1>3. KeptLaw(Tick) /\ KeptLaw(Cent)
  BY Zenon, <1>1, KeptHolds
<1>4. Drift \in Nat
  BY <1>1 DEF Drift
<1>5. ASSUME NEW q \in Nat, RoundTo(q, Cent) = q PROVE RoundTo(q, Tick) = q
  <2>1. PICK k \in Nat : q = Cent * k
    BY Zenon, <1>1, <1>5, KeptHolds DEF Kept
  <2>2. PICK j \in Nat : j = 2 * (n * k)
    OBVIOUS
  <2>3. Cent * k = Tick * j
    <3>1. (2 * (Tick * n)) * k = Tick * (2 * (n * k))
      BY <1>1
    <3> QED
      BY Zenon, <1>2, <2>2, <3>1
  <2> QED
    BY Zenon, <1>1, <2>1, <2>3, SL!RoundExact, SameRounding
<1>6. ASSUME NEW q \in Counted \cup {0}, Drift = 0 PROVE RoundTo(q, Cent) = q
  <2>1. CASE q \in Counted
    <3>1. \A x \in Counted : RoundTo(x, Cent) = x
      BY <1>1, <1>6 DEF Drift
    <3> QED
      BY Zenon, <2>1, <3>1
  <2>2. CASE q = 0
    BY Zenon, <1>3, <2>2 DEF KeptLaw, Kept
  <2> QED
    BY Zenon, <2>1, <2>2
<1>7. Drift = 0 \/ Drift = Cent
  BY Zenon DEF Drift
<1>8. ASSUME NEW q \in Counted \cup {0}
      PROVE  /\ 2 * RoundTo(q, Tick) <= 2 * RoundTo(q, Cent) + Drift
             /\ 2 * RoundTo(q, Cent) <= 2 * RoundTo(q, Tick) + Drift
  <2>1. q \in Nat
    BY Zenon, <1>1
  <2>2. CASE Drift = 0
    <3>1. RoundTo(q, Cent) = q /\ RoundTo(q, Tick) = q
      BY Zenon, <1>5, <1>6, <2>1, <2>2
    <3> QED
      BY <2>1, <2>2, <3>1
  <2>3. CASE Drift = Cent
    <3>1. LET cent == 2 * (Tick * n)
              fine == SL!RoundTo(q, Tick)
              rough == SL!RoundTo(q, cent)
          IN  2 * fine <= 2 * rough + cent /\ 2 * rough <= 2 * fine + cent
      BY Zenon, <1>1, <2>1, SL!RoundTwice
    <3> QED
      BY Zenon, <1>2, <2>3, <3>1, SameRounding
  <2> QED
    BY Zenon, <1>7, <2>2, <2>3
<1>9. ASSUME NEW a \in Counted \cup {0}, NEW b \in Counted \cup {0}, NEW e \in Counted \cup {0},
             a + b + e \in Kept(Cent)
      PROVE  LET sum == RoundTo(a, Cent) + RoundTo(b, Cent) + RoundTo(e, Cent)
             IN  sum <= a + b + e + Drift /\ a + b + e <= sum + Drift
  <2>1. a \in Nat /\ b \in Nat /\ e \in Nat
    BY Zenon, <1>1
  <2>2. CASE Drift = 0
    <3>1. RoundTo(a, Cent) = a /\ RoundTo(b, Cent) = b /\ RoundTo(e, Cent) = e
      BY Zenon, <1>6, <2>2
    <3> QED
      BY <2>1, <2>2, <3>1
  <2>3. CASE Drift = Cent
    <3>1. a + b + e \in Nat
      BY <2>1
    <3>2. PICK k \in Nat : a + b + e = Cent * k
      BY Zenon, <1>1, <1>9, <3>1, KeptHolds
    <3>3. LET sum == SL!RoundTo(a, Cent) + SL!RoundTo(b, Cent) + SL!RoundTo(e, Cent)
          IN  sum <= Cent * k + Cent /\ Cent * k <= sum + Cent
      BY Zenon, <1>1, <2>1, <3>2, SL!RoundParts
    <3> QED
      BY Zenon, <2>3, <3>2, <3>3, SameRounding
  <2> QED
    BY Zenon, <1>7, <2>2, <2>3
<1> QED
  BY Zenon, <1>3, <1>4, <1>8, <1>9 DEF RoundLaws, DriftLaw, PartsLaw

\* Finite sets, sums and rounding are as assumed.
LEMMA LawsHold == Laws
<1>1. ASSUME NEW S PROVE SL!IsFiniteSet(S) <=> IsFiniteSet(S)
  BY DEF IsFiniteSet, SL!IsFiniteSet
<1>2. ASSUME NEW S PROVE SL!Cardinality(S) = Cardinality(S)
  BY Zenon DEF Cardinality, SL!Cardinality
<1>3. ASSUME NEW f, NEW S PROVE SL!SumOver(f, S) = SumOver(f, S)
  BY Zenon, <1>2 DEF SumOver, SL!SumOver, Tokens, SL!Tokens
<1>4. FiniteLaws
  <2>1. \A S : IsFiniteSet(S) => Cardinality(S) \in Nat
    BY Zenon, <1>1, <1>2, SL!FS_CardinalityType
  <2>2. \A S, T : IsFiniteSet(S) /\ T \subseteq S => IsFiniteSet(T)
    BY <1>1, SL!FS_Subset
  <2>3. \A S, T : IsFiniteSet(S) /\ IsFiniteSet(T) => IsFiniteSet(S \X T)
    BY Zenon, <1>1, SL!FS_Product
  <2>4. \A n \in Nat : IsFiniteSet(1 .. n)
    BY <1>1, SL!FS_Interval
  <2>5. IsFiniteSet({}) /\ Cardinality({}) = 0
    BY <1>1, <1>2, SL!FS_EmptySet
  <2>6. \A S, y : IsFiniteSet(S) /\ y \notin S => Cardinality(S \cup {y}) = Cardinality(S) + 1
    BY Zenon, <1>1, <1>2, SL!FS_AddElement
  <2> QED
    BY Zenon, <2>1, <2>2, <2>3, <2>4, <2>5, <2>6 DEF FiniteLaws
<1>5. NatLaw
  BY Zenon, <1>1, <1>3, SL!SumNat DEF NatLaw
<1>6. ZeroLaw
  BY <1>3, SL!SumZero DEF ZeroLaw
<1>7. SameLaw
  BY <1>3, SL!SumSame DEF SameLaw
<1>8. RaiseLaw
  <2>1. ASSUME NEW f, NEW g, NEW S, NEW y, NEW q, RaisesRow(f, g, S, y, q)
        PROVE  SumOver(g, S) = SumOver(f, S) + q
    <3>1. SL!RaisesRow(f, g, S, y, q)
      <4>1. SL!IsFiniteSet(S)
        BY Zenon, <1>1, <2>1 DEF RaisesRow
      <4> QED
        BY Zenon, <2>1, <4>1 DEF RaisesRow, SL!RaisesRow
    <3>2. SL!SumOver(g, S) = SL!SumOver(f, S) + q
      BY <3>1, SL!SumRaise
    <3> QED
      BY Zenon, <1>3, <3>2
  <2> QED
    BY Zenon, <2>1 DEF RaiseLaw
<1>9. GrowLaw
  <2>1. ASSUME NEW f, NEW g, NEW S, NEW T, NEW y, AddsRow(f, g, S, T, y)
        PROVE  IsFiniteSet(T) /\ SumOver(g, T) = SumOver(f, S) + g[y]
    <3>1. SL!AddsRow(f, g, S, T, y)
      <4>1. SL!IsFiniteSet(S)
        BY Zenon, <1>1, <2>1 DEF AddsRow
      <4> QED
        BY Zenon, <2>1, <4>1 DEF AddsRow, SL!AddsRow
    <3>2. SL!IsFiniteSet(T) /\ SL!SumOver(g, T) = SL!SumOver(f, S) + g[y]
      BY <3>1, SL!SumInsert
    <3> QED
      BY Zenon, <1>1, <1>3, <3>2
  <2> QED
    BY Zenon, <2>1 DEF GrowLaw
<1> QED
  BY Zenon, <1>4, <1>5, <1>6, <1>7, <1>8, <1>9, RoundLawsHold DEF Laws

\* The invariant holds in every state.
LEMMA DInvAlways == Spec => []DInv
<1>1. Init => DInv
  BY LawsHold, DInvInit
<1>2. DInv /\ [Next]_vars => DInv'
  BY LawsHold, DInvNext
<1> QED
  BY <1>1, <1>2, PTL DEF Spec

\* A donation is taken in at most once, at one warehouse, and is processed
\* from then on: the version of the donation row excludes every second
\* intake, although the code looks for an earlier one at the chosen warehouse
\* only.
THEOREM TakenInOnce == Spec => []IntakeOnce
<1>1. DInv => IntakeOnce
  BY DEF DInv
<1> QED
  BY <1>1, DInvAlways, PTL

\* At every item and warehouse, and for each of the three columns, the
\* inventory row holds exactly what the lines of the intakes brought, and the
\* batches hold it up to the difference of their scales, half a cent for each
\* line (none at all if the forms keep to two decimals), however many intakes
\* run at once: an intake that read a batch before another one changed it is
\* refused.
THEOREM StockIsWhatWasTakenIn == Spec => []StockMatchesIntakes
<1>1. DInv => StockMatchesIntakes
  BY DEF DInv
<1> QED
  BY <1>1, DInvAlways, PTL

\* The intake of a donation stored as verified accounts for every item at the
\* quantity donated, up to one cent that rounding its three parts may move
\* (exactly if the form keeps to two decimals), although the form is checked
\* in a query of its own before the commit.
THEOREM NothingDonatedIsMissed == Spec => []IntakeComplete
<1>1. DInv => IntakeComplete
  BY DEF DInv
<1> QED
  BY <1>1, DInvAlways, PTL

=============================================================================
