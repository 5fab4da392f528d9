------------------------------ MODULE Donations ------------------------------
(***************************************************************************)
(* Donations and their intake into a warehouse: the donation forms         *)
(* (app/features/donations.py) and the intake form                         *)
(* (app/features/donation_intake.py).                                      *)
(*                                                                         *)
(* As in module ReliefRequest a POST is several steps: it loads rows, it   *)
(* queries more, it commits, and version_id_col makes every UPDATE and     *)
(* DELETE conditional on the version loaded.  create_donation stores a     *)
(* donation as verified; donations with status "E" were entered before     *)
(* entry and verification became one step, and only they can be edited.    *)
(*                                                                         *)
(* Forms carry quantities of any precision (Decimal(str)).  itembatch      *)
(* keeps four decimals of them, donation_item, dnintake_item and inventory *)
(* two: a column stores a quantity rounded to its unit.                    *)
(***************************************************************************)
EXTENDS Sums, Sequences

CONSTANTS Donations,   \* identities of donations, never reused
          Entered,     \* the donations that are entered, not verified, at the start
          Items,       \* items of the catalogue
          Warehouses,
          Stocked,     \* warehouses that had every item before, and gave it all out
          Clients,     \* browser sessions of users who manage donations
          Headers,     \* donor, event, custodian and description of a donation
          Quantities,  \* quantities the form of a donation item may carry
          Counted,     \* quantities other than 0 an intake form may carry
          Tick,        \* 0.0001, the unit of numeric(15,4)
          Cent,        \* 0.01, the unit of numeric(12,2)
          BatchNos,    \* batch numbers a form may carry
          MaxVersion,  \* edits of a donation stop at this version
          MaxItemVersion

ASSUME DonationAssumption ==
  /\ IsFiniteSet(Donations) /\ IsFiniteSet(Items) /\ IsFiniteSet(Warehouses)
  /\ Entered \subseteq Donations /\ Stocked \subseteq Warehouses
  /\ "NULL" \notin Donations \cup BatchNos /\ "donation" \notin Items
  /\ Quantities \subseteq Nat /\ Counted \subseteq Nat
  /\ Tick \in Nat \ {0} /\ Cent \in Nat \ {0}
  /\ \E n \in 1 .. Cent : Cent = 2 * (Tick * n)
  /\ MaxVersion \in Nat /\ MaxItemVersion \in Nat

VARIABLES
  donation, \* donation[d]: the donation row
  items,    \* items[d]: the donation_item rows of d, by item
  lines,    \* lines[d]: the dnintake_item rows of d
  intakes,  \* the dnintake rows, pairs of donation and warehouse
  batches,  \* the itembatch rows, in the order of batch_id
  inv,      \* inv[w][i]: the inventory row of item i at warehouse w
  page,     \* page[c]: the form on the last page of client c
  task      \* task[c]: the POST handler running for client c

vars == <<donation, items, lines, intakes, batches, inv, page, task>>

-----------------------------------------------------------------------------
(* Rows *)

Statuses == {"E", "V", "P"}
Missing == {"none", "deleted"}

\* Version 0 stands for no row, here and in tasks.
NoItem == [qty |-> 0, version |-> 0]
NoItems == [i \in Items |-> NoItem]
ItemsOf(rows) == {i \in Items : rows[i] # NoItem}

Columns == {"usable", "defective", "expired"}
NoStock == [usable |-> 0, defective |-> 0, expired |-> 0, exists |-> FALSE]
EmptyStock == [usable |-> 0, defective |-> 0, expired |-> 0, exists |-> TRUE]
EmptyBatch(w, i) ==
  [w |-> w, item |-> i, no |-> "NULL", usable |-> 0, defective |-> 0, expired |-> 0,
   version |-> 1]

\* The ways to number the members of a finite set, each once.
Orders(S) ==
  {s \in [1 .. Cardinality(S) -> S] : /\ \A x \in S : \E k \in DOMAIN s : s[k] = x
                                      /\ \A j, k \in DOMAIN s : s[j] = s[k] => j = k}

Idle == [op |-> "idle"]
NoPage == [d |-> "NULL"]

-----------------------------------------------------------------------------
(* Steps shared by the handlers *)

\* The handler loads donation d, which get_or_404 must find; more holds
\* what else it has loaded.
Load(c, op, d, more) ==
  /\ task[c] = Idle
  /\ donation[d].status \notin Missing
  /\ task' = [task EXCEPT ![c] = [op |-> op, d |-> d, row |-> donation[d], more |-> more]]
  /\ UNCHANGED <<donation, items, lines, intakes, batches, inv, page>>

Running(c, op) == task[c].op = op

Finish(c) ==
  /\ task' = [task EXCEPT ![c] = Idle]
  /\ page' = [page EXCEPT ![c] = NoPage]

\* Faulty variant: the UPDATE or DELETE finds the donation by its key alone.
UnchangedByKey(c) == donation[task[c].d].status \notin Missing

\* WHERE version_nbr = the version loaded
Unchanged(c) == donation[task[c].d].version = task[c].row.version

ItemUnchanged(c) ==
  items[task[c].d][task[c].more.item].version = task[c].more.row.version

\* Any exception, an early return and a failed validation.
Rollback(c) ==
  /\ task[c] # Idle
  /\ Finish(c)
  /\ UNCHANGED <<donation, items, lines, intakes, batches, inv>>

\* The form of a donation, and that of one of its items, carry the version
\* of the row they show.
edit_donation_form(c, d) ==
  /\ task[c] = Idle
  /\ donation[d].status = "E"
  /\ page' = [page EXCEPT ![c] = [d |-> d, of |-> "donation", row |-> donation[d]]]
  /\ UNCHANGED <<donation, items, lines, intakes, batches, inv, task>>

edit_donation_item_form(c, d, i) ==
  /\ task[c] = Idle
  /\ donation[d].status = "E"
  /\ items[d][i] # NoItem
  /\ page' = [page EXCEPT ![c] = [d |-> d, of |-> i, row |-> items[d][i]]]
  /\ UNCHANGED <<donation, items, lines, intakes, batches, inv, task>>

list_donations(c) ==
  /\ task[c] = Idle
  /\ page' = [page EXCEPT ![c] = NoPage]
  /\ UNCHANGED <<donation, items, lines, intakes, batches, inv, task>>

-----------------------------------------------------------------------------
(* Donations and their items *)

\* The header and its items commit together.  Two form rows for one item
\* violate the primary key of donation_item, and nothing is stored.
create_donation(c, d, h, qty) ==
  /\ task[c] = Idle
  /\ donation[d].status = "none"
  /\ DOMAIN qty # {}
  /\ \A i \in DOMAIN qty : qty[i] > 0
  /\ donation' = [donation EXCEPT ![d] = [status |-> "V", version |-> 1, header |-> h]]
  /\ items' = [items EXCEPT ![d] = [i \in Items |->
                 IF i \in DOMAIN qty THEN [qty |-> RoundTo(qty[i], Cent), version |-> 1] ELSE NoItem]]
  /\ UNCHANGED <<lines, intakes, batches, inv, page, task>>

\* The version_nbr of the form is that of the row loaded.
CurrentForm(form, version) == form = version

load_edit_donation(c, d) ==
  /\ donation[d].status = "E"
  /\ page[c].d = d /\ page[c].of = "donation"
  /\ CurrentForm(page[c].row.version, donation[d].version)
  /\ donation[d].version < MaxVersion
  /\ Load(c, "edit_donation", d, "none")

\* The status is one of the form's, "P" included.
edit_donation(c, h, s) ==
  /\ Running(c, "edit_donation")
  /\ Unchanged(c)
  /\ donation' = [donation EXCEPT ![task[c].d] =
                    [status |-> s, version |-> task[c].row.version + 1, header |-> h]]
  /\ Finish(c)
  /\ UNCHANGED <<items, lines, intakes, batches, inv>>

load_delete_donation(c, d) ==
  /\ donation[d].status = "E"
  /\ items[d] = NoItems
  /\ Load(c, "delete_donation", d, "none")

\* The foreign keys of donation_item and dnintake let donation d go.
Unreferenced(d) == items[d] = NoItems /\ \A w \in Warehouses : <<d, w>> \notin intakes

delete_donation(c) ==
  LET d == task[c].d
  IN  /\ Running(c, "delete_donation")
      /\ Unchanged(c)
      /\ Unreferenced(d)
      /\ donation' = [donation EXCEPT ![d].status = "deleted", ![d].version = 0]
      /\ Finish(c)
      /\ UNCHANGED <<items, lines, intakes, batches, inv>>

load_add_donation_item(c, d, i) ==
  /\ donation[d].status = "E"
  /\ items[d][i] = NoItem
  /\ Load(c, "add_donation_item", d, [item |-> i])

\* The insert takes no notice of what became of the donation's status since
\* it was loaded: only the foreign key and the primary key are checked.
add_donation_item(c, q) ==
  LET d == task[c].d
      i == task[c].more.item
  IN  /\ Running(c, "add_donation_item")
      /\ q > 0
      /\ donation[d].status \notin Missing
      /\ items[d][i] = NoItem
      /\ items' = [items EXCEPT ![d][i] = [qty |-> RoundTo(q, Cent), version |-> 1]]
      /\ Finish(c)
      /\ UNCHANGED <<donation, lines, intakes, batches, inv>>

load_edit_donation_item(c, d, i) ==
  /\ donation[d].status = "E"
  /\ items[d][i] # NoItem
  /\ page[c].d = d /\ page[c].of = i
  /\ CurrentForm(page[c].row.version, items[d][i].version)
  /\ items[d][i].version < MaxItemVersion
  /\ Load(c, "edit_donation_item", d, [item |-> i, row |-> items[d][i]])

edit_donation_item(c, q) ==
  LET d == task[c].d
      i == task[c].more.item
  IN  /\ Running(c, "edit_donation_item")
      /\ q > 0
      /\ ItemUnchanged(c)
      /\ items' = [items EXCEPT ![d][i] = [qty |-> RoundTo(q, Cent), version |-> @.version + 1]]
      /\ Finish(c)
      /\ UNCHANGED <<donation, lines, intakes, batches, inv>>

load_delete_donation_item(c, d, i) ==
  /\ donation[d].status = "E"
  /\ items[d][i] # NoItem
  /\ Load(c, "delete_donation_item", d, [item |-> i, row |-> items[d][i]])

\* No dnintake_item row refers to item i of donation d.
NotTakenIn(d, i) == \A l \in lines[d] : l.item # i

delete_donation_item(c) ==
  LET d == task[c].d
      i == task[c].more.item
  IN  /\ Running(c, "delete_donation_item")
      /\ ItemUnchanged(c)
      /\ NotTakenIn(d, i)
      /\ items' = [items EXCEPT ![d][i] = NoItem]
      /\ Finish(c)
      /\ UNCHANGED <<donation, lines, intakes, batches, inv>>

-----------------------------------------------------------------------------
(* Intake *)

load_intake_form(c, d, w) ==
  /\ donation[d].status = "V"
  /\ <<d, w>> \notin intakes
  /\ Load(c, "intake", d, [step |-> "loaded", w |-> w])

\* The authoritative donation items, against which the form is validated.
read_donation_items(c) ==
  /\ Running(c, "intake") /\ task[c].more.step = "loaded"
  /\ task' = [task EXCEPT ![c].more =
                [step |-> "items", w |-> @.w, rows |-> items[task[c].d]]]
  /\ UNCHANGED <<donation, items, lines, intakes, batches, inv, page>>

\* Faulty variant: the quantities of the form need not add up to the donated
\* one.
AccountedForLoosely(form, rows) == \A i \in DOMAIN form : form[i].usable > 0

Sum(l) == l.usable + l.defective + l.expired

\* The form has a line for every item; some of each is usable, and usable,
\* defective and expired, as entered, add up to the donated quantity.
AccountedFor(form, rows) ==
  \A i \in DOMAIN form : form[i].usable > 0 /\ Sum(form[i]) = rows[i].qty

BatchIds == DOMAIN batches
StockOf(w, i) == {b \in BatchIds : batches[b].w = w /\ batches[b].item = i}
NullBatches(w, i) == {b \in StockOf(w, i) : batches[b].no = "NULL"}

\* A numbered batch must not exist anywhere; an item without batch tracking
\* goes to a NULL batch of the warehouse, the first found, if there is one.
\* found[i] is its id and row; seen: the items with an inventory row.
find_batches(c, form) ==
  LET w == task[c].more.w
      null == {i \in DOMAIN form : form[i].no = "NULL" /\ NullBatches(w, i) # {}}
  IN  /\ Running(c, "intake") /\ task[c].more.step = "items"
      /\ DOMAIN form = ItemsOf(task[c].more.rows)
      /\ AccountedFor(form, task[c].more.rows)
      /\ \A i \in DOMAIN form, b \in BatchIds :
           form[i].no # "NULL" => ~ (batches[b].item = i /\ batches[b].no = form[i].no)
      /\ \E found \in [null -> BatchIds] :
           /\ \A i \in null : found[i] \in NullBatches(w, i)
           /\ task' = [task EXCEPT ![c].more =
                [step |-> "found", w |-> w, form |-> form,
                 found |-> [i \in null |-> [id |-> found[i], row |-> batches[found[i]]]],
                 seen |-> {i \in DOMAIN form : inv[w][i].exists}]]
      /\ UNCHANGED <<donation, items, lines, intakes, batches, inv, page>>

\* Faulty variant: the batch found is updated whatever became of it.
BatchUnchangedByKey(b) == TRUE

\* WHERE version_nbr = the version found
BatchUnchanged(b) == batches[b.id].version = b.row.version

\* The quantities of form line l added to those of a row whose columns
\* store multiples of unit.
Added(row, l, unit) ==
  [row EXCEPT !.usable = RoundTo(@ + l.usable, unit),
              !.defective = RoundTo(@ + l.defective, unit),
              !.expired = RoundTo(@ + l.expired, unit)]

NewLine(w, i, l) ==
  [w |-> w, item |-> i, no |-> l.no, usable |-> RoundTo(l.usable, Cent),
   defective |-> RoundTo(l.defective, Cent), expired |-> RoundTo(l.expired, Cent)]

NewBatch(w, i, l) ==
  [w |-> w, item |-> i, no |-> l.no, usable |-> RoundTo(l.usable, Tick),
   defective |-> RoundTo(l.defective, Tick), expired |-> RoundTo(l.expired, Tick),
   version |-> 1]

\* The rows the constraints of the database accept: the intake and its
\* lines (primary key, foreign key to donation_item), new batches
\* (uk_itembatch_1), the batches found, and the inventory rows (primary key
\* when the item had none; else the row was locked when it was read).
Accepted(c, d, m) ==
  /\ Unchanged(c)
  /\ <<d, m.w>> \notin intakes
  /\ \A i \in DOMAIN m.form :
       /\ items[d][i] # NoItem
       /\ \A b \in StockOf(m.w, i) : m.form[i].no = "NULL" \/ batches[b].no # m.form[i].no
       /\ i \in m.seen <=> inv[m.w][i].exists
  /\ \A i \in DOMAIN m.found : BatchUnchanged(m.found[i])

\* new: the items whose line makes a new batch, in the order of their rows.
_process_intake_submission(c, new) ==
  LET d == task[c].d
      m == task[c].more
      added(b) == {i \in DOMAIN m.found : m.found[i].id = b}
  IN  /\ Running(c, "intake") /\ m.step = "found"
      /\ Accepted(c, d, m)
      /\ {new[k] : k \in DOMAIN new} = DOMAIN m.form \ DOMAIN m.found
      /\ Len(new) = Cardinality(DOMAIN m.form \ DOMAIN m.found)
      /\ intakes' = intakes \cup {<<d, m.w>>}
      /\ lines' = [lines EXCEPT ![d] = @ \cup {NewLine(m.w, i, m.form[i]) : i \in DOMAIN m.form}]
      /\ batches' = [b \in BatchIds |->
                       IF added(b) = {} THEN batches[b]
                       ELSE LET i == CHOOSE i \in added(b) : TRUE
                            IN  [Added(m.found[i].row, m.form[i], Tick) EXCEPT !.version = @ + 1]]
                    \o [k \in DOMAIN new |-> NewBatch(m.w, new[k], m.form[new[k]])]
      /\ inv' = [inv EXCEPT ![m.w] = [i \in Items |->
                   IF i \in DOMAIN m.form
                     THEN [Added(@[i], m.form[i], Cent) EXCEPT !.exists = TRUE]
                     ELSE @[i]]]
      /\ donation' = [donation EXCEPT ![d].status = "P", ![d].version = @ + 1]
      /\ Finish(c)
      /\ UNCHANGED items

-----------------------------------------------------------------------------
(* Specification *)

Init ==
  /\ \E h \in Headers : donation = [d \in Donations |->
       IF d \in Entered THEN [status |-> "E", version |-> 1, header |-> h]
                        ELSE [status |-> "none", version |-> 0, header |-> h]]
  /\ items = [d \in Donations |-> NoItems]
  /\ lines = [d \in Donations |-> {}]
  /\ intakes = {}
  /\ \E s \in Orders(Stocked \X Items) :
       batches = [k \in DOMAIN s |-> EmptyBatch(s[k][1], s[k][2])]
  /\ inv = [w \in Warehouses |-> [i \in Items |->
              IF w \in Stocked THEN EmptyStock ELSE NoStock]]
  /\ page = [c \in Clients |-> NoPage]
  /\ task = [c \in Clients |-> Idle]

FormLines == [no : BatchNos \cup {"NULL"}, usable : Counted,
              defective : Counted \cup {0}, expired : Counted \cup {0}]
Forms(rows) == [ItemsOf(rows) -> FormLines]

Manage(c) ==
  \/ \E d \in Donations : edit_donation_form(c, d)
  \/ \E d \in Donations, i \in Items : edit_donation_item_form(c, d, i)
  \/ list_donations(c)
  \/ \E d \in Donations, h \in Headers, S \in SUBSET Items :
       \E qty \in [S -> Quantities] : create_donation(c, d, h, qty)
  \/ \E d \in Donations : load_edit_donation(c, d)
  \/ \E h \in Headers, s \in Statuses : edit_donation(c, h, s)
  \/ \E d \in Donations : load_delete_donation(c, d)
  \/ delete_donation(c)
  \/ \E d \in Donations, i \in Items : load_add_donation_item(c, d, i)
  \/ \E q \in Quantities : add_donation_item(c, q)
  \/ \E d \in Donations, i \in Items : load_edit_donation_item(c, d, i)
  \/ \E q \in Quantities : edit_donation_item(c, q)
  \/ \E d \in Donations, i \in Items : load_delete_donation_item(c, d, i)
  \/ delete_donation_item(c)

TakeIn(c) ==
  \/ \E d \in Donations, w \in Warehouses : load_intake_form(c, d, w)
  \/ read_donation_items(c)
  \/ Running(c, "intake") /\ task[c].more.step = "items"
       /\ \E form \in Forms(task[c].more.rows) : find_batches(c, form)
  \/ Running(c, "intake") /\ task[c].more.step = "found"
       /\ \E new \in Orders(DOMAIN task[c].more.form \ DOMAIN task[c].more.found) :
            _process_intake_submission(c, new)

Next == \E c \in Clients : Manage(c) \/ TakeIn(c) \/ Rollback(c)

Spec == Init /\ [][Next]_vars

-----------------------------------------------------------------------------
(* Properties *)

\* A donation is taken in once, and is processed from then on: the code
\* looks for an intake at the chosen warehouse only, so two intakes of one
\* donation at two warehouses exclude each other by the donation's version.
IntakeOnce ==
  \A d \in Donations, w \in Warehouses : <<d, w>> \in intakes =>
    /\ donation[d].status = "P"
    /\ \A v \in Warehouses : <<d, v>> \in intakes => v = w

Brought(w, i) == {p \in UNION {{d} \X lines[d] : d \in Donations} : p[2].w = w /\ p[2].item = i}

BatchTotal(w, i, column) == SumOver([b \in BatchIds |-> batches[b][column]], StockOf(w, i))
BroughtTotal(w, i, column) == SumOver([p \in Brought(w, i) |-> p[2][column]], Brought(w, i))

\* What rounding may add to or take from two roundings of one quantity:
\* nothing if the intake forms keep to the step="0.01" of their inputs.
Drift == IF \A q \in Counted : RoundTo(q, Cent) = q THEN 0 ELSE Cent

\* Whatever intakes run at once, the inventory row of an item holds exactly
\* what the lines of the intakes say they brought, and its batches hold the
\* same up to half a cent for each line: no update of a shared NULL batch or
\* inventory row is lost, and none is applied twice.
StockMatchesIntakes ==
  \A w \in Warehouses, i \in Items, column \in Columns :
    LET batched == BatchTotal(w, i, column)
        brought == BroughtTotal(w, i, column)
        drift == Drift * Cardinality(Brought(w, i))
    IN  /\ inv[w][i][column] = brought
        /\ 2 * batched <= 2 * brought + drift
        /\ 2 * brought <= 2 * batched + drift

\* The intake of a donation that create_donation stored accounts for every
\* item of it, at the quantity donated up to one cent: nothing changes the
\* items of such a donation between the form's validation and the commit, or
\* later, and rounding the three parts moves their sum by no more.
IntakeComplete ==
  \A d \in Donations \ Entered, w \in Warehouses : <<d, w>> \in intakes =>
    /\ {l.item : l \in lines[d]} = ItemsOf(items[d])
    /\ \A l \in lines[d] :
         /\ l.w = w
         /\ Sum(l) <= items[d][l.item].qty + Drift
         /\ items[d][l.item].qty <= Sum(l) + Drift

=============================================================================
