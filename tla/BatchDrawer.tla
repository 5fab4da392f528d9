---------------------------- MODULE BatchDrawer ----------------------------
(***************************************************************************)
(* The batch drawer of the package preparation page.  One user prepares    *)
(* one package; the page holds the allocations as hidden inputs (form),    *)
(* the drawer edits those of one item at a time (currentAllocations) and   *)
(* asks the server which batches to show.  Answers arrive in any order,    *)
(* the drawer's state is cleared by a timer after it closes, other         *)
(* packages reserve and release meanwhile.  Nothing the drawer shows       *)
(* reserves anything: saving the form validates it against the batches as  *)
(* they are then.                                                          *)
(*                                                                         *)
(* A quantity is a natural number; a date is one too, NoDate standing for  *)
(* NULL.  All batches, inventories and warehouses are active.              *)
(***************************************************************************)
EXTENDS Sums, SequencesExt, FiniteSetsExt

CONSTANTS Items, Batches,
          NoItem,       \* currentItemId = null
          ItemOf,       \* [Batches -> Items]
          Usable,       \* [Batches -> Nat], usable_qty
          Requested,    \* [Items -> Nat], request_qty
          Orders,       \* the issuance orders an item may have
          Catalogues,   \* the batch rows and item flags to start from
          Today,        \* date.today()
          MaxOther,     \* bound: what other packages reserve together
          MaxAnswers,   \* bound: requests in flight
          MaxResets     \* bound: resets of closed drawers that are due

ASSUME DrawerAssumption ==
  /\ IsFiniteSet(Items) /\ IsFiniteSet(Batches) /\ NoItem \notin Items
  /\ ItemOf \in [Batches -> Items]
  /\ Usable \in [Batches -> Nat] /\ Requested \in [Items -> Nat]

NoDate == 0
FarDate == Today + 100

VARIABLES
  row,      \* [Batches -> [made, expiry, wh]]: batch_date, expiry_date,
            \* warehouse
  expires,  \* [Items -> BOOLEAN], can_expire_flag
  other,    \* [Batches -> Nat], what other packages reserve
  saved,    \* [Items -> [Batches -> Nat]], the package's rows
  form,     \* [Items -> [Batches -> Nat]], the hidden inputs of the page
  active,   \* the drawer is on the screen
  open,     \* currentItemId
  alloc,    \* currentAllocations; 0 for a batch that has no entry
  shown,    \* available_qty of the batches on the list, 0 for the others
  asked,    \* requests of loadBatches whose answer is still to come
  resets    \* timers of closeDrawer that are still to fire

stock == <<row, expires, other>>
browser == <<active, open, alloc, shown, asked, resets>>
vars == <<stock, saved, form, browser>>

None == [b \in Batches |-> 0]
Total(f) == SumOver(f, Batches)
reserved_qty(b) == other[b] + SumOver([i \in Items |-> saved[i][b]], Items)
Free(b) == Usable[b] - reserved_qty(b)
Expired(b) == row[b].expiry # NoDate /\ row[b].expiry < Today

(***************************************************************************)
(* The queries and sorts of the batch allocation service.  The query names *)
(* no order, so batches with equal keys come in any order.                 *)
(***************************************************************************)
get_available_batches(i) == {b \in Batches : ItemOf[b] = i /\ Free(b) > 0}
OrFar(d) == IF d = NoDate THEN FarDate ELSE d

Precedes(k, l) ==
  \E n \in DOMAIN k : k[n] < l[n] /\ \A m \in 1..(n - 1) : k[m] = l[m]
Sorted(S, Key(_)) ==
  {s \in SetToSeqs(S) :
     \A n \in DOMAIN s : \A m \in 1..(n - 1) : ~Precedes(Key(s[n]), Key(s[m]))}

Active(i, S) == {b \in S : ~(expires[i] /\ Expired(b)) /\ Free(b) > 0}
DrawerKey(i, b) ==
  IF expires[i] THEN <<OrFar(row[b].expiry), OrFar(row[b].made)>>
                  ELSE <<row[b].made>>
sort_batches_for_drawer(i, S) ==
  Sorted(Active(i, S), LAMBDA b : DrawerKey(i, b))

RuleKey(i, rule, b) ==
  CASE rule = "FEFO" /\ expires[i] ->
         <<OrFar(row[b].expiry), OrFar(row[b].made), -Free(b)>>
    [] rule = "LIFO" -> <<-row[b].made, -Free(b)>>
    [] OTHER -> <<row[b].made, -Free(b)>>
sort_batches_by_allocation_rule(i, rule, S) ==
  Sorted(Active(i, S), LAMBDA b : RuleKey(i, rule, b))

(***************************************************************************)
(* get_limited_batches_for_drawer for a request q = [item, alloc,          *)
(* remaining]: what the request calls its current allocations counts as    *)
(* available again; in each warehouse the list stops once it covers the    *)
(* remaining quantity, except that allocated batches are always listed if  *)
(* the query returned them, which it does only while something of them is  *)
(* free.  For the same reason no warehouse is dropped for its total.       *)
(***************************************************************************)
CalcAvailableReserved(q, b) == Usable[b] - reserved_qty(b)
calc_available_qty(q, b) == Usable[b] - (reserved_qty(b) - q.alloc[b])

ListStepStrict(q, acc, b) ==
  LET qty == acc.qty + calc_available_qty(q, b) IN
  IF qty <= q.remaining
  THEN [batches |-> acc.batches \union {b}, qty |-> qty, full |-> FALSE]
  ELSE acc
ListStep(q, acc, b) ==
  LET qty == acc.qty + calc_available_qty(q, b) IN
  IF q.alloc[b] > 0 \/ ~acc.full
  THEN [batches |-> acc.batches \union {b}, qty |-> qty,
        full |-> acc.full \/ qty >= q.remaining]
  ELSE acc

Limited(q, s) ==
  FoldLeft(LAMBDA acc, b : ListStep(q, acc, b),
           [batches |-> {}, qty |-> 0, full |-> FALSE], s).batches

\* The possible answers: the listed batches with their available quantities.
\* Sorting the batches of each warehouse and selecting each warehouse's
\* batches from the sorted list of all are the same.
Listed(q, s) ==
  UNION {Limited(q, SelectSeq(s, LAMBDA b : row[b].wh = w)) :
           w \in {row[b].wh : b \in Batches}}
get_limited_batches_for_drawer(q) ==
  {[b \in Batches |-> IF b \in Listed(q, s) THEN calc_available_qty(q, b) ELSE 0] :
     s \in sort_batches_for_drawer(q.item,
       {b \in get_available_batches(q.item) :
          calc_available_qty(q, b) > 0 \/ q.alloc[b] > 0})}
Shortfall(q, answer) == Max({0, q.remaining - Total(answer)})

(***************************************************************************)
(* The drawer: batch-allocation.js.                                        *)
(***************************************************************************)
\* A click on "Select Batches": the overlay keeps the page out of reach
\* while the drawer is on the screen.  The list stays hidden until an
\* answer arrives.
Request(i) ==
  [item |-> i, alloc |-> form[i], remaining |-> Requested[i] - Total(form[i])]
openDrawer(i) ==
  /\ ~active
  /\ Cardinality(asked) < MaxAnswers
  /\ active' = TRUE
  /\ open' = i
  /\ alloc' = form[i]
  /\ shown' = None
  /\ asked' = asked \union {Request(i)}
  /\ UNCHANGED <<stock, saved, form, resets>>

\* The rest of loadBatches, after its await: it fills the list of whichever
\* drawer is open by now.  With currentItemData = null it throws, and the
\* handler of the exception only shows an alert.
loadBatches(q) ==
  /\ asked' = asked \ {q}
  /\ IF open = NoItem THEN shown' = shown
     ELSE shown' \in get_limited_batches_for_drawer(q)
  /\ UNCHANGED <<stock, saved, form, active, open, alloc, resets>>

\* The request fails or is refused.
loadBatches_fails(q) ==
  /\ asked' = asked \ {q}
  /\ shown' = None
  /\ UNCHANGED <<stock, saved, form, active, open, alloc, resets>>

\* A quantity typed into a listed batch, or "Use Max": cut to what the list
\* says is available.  One above the requested quantity, which Apply would
\* refuse, is left out.
input(b) ==
  /\ active /\ open # NoItem /\ shown[b] > 0
  /\ \E qty \in 0..Requested[open] :
       alloc' = [alloc EXCEPT ![b] = Min({qty, shown[b]})]
  /\ UNCHANGED <<stock, saved, form, active, open, shown, asked, resets>>

\* closeDrawer and the reset it schedules.  Off the screen nothing reads the
\* drawer's state and openDrawer sets it anew, so the model clears it at
\* once; but the timer is not tied to the drawer that was closed, and a
\* reset that is due may hit the next one.
Cleared == open' = NoItem /\ alloc' = None /\ shown' = None
Close ==
  /\ resets < MaxResets
  /\ active' = FALSE
  /\ Cleared
  /\ resets' = resets + 1
  /\ UNCHANGED asked
closeDrawer ==
  /\ active
  /\ Close
  /\ UNCHANGED <<stock, saved, form>>
resetDrawer ==
  /\ resets > 0
  /\ resets' = resets - 1
  /\ Cleared
  /\ UNCHANGED <<stock, saved, form, active, asked>>

\* "Apply": the item's hidden inputs become currentAllocations.
Applied == [form EXCEPT ![open] = alloc]
applyAllocations ==
  /\ active /\ open # NoItem
  /\ Total(alloc) <= Requested[open]
  /\ form' = Applied
  /\ Close
  /\ UNCHANGED <<stock, saved>>

(***************************************************************************)
(* The server: saving the draft, automatic allocation, other packages.     *)
(***************************************************************************)
ValidReleasingForm(i, b, qty) ==
  /\ ItemOf[b] = i /\ ~Expired(b)
  /\ qty <= Usable[b] - (reserved_qty(b) - form[i][b])
ValidAnyItem(i, b, qty) ==
  ~Expired(b) /\ qty <= Usable[b] - (reserved_qty(b) - saved[i][b])
validate_batch_allocation(i, b, qty) ==
  /\ ItemOf[b] = i
  /\ ~Expired(b)
  /\ qty <= Usable[b] - (reserved_qty(b) - saved[i][b])

\* The post of the page.  A refused form saves nothing.  Either way the
\* browser leaves the page, and the next one is filled from the rows.
_save_draft ==
  LET valid == \A i \in Items :
        /\ \A b \in Batches : form[i][b] > 0 =>
             validate_batch_allocation(i, b, form[i][b])
        /\ Total(form[i]) <= Requested[i]
      rows == IF valid THEN form ELSE saved IN
  /\ ~active
  /\ saved' = rows
  /\ form' = rows
  /\ active' = FALSE /\ Cleared
  /\ asked' = {} /\ resets' = 0
  /\ UNCHANGED <<stock>>

\* auto_allocate_batches for an item issued by the given rule: the batches
\* in order, each for as much as it has.  It changes nothing.
TakeWhole(taken, b, qty) == [taken EXCEPT ![b] =
  IF Total(taken) < qty THEN Free(b) ELSE 0]
Take(taken, b, qty) == [taken EXCEPT ![b] =
  Min({Free(b), qty - Total(taken)})]
auto_allocate_batches(i, rule, qty) ==
  {FoldLeft(LAMBDA taken, b : Take(taken, b, qty), None, s) :
     s \in sort_batches_by_allocation_rule(i, rule, get_available_batches(i))}

\* Other packages, each held to the same validation.
reserve_other(b) ==
  /\ Free(b) > 0 /\ Total(other) < MaxOther
  /\ other' = [other EXCEPT ![b] = @ + 1]
  /\ UNCHANGED <<row, expires, saved, form, browser>>
release_other(b) ==
  /\ other[b] > 0
  /\ other' = [other EXCEPT ![b] = @ - 1]
  /\ UNCHANGED <<row, expires, saved, form, browser>>
Init ==
  /\ \E c \in Catalogues : row = c.row /\ expires = c.expires
  /\ other = None
  /\ saved = [i \in Items |-> None]
  /\ form = saved
  /\ active = FALSE /\ open = NoItem /\ alloc = None /\ shown = None
  /\ asked = {} /\ resets = 0

Next ==
  \/ \E i \in Items : openDrawer(i)
  \/ \E q \in asked : loadBatches(q) \/ loadBatches_fails(q)
  \/ \E b \in Batches : input(b) \/ reserve_other(b) \/ release_other(b)
  \/ closeDrawer \/ resetDrawer \/ applyAllocations
  \/ _save_draft

Spec == Init /\ [][Next]_vars
-----------------------------------------------------------------------------

\* A batch is never reserved beyond what it holds, although the drawer also
\* releases quantities the page never saved and others reserve while the
\* form is filled in: _save_draft releases only the package's own rows.
NeverOverReserved == \A b \in Batches : reserved_qty(b) <= Usable[b]

\* The package's rows name batches of their own item, although an answer
\* that arrives late puts another item's batches into the open drawer.
RowsOfTheirItem ==
  \A i \in Items, b \in Batches : saved[i][b] > 0 => ItemOf[b] = i

Better(i, b, c) ==
  IF expires[i]
  THEN \/ OrFar(row[b].expiry) < OrFar(row[c].expiry)
       \/ /\ row[b].expiry = row[c].expiry
          /\ OrFar(row[b].made) < OrFar(row[c].made)
  ELSE row[b].made < row[c].made

Unsaved(q) == q.alloc # saved[q.item]
Obtainable(b) == IF Expired(b) THEN 0 ELSE Usable[b] - other[b]

\* As long as the page shows the saved rows, the drawer offers of each
\* batch exactly what others have not reserved, and it warns of a shortage
\* only if the request cannot be filled.
OffersAreExact ==
  \A q \in asked : ~Unsaved(q) =>
    \A answer \in get_limited_batches_for_drawer(q) :
      /\ \A b \in Batches : answer[b] > 0 => answer[b] = Obtainable(b)
      /\ Shortfall(q, answer) > 0 =>
           Requested[q.item] > MapThenSumSet(Obtainable,
                                 {b \in Batches : ItemOf[b] = q.item})

\* The operators below read the batches only, and a page just loaded meets
\* these in every state they can be in: there, every request a page may send
\* is tried, with quantities the form may hold, saved or not, and with up to
\* one more than the item's stock still to be found.
PageLoaded == form = saved /\ ~active /\ asked = {} /\ resets = 0
Demands(i) == 1..(1 + MapThenSumSet(LAMBDA b : Usable[b], {b \in Batches : ItemOf[b] = i}))
Allocations(i) ==
  {a \in [Batches -> 0..Max(Range(Usable))] :
     \A b \in Batches : a[b] <= IF ItemOf[b] = i THEN Usable[b] ELSE 0}
Requests ==
  UNION {{[item |-> i, alloc |-> a, remaining |-> n] :
            a \in Allocations(i), n \in Demands(i) \union {0}} : i \in Items}

\* The list get_limited_batches_for_drawer cuts short never leaves out a
\* batch that has to go before one it offers in the same warehouse: earliest
\* expiry first, or oldest first when the item does not expire.
ListedInOrder ==
  PageLoaded =>
    \A q \in Requests : \A answer \in get_limited_batches_for_drawer(q) :
      \A b, c \in Batches :
        /\ ItemOf[b] = q.item /\ row[b].wh = row[c].wh
        /\ Free(b) > 0 /\ answer[b] = 0 /\ ~(expires[q.item] /\ Expired(b))
        /\ answer[c] > 0 /\ q.alloc[c] = 0
        => ~Better(q.item, b, c)

\* Cutting the list short hides no shortage and invents none: the shortfall
\* is the one that all batches of the query give, however many of them it
\* takes.  (A batch the package has reserved to the last unit is in neither:
\* the query does not return it, and nothing more is to be had of it.)
CutListSameShortfall ==
  PageLoaded =>
    \A q \in Requests : \A answer \in get_limited_batches_for_drawer(q) :
      LET full == MapThenSumSet(LAMBDA b : calc_available_qty(q, b),
                    Active(q.item, get_available_batches(q.item))) IN
      Shortfall(q, answer) = Max({0, q.remaining - full})

\* auto_allocate_batches hands out the requested quantity or all there is,
\* never more of a batch than is free, and leaves stock only in batches
\* that come later in the item's order than every batch it took from.
AutoAllocationExact ==
  PageLoaded => \A i \in Items, rule \in Orders : \A qty \in Demands(i) :
    LET free == Active(i, get_available_batches(i)) IN
    \A a \in auto_allocate_batches(i, rule, qty) :
      /\ Total(a) = Min({qty, MapThenSumSet(Free, free)})
      /\ \A b \in Batches : a[b] > 0 => b \in free /\ a[b] <= Free(b)
      /\ \A b \in free, c \in Batches :
           a[c] > 0 /\ a[b] < Free(b) /\ b # c =>
             CASE rule = "FEFO" /\ expires[i] -> ~Better(i, b, c)
               [] rule = "LIFO" -> row[b].made <= row[c].made
               [] OTHER -> row[b].made >= row[c].made
=============================================================================
