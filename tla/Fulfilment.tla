----------------------------- MODULE Fulfilment -----------------------------
(***************************************************************************)
(* Packaging and dispatch of approved relief requests                      *)
(* (app/features/packaging.py) over the inventory reservation service      *)
(* (app/services/inventory_reservation_service.py).                        *)
(*                                                                         *)
(* Each POST handler is one database transaction that either commits or    *)
(* rolls back; an action is a handler that commits, its guard everything   *)
(* that would have made it roll back or return early.  A POST refused by   *)
(* the version check changes nothing, so only POSTs that carry the current *)
(* versions appear.                                                        *)
(***************************************************************************)
EXTENDS ItemStatus

CONSTANTS Requests,     \* relief requests that are approved for fulfilment
          Items,        \* items of the catalogue
          Batches,      \* rows of itembatch
          Inventories,  \* rows of inventory: an item in a warehouse
          BatchInv,     \* the inventory row a batch belongs to
          InvItem,      \* the item of an inventory row
          RequestQty,   \* RequestQty[r][i], 0 when r does not ask for i
          InitialQty,   \* usable quantity of each batch at the start
          LOs, LMs,     \* users with the logistics officer / manager role
          Clerks,       \* inventory clerks
          ClerkInvs,    \* the inventory rows of a clerk's warehouses
          Quantities,   \* the quantities a form may carry
          FormStatuses  \* the item statuses a form may carry

Users == LOs \cup LMs

ASSUME FiniteAssumption ==
  /\ IsFiniteSet(Requests)
  /\ IsFiniteSet(Batches)
ASSUME StockAssumption ==
  /\ BatchInv \in [Batches -> Inventories]
  /\ InvItem \in [Inventories -> Items]
  /\ InitialQty \in [Batches -> Nat]
ASSUME RequestAssumption ==
  /\ RequestQty \in [Requests -> [Items -> Nat]]
  /\ \A r \in Requests, i \in Items : RequestQty[r][i] % Cent = 0
ASSUME FormAssumption ==
  /\ Quantities \subseteq Nat
  /\ FormStatuses \subseteq StatusCodes \cup {NoStatus}
  /\ ClerkInvs \in [Clerks -> SUBSET Inventories]
ASSUME SentinelAssumption == {"NULL", "__PENDING_LM__"} \cap Users = {}

VARIABLES
  rqst,         \* rqst[r]: status_code of reliefrqst
  ritem,        \* ritem[r][i]: status_code and issue_qty of reliefrqst_item
  pkg,          \* pkg[r]: the reliefpkg row of r
  alloc,        \* alloc[r]: the reliefpkg_item rows, batch to item_qty
  usable,       \* itembatch.usable_qty
  reserved,     \* itembatch.reserved_qty
  invUsable,    \* inventory.usable_qty
  invReserved,  \* inventory.reserved_qty
  expired       \* batches whose expiry date has passed

stock == <<usable, reserved, invUsable, invReserved>>
vars == <<rqst, ritem, pkg, alloc, usable, reserved, invUsable, invReserved, expired>>

-----------------------------------------------------------------------------
(* Rows and derived values *)

RequestItems(r) == {i \in Items : RequestQty[r][i] > 0}
BatchItem(b) == InvItem[BatchInv[b]]
BatchesOf(inv) == {b \in Batches : BatchInv[b] = inv}

\* The batches a form of request r may name.
RequestBatches(r) == {b \in Batches : BatchItem(b) \in RequestItems(r)}

\* A set of package item rows; rows of quantity 0 record that the batch
\* drawer was used.
IsRows(rows) == DOMAIN rows \subseteq Batches /\ rows \in [DOMAIN rows -> Nat]
NoRows == [b \in {} |-> 0]

Qty(rows, b) == IF b \in DOMAIN rows THEN rows[b] ELSE 0

\* Quantity of item i over all the rows.
Total(rows, i) == SumOver(rows, {b \in DOMAIN rows : BatchItem(b) = i})

\* status "none": r has no package; "P" pending; "D" dispatched
Package == [status   : {"none", "P", "D"},
            verify   : {"NULL", "__PENDING_LM__"} \cup LMs,
            creator  : Users \cup {"NULL"},
            received : BOOLEAN]

NoPackage == [status |-> "none", verify |-> "NULL", creator |-> "NULL", received |-> FALSE]

\* Faulty variant: an existing package is always set back to pending.
GetOrCreateReopening(r, u) ==
  IF pkg[r].status = "none"
    THEN [NoPackage EXCEPT !.status = "P", !.creator = u]
    ELSE [pkg[r] EXCEPT !.status = "P"]

\* The package of r once _process_allocations has run for user u.
GetOrCreate(r, u) ==
  IF pkg[r].status = "none"
    THEN [NoPackage EXCEPT !.status = "P", !.creator = u]
    ELSE pkg[r]

\* Batches whose quantity a form may set, each key with its quantity.
FormRows(r) == UNION {[K -> Quantities] : K \in SUBSET RequestBatches(r)}
FormStatus(r) == [RequestItems(r) -> FormStatuses]

-----------------------------------------------------------------------------
(* The inventory reservation service *)

\* The inventory rows touched by batches in S.
Affected(S) == {BatchInv[b] : b \in S}

Positive(rows) == {b \in DOMAIN rows : rows[b] > 0}

\* Faulty variants: no floor at zero; the old rows not subtracted; the
\* reservations of other packages overwritten.
ShiftedUnclamped(b, old, new) == reserved[b] + Qty(new, b) - Qty(old, b)
ShiftedAdding(b, old, new) == reserved[b] + Qty(new, b)
ShiftedOverwriting(b, old, new) ==
  IF Qty(new, b) # Qty(old, b) THEN Qty(new, b) ELSE reserved[b]

\* The reserved quantity of b when r's rows change from old to new.
Shifted(b, old, new) == Monus(reserved[b] + Qty(new, b), Qty(old, b))

\* Faulty variant: inventory rows that only the old rows touch keep their
\* totals.
reserve_inventory_new_only(old, new) ==
  LET touched == Affected(Positive(new))
      total(inv) == SumOver(reserved', BatchesOf(inv))
  IN  /\ \A b \in Batches :
            Qty(new, b) # Qty(old, b)
              => reserved[b] + Qty(new, b) - Qty(old, b) <= usable[b]
      /\ reserved' = [b \in Batches |-> Shifted(b, old, new)]
      /\ \A inv \in touched : total(inv) <= invUsable[inv]
      /\ invReserved' = [inv \in Inventories |->
            IF inv \in touched THEN Stored(total(inv)) ELSE invReserved[inv]]
      /\ UNCHANGED <<usable, invUsable>>

\* itembatch rows are shifted and checked first, then the totals of the
\* touched inventory rows are recomputed and checked.
reserve_inventory(old, new) ==
  LET touched == Affected(DOMAIN old \cup Positive(new))
      total(inv) == SumOver(reserved', BatchesOf(inv))
  IN  /\ \A b \in Batches :
            Qty(new, b) # Qty(old, b)
              => reserved[b] + Qty(new, b) - Qty(old, b) <= usable[b]
      /\ reserved' = [b \in Batches |-> Shifted(b, old, new)]
      /\ \A inv \in touched : total(inv) <= invUsable[inv]
      /\ invReserved' = [inv \in Inventories |->
            IF inv \in touched THEN Stored(total(inv)) ELSE invReserved[inv]]
      /\ UNCHANGED <<usable, invUsable>>

\* Subtracts the rows from the reservations, never below zero.
release_all_reservations(rows) ==
  LET touched == Affected(Positive(rows))
  IN  /\ reserved' = [b \in Batches |-> Monus(reserved[b], Qty(rows, b))]
      /\ invReserved' = [inv \in Inventories |->
            IF inv \in touched THEN Stored(SumOver(reserved', BatchesOf(inv)))
                               ELSE invReserved[inv]]
      /\ UNCHANGED <<usable, invUsable>>

\* Faulty variant: stock leaves but stays reserved.
commit_inventory_keeping(rows) ==
  LET touched == Affected(Positive(rows))
  IN  /\ \A b \in DOMAIN rows : rows[b] <= usable[b]
      /\ usable' = [b \in Batches |-> usable[b] - Qty(rows, b)]
      /\ invUsable' = [inv \in Inventories |->
            IF inv \in touched THEN Stored(SumOver(usable', BatchesOf(inv)))
                               ELSE invUsable[inv]]
      /\ UNCHANGED <<reserved, invReserved>>

\* The rows leave the stock and, never below zero, the reservations; the
\* inventory totals are recomputed.
commit_inventory(rows) ==
  LET touched == Affected(Positive(rows))
  IN  /\ \A b \in DOMAIN rows : rows[b] <= usable[b]
      /\ usable' = [b \in Batches |-> usable[b] - Qty(rows, b)]
      /\ reserved' = [b \in Batches |-> Monus(reserved[b], Qty(rows, b))]
      /\ invUsable' = [inv \in Inventories |->
            IF inv \in touched THEN Stored(SumOver(usable', BatchesOf(inv)))
                               ELSE invUsable[inv]]
      /\ invReserved' = [inv \in Inventories |->
            IF inv \in touched THEN Stored(SumOver(reserved', BatchesOf(inv)))
                               ELSE invReserved[inv]]

-----------------------------------------------------------------------------
(* _process_allocations: rows and statuses of a form checked and applied *)

\* The package's own rows are released when availability is computed.
validate_batch_allocation(b, qty, current) ==
  /\ b \notin expired
  /\ qty <= usable[b] - (reserved[b] - current)

HasActivity(r, rows, i) == \E b \in DOMAIN alloc[r] \cup DOMAIN rows : BatchItem(b) = i

\* The form's status for item i after defaulting.
NewStatus(r, rows, form, i) == requested_status(form[i], Total(rows, i), RequestQty[r][i])

ValidItem(r, rows, form, i, complete) ==
  LET total == Total(rows, i)
      asked == RequestQty[r][i]
  IN  /\ validate_quantity_limit(total, asked)
      /\ complete /\ total < asked => form[i] \in AllowsPartial
      /\ validate_status_transition(ritem[r][i].status, NewStatus(r, rows, form, i),
                                    total, asked, HasActivity(r, rows, i))

ValidForm(r, rows, form, complete) ==
  /\ \A b \in DOMAIN rows :
        rows[b] > 0 => validate_batch_allocation(b, rows[b], Qty(alloc[r], b))
  /\ \A i \in RequestItems(r) : ValidItem(r, rows, form, i, complete)

\* issue_qty as _process_allocations assigns it, before it is stored.
Issue(r, rows, form, i) ==
  issue_qty(NewStatus(r, rows, form, i), Total(rows, i), RequestQty[r][i])

ItemRow(r, rows, form, i) ==
  [status |-> NewStatus(r, rows, form, i), issue |-> Stored(Issue(r, rows, form, i))]

process_allocations(r, rows, form, complete) ==
  /\ ValidForm(r, rows, form, complete)
  /\ ritem' = [ritem EXCEPT ![r] = [i \in Items |->
                 IF i \in RequestItems(r) THEN ItemRow(r, rows, form, i) ELSE @[i]]]
  /\ alloc' = [alloc EXCEPT ![r] = rows]

-----------------------------------------------------------------------------
(* The request handlers *)

AllUnavailable(r, status) == \A i \in RequestItems(r) : status[i] \in Unavailable

\* The "data integrity" comparison of an item's issue_qty with its rows:
\* abs(issue_qty - total) <= 0.001, a tenth of Cent.
Matches(issue, total) ==
  /\ issue > 0 => total > 0
  /\ 10 * (issue - total) <= Cent
  /\ 10 * (total - issue) <= Cent

\* "Save Draft" on the prepare page (_save_draft).  Nothing looks at the
\* status of an existing package; one that was dispatched stays dispatched.
SaveDraft(r, u, rows, form) ==
  /\ u \in LOs \cup LMs
  /\ process_allocations(r, rows, form, FALSE)
  /\ pkg' = [pkg EXCEPT ![r] = [GetOrCreate(r, u) EXCEPT !.verify = "NULL"]]
  /\ rqst' = [rqst EXCEPT ![r] = "PART_FILLED"]
  /\ reserve_inventory(alloc[r], rows)
  /\ UNCHANGED expired

\* "Submit for Approval" (_submit_for_approval).  Setting a dispatched
\* package back to "P" violates c_reliefpkg_2 and rolls back.
SubmitForApproval(r, u, rows, form) ==
  /\ u \in LOs
  /\ pkg[r].status # "D"
  /\ pkg[r].status = "P" => pkg[r].creator = u
  /\ process_allocations(r, rows, form, FALSE)
  /\ pkg' = [pkg EXCEPT ![r] = [GetOrCreate(r, u) EXCEPT !.verify = "__PENDING_LM__"]]
  /\ rqst' = [rqst EXCEPT ![r] = "PART_FILLED"]
  /\ reserve_inventory(alloc[r], rows)
  /\ UNCHANGED expired

\* "Send for Dispatch" by a manager (_send_for_dispatch): stock is deducted
\* without the reservations having been moved to the form's rows first.
SendForDispatch(r, u, rows, form) ==
  /\ u \in LMs
  /\ process_allocations(r, rows, form, TRUE)
  /\ pkg' = [pkg EXCEPT ![r] = [GetOrCreate(r, u) EXCEPT !.status = "D", !.verify = u]]
  /\ rqst' = [rqst EXCEPT ![r] = "PART_FILLED"]
  /\ commit_inventory(rows)
  /\ UNCHANGED expired

\* "Save Draft" on the approval page (_save_draft_approval).
SaveDraftApproval(r, u, rows, form) ==
  /\ u \in LMs
  /\ pkg[r].status = "P"
  /\ process_allocations(r, rows, form, FALSE)
  /\ reserve_inventory(alloc[r], rows)
  /\ UNCHANGED <<pkg, rqst, expired>>

\* "Approve & Dispatch" with the form's rows (_approve_and_dispatch): like a
\* direct dispatch it commits the new rows while the reservations are those
\* of the old ones.  issue_qty is set to the total once they match.
ApproveAndDispatch(r, u, rows, form) ==
  LET status == [i \in RequestItems(r) |-> NewStatus(r, rows, form, i)]
  IN  /\ u \in LMs
      /\ pkg[r].status = "P"
      /\ ValidForm(r, rows, form, FALSE)
      /\ Positive(rows) = {} => AllUnavailable(r, status)
      /\ \A i \in RequestItems(r) : Matches(Issue(r, rows, form, i), Total(rows, i))
      /\ ritem' = [ritem EXCEPT ![r] = [i \in Items |->
                     IF i \in RequestItems(r)
                       THEN [status |-> status[i], issue |-> Stored(Total(rows, i))]
                       ELSE @[i]]]
      /\ alloc' = [alloc EXCEPT ![r] = rows]
      /\ pkg' = [pkg EXCEPT ![r].status = "D", ![r].verify = u]
      /\ rqst' = [rqst EXCEPT ![r] = "PART_FILLED"]
      /\ commit_inventory(rows)
      /\ UNCHANGED expired

\* Faulty variant: the stored rows are not compared with issue_qty.
ReviewApprovalUnverified(r, u) ==
  LET status == [i \in RequestItems(r) |-> ritem[r][i].status]
  IN  /\ u \in LMs
      /\ pkg[r].status = "P"
      /\ DOMAIN alloc[r] = {} => AllUnavailable(r, status)
      /\ pkg' = [pkg EXCEPT ![r].status = "D", ![r].verify = u]
      /\ rqst' = [rqst EXCEPT ![r] = "PART_FILLED"]
      /\ commit_inventory(alloc[r])
      /\ UNCHANGED <<ritem, alloc, expired>>

\* Faulty variant: a package that was dispatched can be approved again.
ReviewApprovalAgain(r, u) ==
  /\ u \in LMs
  /\ pkg[r].status # "none"
  /\ DOMAIN alloc[r] # {}
  /\ \A i \in RequestItems(r) : Matches(ritem[r][i].issue, Total(alloc[r], i))
  /\ pkg' = [pkg EXCEPT ![r].status = "D", ![r].verify = u]
  /\ rqst' = [rqst EXCEPT ![r] = "PART_FILLED"]
  /\ commit_inventory(alloc[r])
  /\ UNCHANGED <<ritem, alloc, expired>>

\* "Approve" on the read-only review page (review_approval): the stored rows
\* are dispatched, of a submitted package or of a draft alike.
ReviewApproval(r, u) ==
  LET status == [i \in RequestItems(r) |-> ritem[r][i].status]
  IN  /\ u \in LMs
      /\ pkg[r].status = "P"
      /\ DOMAIN alloc[r] = {} => AllUnavailable(r, status)
      /\ \A i \in RequestItems(r) : Matches(ritem[r][i].issue, Total(alloc[r], i))
      /\ \/ \E i \in RequestItems(r) : ritem[r][i].issue > 0
         \/ AllUnavailable(r, status)
      /\ pkg' = [pkg EXCEPT ![r].status = "D", ![r].verify = u]
      /\ rqst' = [rqst EXCEPT ![r] = "PART_FILLED"]
      /\ commit_inventory(alloc[r])
      /\ UNCHANGED <<ritem, alloc, expired>>

\* "Cancel" (cancel_preparation), by any user and whatever the package's
\* status: the rows are deleted first, so the release that follows finds
\* none.
CancelPreparation(r) ==
  /\ pkg[r].status # "none"
  /\ alloc' = [alloc EXCEPT ![r] = NoRows]
  /\ release_all_reservations(alloc'[r])
  /\ UNCHANGED <<rqst, ritem, pkg, expired>>

\* A clerk confirms the handover (mark_handover).
MarkHandover(r, c) ==
  /\ pkg[r].status = "D"
  /\ ~pkg[r].received
  /\ \E b \in DOMAIN alloc[r] : BatchInv[b] \in ClerkInvs[c]
  /\ pkg' = [pkg EXCEPT ![r].received = TRUE]
  /\ UNCHANGED <<rqst, ritem, alloc, stock, expired>>

\* The expiry date of a batch passes.
BatchExpires(b) ==
  /\ b \notin expired
  /\ expired' = expired \cup {b}
  /\ UNCHANGED <<rqst, ritem, pkg, alloc, stock>>

Init ==
  /\ rqst = [r \in Requests |-> "SUBMITTED"]
  /\ ritem = [r \in Requests |-> [i \in Items |-> [status |-> "R", issue |-> 0]]]
  /\ pkg = [r \in Requests |-> NoPackage]
  /\ alloc = [r \in Requests |-> NoRows]
  /\ usable = InitialQty
  /\ reserved = [b \in Batches |-> 0]
  /\ invUsable = [inv \in Inventories |-> Stored(SumOver(InitialQty, BatchesOf(inv)))]
  /\ invReserved = [inv \in Inventories |-> 0]
  /\ expired = {}

\* A step of user u with a form.
FormStep(r, u, rows, form) ==
  \/ SaveDraft(r, u, rows, form)
  \/ SubmitForApproval(r, u, rows, form)
  \/ SendForDispatch(r, u, rows, form)
  \/ SaveDraftApproval(r, u, rows, form)
  \/ ApproveAndDispatch(r, u, rows, form)

Next ==
  \/ \E r \in Requests, u \in Users : \E rows \in FormRows(r), form \in FormStatus(r) :
        FormStep(r, u, rows, form)
  \/ \E r \in Requests, u \in Users : ReviewApproval(r, u)
  \/ \E r \in Requests : CancelPreparation(r)
  \/ \E r \in Requests, c \in Clerks : MarkHandover(r, c)
  \/ \E b \in Batches : BatchExpires(b)

Spec == Init /\ [][Next]_vars

-----------------------------------------------------------------------------
(* Properties *)

ItemRows == [status : StatusCodes, issue : Nat]

\* Every table holds rows of its type.
TypeOK ==
  /\ rqst \in [Requests -> {"SUBMITTED", "PART_FILLED"}]
  /\ ritem \in [Requests -> [Items -> ItemRows]]
  /\ pkg \in [Requests -> Package]
  /\ alloc = [r \in Requests |-> alloc[r]] /\ \A r \in Requests : IsRows(alloc[r])
  /\ usable \in [Batches -> Nat]
  /\ reserved \in [Batches -> Nat]
  /\ invUsable \in [Inventories -> Nat]
  /\ invReserved \in [Inventories -> Nat]
  /\ expired \in SUBSET Batches

\* No batch is reserved beyond its usable quantity, through any sequence of
\* drafts, approvals, dispatches and cancellations: the database check
\* c_itembatch_2b never has to reject what the reservation service writes.
BatchBounds == \A b \in Batches : reserved[b] <= usable[b]

\* The warehouse-level row of inventory holds the (rounded) sums of its
\* batches after every handler, although each handler recomputes only the
\* rows its own batches touch.
InventoryMatches ==
  \A inv \in Inventories :
    /\ invUsable[inv] = Stored(SumOver(usable, BatchesOf(inv)))
    /\ invReserved[inv] = Stored(SumOver(reserved, BatchesOf(inv)))

\* No inventory row is reserved beyond its usable quantity, rounding
\* included: the database check c_inventory_2 never has to reject a save.
InventoryBounds == \A inv \in Inventories : invReserved[inv] <= invUsable[inv]

\* The status and issued quantity of an item always satisfy
\* c_reliefrqst_item_2a, whatever status a form asked for and whatever
\* rounding the column does.
ItemsConsistent ==
  \A r \in Requests : \A i \in RequestItems(r) :
    StatusFitsIssue(ritem[r][i].status, ritem[r][i].issue, RequestQty[r][i])

\* A dispatched package is never pending again and a handover never undone,
\* although drafts can still be saved on it.
DispatchIsFinal ==
  [][\A r \in Requests : /\ pkg[r].status = "D" => pkg'[r].status = "D"
                         /\ pkg[r].received => pkg'[r].received]_vars

=============================================================================
