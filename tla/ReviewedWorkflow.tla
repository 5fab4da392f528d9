-------------------------- MODULE ReviewedWorkflow --------------------------
(***************************************************************************)
(* The workflow the packaging tabs offer: a package is drafted, submitted, *)
(* edited and saved by the manager, approved as saved (on the review page  *)
(* or on the approval page without changing its rows) and handed over.     *)
(* The tabs list a request for preparation only until its package is       *)
(* dispatched (pending_fulfillment skips requests "with pending approval   *)
(* or dispatched packages"), so no draft is saved after that.              *)
(*                                                                         *)
(* The handlers left out (direct dispatch, approval of rows edited in the  *)
(* same form, cancellation, drafts after dispatch) do not keep the         *)
(* reservations in step with the packages; the first three are put back,   *)
(* one at a time, in the specifications at the end of the module.          *)
(***************************************************************************)
EXTENDS Fulfilment

\* Saving, submitting or editing a package that was not dispatched.
Prepare(r, u, rows, form) ==
  /\ pkg[r].status # "D"
  /\ \/ SaveDraft(r, u, rows, form)
     \/ SubmitForApproval(r, u, rows, form)
     \/ SaveDraftApproval(r, u, rows, form)

\* "Approve & Dispatch" with the rows the package already has.
ApproveAsSaved(r, u, form) ==
  \E rows \in FormRows(r) : rows = alloc[r] /\ ApproveAndDispatch(r, u, rows, form)

ReviewedNext ==
  \/ \E r \in Requests, u \in Users : \E rows \in FormRows(r), form \in FormStatus(r) :
        Prepare(r, u, rows, form)
  \/ \E r \in Requests, u \in Users : \E form \in FormStatus(r) : ApproveAsSaved(r, u, form)
  \/ \E r \in Requests, u \in Users : ReviewApproval(r, u)
  \/ \E r \in Requests, c \in Clerks : MarkHandover(r, c)
  \/ \E b \in Batches : BatchExpires(b)

ReviewedSpec == Init /\ [][ReviewedNext]_vars

-----------------------------------------------------------------------------
(* What the packages claim of each batch *)

Open(r) == pkg[r].status # "D"
HeldBy(r) == [b \in Batches |-> IF Open(r) THEN Qty(alloc[r], b) ELSE 0]
ShippedBy(r) == [b \in Batches |-> IF Open(r) THEN 0 ELSE Qty(alloc[r], b)]

\* What all packages together hold, or took, of a batch.
HeldOf(b) == SumOver([r \in Requests |-> HeldBy(r)[b]], Requests)
ShippedOf(b) == SumOver([r \in Requests |-> ShippedBy(r)[b]], Requests)

\* The reserved quantity of a batch is exactly what the packages not yet
\* dispatched have allocated of it: the reservation deltas that every save
\* applies never lose or keep anything over edits, resubmissions and
\* dispatches of several requests.
ReservedIsPending == \A b \in Batches : reserved[b] = HeldOf(b)

\* Packages not yet dispatched never claim more of a batch than it has left:
\* the double allocation that the reservation service exists to prevent.
NoDoubleAllocation == \A b \in Batches : HeldOf(b) <= usable[b]

\* Nothing of a batch is lost or shipped twice: what is left and what the
\* dispatched packages list add up to what was there.
StockConserved == \A b \in Batches : usable[b] + ShippedOf(b) = InitialQty[b]

\* When a manager approves a package, commit_inventory finds the quantities
\* that were reserved for it, whatever other packages did in between.
PendingCanShip ==
  \A r \in Requests : Open(r) => \A b \in DOMAIN alloc[r] : alloc[r][b] <= usable[b]

\* At most half a cent apart.
WithinRounding(issue, total) == 2 * (issue - total) <= Cent /\ 2 * (total - issue) <= Cent

\* The issued quantity recorded for the agency is the quantity that left the
\* warehouses, up to the rounding of the column, although the status a form
\* asks for decides what _process_allocations records.
IssueMatchesShipped ==
  \A r \in Requests : pkg[r].status = "D" =>
    \A i \in RequestItems(r) : WithinRounding(ritem[r][i].issue, Total(alloc[r], i))

\* The workflow implements the ledger of claims.
Ledger == INSTANCE StockLedger WITH
            Claims  <- Requests,
            Lots    <- Batches,
            Opening <- InitialQty,
            SumOver <- SumOver,
            held    <- [r \in Requests |-> HeldBy(r)],
            shipped <- [r \in Requests |-> ShippedBy(r)],
            onHand  <- usable,
            closed  <- {r \in Requests : ~Open(r)}

\* Every behaviour of the reviewed workflow is a behaviour of the ledger:
\* each save is a Hold, each approval a Ship, all else changes no claim.
ImplementsLedger == Ledger!LedgerSpec

-----------------------------------------------------------------------------
(* The workflow with one more handler *)

WithForm(Step(_, _, _, _)) ==
  \E r \in Requests, u \in Users : \E rows \in FormRows(r), form \in FormStatus(r) :
    pkg[r].status # "D" /\ Step(r, u, rows, form)

CancelSpec == Init /\ [][ReviewedNext \/ \E r \in Requests : CancelPreparation(r)]_vars
DirectSpec == Init /\ [][ReviewedNext \/ WithForm(SendForDispatch)]_vars

=============================================================================
