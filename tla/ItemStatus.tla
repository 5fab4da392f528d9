----------------------------- MODULE ItemStatus -----------------------------
(***************************************************************************)
(* The rules for the status and the issued quantity of a relief request    *)
(* item: app/services/item_status_service.py and the per-item part of      *)
(* _process_allocations (app/features/packaging.py).                       *)
(*                                                                         *)
(* Quantities are natural numbers of the smallest quantity a batch column  *)
(* holds: itembatch and reliefpkg_item are numeric(15,4) and the batch     *)
(* drawer steps by 0.0001.  reliefrqst_item and inventory are              *)
(* numeric(12,2): a value stored there is rounded to a multiple of Cent,   *)
(* the number of units in 0.01 (100 in the database, any Cent here).       *)
(***************************************************************************)
EXTENDS Sums

CONSTANTS Cent,            \* batch units in 0.01
          ActiveStatuses   \* the codes the status cache holds (active_flag)

\* R requested, U unavailable, W awaiting, D denied, P partly filled,
\* L allowed limit, F filled
StatusCodes == {"R", "U", "W", "D", "P", "L", "F"}

\* The form left the status field of an item out.
NoStatus == "none"

\* Statuses under which nothing is issued for the item.
Unissued == {"R", "U", "W", "D"}

\* The statuses that let an empty package be dispatched.
Unavailable == {"U", "D", "W"}

\* The statuses that waive the completeness check of a direct dispatch.
AllowsPartial == {"U", "D", "W", "L", "P"}

ASSUME CentAssumption == Cent \in Nat \ {0}
ASSUME ActiveAssumption == ActiveStatuses \subseteq StatusCodes

\* The codes that may be chosen by hand for this allocation.
compute_allowed_statuses(total, requested, activity) ==
  ActiveStatuses \cap
    (CASE total = 0 /\ ~activity          -> {"R", "U", "D", "W"}
       [] total = 0 /\ activity           -> {"U", "D", "W"}
       [] total # 0 /\ total < requested  -> {"P", "L"}
       [] total # 0 /\ total >= requested -> {"F"})

\* Keeping the current status is always allowed.
validate_status_transition(current, new, total, requested, activity) ==
  \/ current = new
  \/ new \in compute_allowed_statuses(total, requested, activity)

validate_quantity_limit(total, requested) == total <= requested

\* The status given to an item whose form field is empty.
calculated_status(total, requested) ==
  CASE total = 0                      -> "R"
    [] total # 0 /\ total >= requested -> "F"
    [] total # 0 /\ total < requested  -> "P"

requested_status(form, total, requested) ==
  IF form = NoStatus THEN calculated_status(total, requested) ELSE form

\* A quantity as reliefrqst_item and inventory store it.
Stored(n) == RoundTo(n, Cent)

\* Faulty variant: a partial fill issues the whole total, without the margin
\* of 0.01 that keeps it below the request once it is rounded.
issue_qty_without_margin(status, total, requested) ==
  CASE status \in Unissued   -> 0
    [] status \in {"P", "L"} -> total
    [] status = "F"          -> requested

\* The issued quantity a status forces, whatever was really allocated.
issue_qty(status, total, requested) ==
  CASE status \in Unissued   -> 0
    [] status \in {"P", "L"} -> IF total < requested - Cent THEN total
                                                           ELSE requested - Cent
    [] status = "F"          -> requested

\* What the database demands of an item row (c_reliefrqst_item_2a).
StatusFitsIssue(status, issue, requested) ==
  /\ status \in Unissued   => issue = 0
  /\ status \in {"P", "L"} => issue < requested
  /\ status = "F"          => issue = requested

=============================================================================
