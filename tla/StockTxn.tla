------------------------------ MODULE StockTxn ------------------------------
(***************************************************************************)
(* The statements by which concurrent transactions change stock:           *)
(* reserve_inventory and commit_inventory                                  *)
(* (app/services/inventory_reservation_service.py) for a package, and the  *)
(* stock part of a donation intake (app/features/donation_intake.py).      *)
(*                                                                         *)
(* Under READ COMMITTED a query sees the committed rows and the            *)
(* transaction's own writes, and a locked row stays locked until its       *)
(* transaction ends.  A row therefore has a committed value and, while it  *)
(* is locked, the value its holder will commit.  Quantities are whole, so  *)
(* the narrower columns of inventory lose nothing; rounding is in module   *)
(* Fulfilment.                                                             *)
(*                                                                         *)
(* The packages are in the reviewed workflow: a package has one            *)
(* transaction at a time, its reservations are changed until it is sent,   *)
(* and it is sent once, with the rows last saved.  Nothing in the two      *)
(* services asks for that: reserve_inventory takes any package, and        *)
(* commit_inventory whatever rows its caller wrote, as often as it is      *)
(* called.  The handlers that save update the request's row first and so   *)
(* exclude each other; review_approval, _approve_and_dispatch and          *)
(* _send_for_dispatch do not.  Module Fulfilment leaves the workflow.      *)
(***************************************************************************)
EXTENDS Sums

CONSTANTS Packages,     \* packages being prepared
          Intakes,      \* donation intakes, each adding to one batch
          Batches,      \* rows of itembatch; an intake may add to an empty one
          Inventories,  \* rows of inventory
          BatchInv,     \* the inventory row of a batch
          InitialQty,   \* usable quantity of each batch at the start
          IntakeQty,    \* what an intake brings
          Quantities    \* quantities a package may ask of a batch

ASSUME StockAssumption ==
  /\ IsFiniteSet(Packages) /\ IsFiniteSet(Intakes) /\ IsFiniteSet(Batches)
  /\ BatchInv \in [Batches -> Inventories]
  /\ InitialQty \in [Batches -> Nat]
  /\ IntakeQty \in Nat
  /\ Quantities \subseteq Nat
ASSUME TxnAssumption == Packages \cap Intakes = {} /\ "free" \notin Packages \cup Intakes
\* itembatch and inventory are different tables.
ASSUME RowAssumption == Batches \cap Inventories = {} /\ "none" \notin Inventories

Txns == Packages \cup Intakes

VARIABLES
  batch,   \* batch[b]: committed usable_qty and reserved_qty of itembatch
  inv,     \* inv[v]: committed usable_qty and reserved_qty of inventory
  batchW,  \* batchW[b]: what the holder of b's lock has written
  invW,    \* invW[v]: what the holder of v's lock has written
  lock,    \* lock[x]: the transaction that holds row x, or "free"
  alloc,   \* alloc[p]: committed reliefpkg_item rows of p, batch to quantity
  sent,    \* packages that were dispatched
  brought, \* brought[t]: the batch intake t added to, once it committed
  tx       \* tx[t]: the transaction t is running

vars == <<batch, inv, batchW, invW, lock, alloc, sent, brought, tx>>

NoRows == [b \in {} |-> 0]
Qty(rows, b) == IF b \in DOMAIN rows THEN rows[b] ELSE 0
Positive(rows) == {b \in DOMAIN rows : rows[b] > 0}
Affected(S) == {BatchInv[b] : b \in S}
BatchesOf(v) == {b \in Batches : BatchInv[b] = v}
FormRows == UNION {[K -> Quantities] : K \in SUBSET Batches}

\* kind: what the transaction does; batches, invs: rows it has still to
\* lock; new: the rows it saves; sum: the totals it read, for inventory row
\* sum.of.
NoSum == [of |-> "none"]
Idle == [kind |-> "idle"]

-----------------------------------------------------------------------------
(* Statements *)

\* What transaction t sees of batch b.
Seen(t, b) == IF lock[b] = t THEN batchW[b] ELSE batch[b]

\* Faulty variant: a SELECT without FOR UPDATE waits for nobody.
TakeAnyway(t, x) == lock' = [lock EXCEPT ![x] = t]

\* t locks row x; a row that another transaction holds makes t wait.
Take(t, x) == lock[x] = "free" /\ lock' = [lock EXCEPT ![x] = t]

\* SELECT SUM(...) FROM itembatch WHERE inventory_id = v: the reserved total
\* in reserve_inventory, both totals in commit_inventory.
SumBatches(t, v) ==
  /\ tx[t].kind \in {"reserve", "commit"}
  /\ tx[t].batches = {}
  /\ tx[t].sum = NoSum
  /\ v \in tx[t].invs
  /\ LET total(column) == SumOver([b \in Batches |-> Seen(t, b)[column]], BatchesOf(v))
     IN  tx' = [tx EXCEPT ![t].sum =
                  [of |-> v, usable |-> total("usable"), reserved |-> total("reserved")]]
  /\ UNCHANGED <<batch, inv, batchW, invW, lock, alloc, sent, brought>>

-----------------------------------------------------------------------------
(* reserve_inventory *)

BeginReserve(p, new) ==
  LET old == alloc[p]
  IN  /\ tx[p] = Idle /\ p \notin sent
      /\ tx' = [tx EXCEPT ![p] =
           [kind |-> "reserve", new |-> new, sum |-> NoSum,
            batches |-> {b \in Batches : Qty(new, b) # Qty(old, b)},
            invs |-> Affected(DOMAIN old \cup Positive(new))]]
      /\ UNCHANGED <<batch, inv, batchW, invW, lock, alloc, sent, brought>>

\* SELECT ... FOR UPDATE of one batch, in the order of a Python set, and the
\* shift of its reserved quantity.
ReserveBatch(p, b) ==
  LET reserved == batch[b].reserved + Qty(tx[p].new, b)
      old == Qty(alloc[p], b)
  IN  /\ tx[p].kind = "reserve"
      /\ b \in tx[p].batches
      /\ Take(p, b)
      /\ reserved <= batch[b].usable + old
      /\ batchW' = [batchW EXCEPT ![b] =
                      [batch[b] EXCEPT !.reserved = Monus(reserved, old)]]
      /\ tx' = [tx EXCEPT ![p].batches = @ \ {b}]
      /\ UNCHANGED <<batch, inv, invW, alloc, sent, brought>>

\* Faulty variant: the reserved total is not compared with the usable one.
ReserveInventoryUnchecked(p, v) ==
  /\ tx[p].kind = "reserve"
  /\ tx[p].sum.of = v
  /\ Take(p, v)
  /\ invW' = [invW EXCEPT ![v] = [inv[v] EXCEPT !.reserved = tx[p].sum.reserved]]
  /\ tx' = [tx EXCEPT ![p].sum = NoSum, ![p].invs = @ \ {v}]
  /\ UNCHANGED <<batch, inv, batchW, alloc, sent, brought>>

\* SELECT ... FOR UPDATE of the inventory row the sum is for.
ReserveInventory(p, v) ==
  /\ tx[p].kind = "reserve"
  /\ tx[p].sum.of = v
  /\ Take(p, v)
  /\ tx[p].sum.reserved <= inv[v].usable
  /\ invW' = [invW EXCEPT ![v] = [inv[v] EXCEPT !.reserved = tx[p].sum.reserved]]
  /\ tx' = [tx EXCEPT ![p].sum = NoSum, ![p].invs = @ \ {v}]
  /\ UNCHANGED <<batch, inv, batchW, alloc, sent, brought>>

-----------------------------------------------------------------------------
(* commit_inventory *)

BeginCommit(p) ==
  /\ tx[p] = Idle /\ p \notin sent
  /\ Positive(alloc[p]) # {}
  /\ tx' = [tx EXCEPT ![p] =
       [kind |-> "commit", new |-> alloc[p], sum |-> NoSum,
        batches |-> Positive(alloc[p]), invs |-> Affected(Positive(alloc[p]))]]
  /\ UNCHANGED <<batch, inv, batchW, invW, lock, alloc, sent, brought>>

\* Faulty variant: everything reserved of the batch leaves with the package.
CommitBatchReserved(p, b) ==
  /\ tx[p].kind = "commit"
  /\ b \in tx[p].batches
  /\ Take(p, b)
  /\ batchW' = [batchW EXCEPT ![b] =
       [usable |-> batch[b].usable - batch[b].reserved, reserved |-> 0]]
  /\ tx' = [tx EXCEPT ![p].batches = @ \ {b}]
  /\ UNCHANGED <<batch, inv, invW, alloc, sent, brought>>

CommitBatch(p, b) ==
  /\ tx[p].kind = "commit"
  /\ b \in tx[p].batches
  /\ Take(p, b)
  /\ batch[b].usable >= alloc[p][b]
  /\ batchW' = [batchW EXCEPT ![b] =
       [usable |-> batch[b].usable - alloc[p][b],
        reserved |-> Monus(batch[b].reserved, alloc[p][b])]]
  /\ tx' = [tx EXCEPT ![p].batches = @ \ {b}]
  /\ UNCHANGED <<batch, inv, invW, alloc, sent, brought>>

CommitInventory(p, v) ==
  /\ tx[p].kind = "commit"
  /\ tx[p].sum.of = v
  /\ Take(p, v)
  /\ invW' = [invW EXCEPT ![v] =
       [usable |-> tx[p].sum.usable, reserved |-> tx[p].sum.reserved]]
  /\ tx' = [tx EXCEPT ![p].sum = NoSum, ![p].invs = @ \ {v}]
  /\ UNCHANGED <<batch, inv, batchW, alloc, sent, brought>>

-----------------------------------------------------------------------------
(* Donation intake: item by item, the batch and then its inventory row *)

BeginIntake(t, S) ==
  /\ tx[t] = Idle /\ brought[t] = {}
  /\ tx' = [tx EXCEPT ![t] = [kind |-> "intake", sum |-> NoSum, batches |-> S, invs |-> {}]]
  /\ UNCHANGED <<batch, inv, batchW, invW, lock, alloc, sent, brought>>

\* A new batch is an empty row until now; the batch without a number is
\* read and written back under its version, so only an update of the value
\* read goes through.
IntakeBatch(t, b) ==
  /\ tx[t].kind = "intake"
  /\ tx[t].invs = {}
  /\ b \in tx[t].batches
  /\ Take(t, b)
  /\ batchW' = [batchW EXCEPT ![b] = [batch[b] EXCEPT !.usable = @ + IntakeQty]]
  /\ tx' = [tx EXCEPT ![t].batches = @ \ {b}, ![t].invs = {BatchInv[b]}]
  /\ UNCHANGED <<batch, inv, invW, alloc, sent, brought>>

IntakeInventory(t, v) ==
  /\ tx[t].kind = "intake"
  /\ v \in tx[t].invs
  /\ Take(t, v)
  /\ invW' = [invW EXCEPT ![v] = [inv[v] EXCEPT !.usable = @ + IntakeQty]]
  /\ tx' = [tx EXCEPT ![t].invs = {}]
  /\ UNCHANGED <<batch, inv, batchW, alloc, sent, brought>>

-----------------------------------------------------------------------------
(* The end of a transaction *)

Unlocked(t) == [x \in DOMAIN lock |-> IF lock[x] = t THEN "free" ELSE lock[x]]

\* Nothing is left to do: db.session.commit() publishes every row t wrote.
Commit(t) ==
  LET kind == tx[t].kind
  IN  /\ kind # "idle"
      /\ tx[t].batches = {} /\ tx[t].invs = {}
      /\ batch' = [b \in Batches |-> Seen(t, b)]
      /\ inv' = [v \in Inventories |-> IF lock[v] = t THEN invW[v] ELSE inv[v]]
      /\ lock' = Unlocked(t)
      /\ alloc' = IF kind = "reserve" THEN [alloc EXCEPT ![t] = tx[t].new] ELSE alloc
      /\ sent' = IF kind = "commit" THEN sent \cup {t} ELSE sent
      /\ brought' = IF kind = "intake"
                      THEN [brought EXCEPT ![t] = {b \in Batches : lock[b] = t}]
                      ELSE brought
      /\ tx' = [tx EXCEPT ![t] = Idle]
      /\ UNCHANGED <<batchW, invW>>

\* Faulty variant: the handler of a package returns the error of
\* reserve_inventory or commit_inventory without a rollback, and its
\* connection keeps the rows it has locked.
AbortKeepingLocks(t) ==
  /\ tx[t] # Idle
  /\ batchW' = [b \in Batches |-> IF lock[b] = t THEN batch[b] ELSE batchW[b]]
  /\ invW' = [v \in Inventories |-> IF lock[v] = t THEN inv[v] ELSE invW[v]]
  /\ lock' = IF t \in Packages THEN lock ELSE Unlocked(t)
  /\ tx' = [tx EXCEPT ![t] = Idle]
  /\ UNCHANGED <<batch, inv, alloc, sent, brought>>

\* db.session.rollback(), after a refused check, an error or a lost
\* connection, or because the database chose t as a deadlock victim.
Abort(t) ==
  /\ tx[t] # Idle
  /\ batchW' = [b \in Batches |-> IF lock[b] = t THEN batch[b] ELSE batchW[b]]
  /\ invW' = [v \in Inventories |-> IF lock[v] = t THEN inv[v] ELSE invW[v]]
  /\ lock' = Unlocked(t)
  /\ tx' = [tx EXCEPT ![t] = Idle]
  /\ UNCHANGED <<batch, inv, alloc, sent, brought>>

\* The rows of which t needs one next.
Wanted(t) ==
  CASE tx[t] = Idle -> {}
    [] tx[t].kind = "intake" /\ tx[t].invs # {} -> tx[t].invs
    [] OTHER -> tx[t].batches \cup ({tx[t].sum.of} \ {NoSum.of})

Waits(t) == Wanted(t) # {} /\ \A x \in Wanted(t) : lock[x] \notin {"free", t}

\* The database's deadlock detector: t waits in a group whose members only
\* wait for each other.
Deadlocked(t) ==
  \E S \in SUBSET Txns :
    t \in S /\ \A s \in S : Waits(s) /\ \A x \in Wanted(s) : lock[x] \in S

\* A check of t's next statement refuses.
Refused(t) ==
  \/ /\ tx[t].kind = "reserve"
     /\ \/ \E b \in tx[t].batches :
             batch[b].reserved + Qty(tx[t].new, b) > batch[b].usable + Qty(alloc[t], b)
        \/ tx[t].sum # NoSum /\ tx[t].sum.reserved > inv[tx[t].sum.of].usable
  \/ /\ tx[t].kind = "commit"
     /\ \E b \in tx[t].batches : batch[b].usable < alloc[t][b]

-----------------------------------------------------------------------------
(* Specification *)

Init ==
  /\ batch = [b \in Batches |-> [usable |-> InitialQty[b], reserved |-> 0]]
  /\ inv = [v \in Inventories |->
       [usable |-> SumOver(InitialQty, BatchesOf(v)), reserved |-> 0]]
  /\ batchW = batch /\ invW = inv
  /\ lock = [x \in Batches \cup Inventories |-> "free"]
  /\ alloc = [p \in Packages |-> NoRows]
  /\ sent = {}
  /\ brought = [t \in Intakes |-> {}]
  /\ tx = [t \in Txns |-> Idle]

\* What one intake may bring: one batch for each of some items.
Deliveries == {S \in SUBSET Batches : S # {} /\ \A b, c \in S : BatchInv[b] = BatchInv[c] => b = c}

Begin(t) ==
  \/ t \in Packages /\ \E new \in FormRows : BeginReserve(t, new)
  \/ t \in Packages /\ BeginCommit(t)
  \/ t \in Intakes /\ \E S \in Deliveries : BeginIntake(t, S)

Statement(t) ==
  \/ \E b \in Batches : ReserveBatch(t, b)
  \/ \E b \in Batches : CommitBatch(t, b)
  \/ \E b \in Batches : IntakeBatch(t, b)
  \/ \E v \in Inventories : SumBatches(t, v)
  \/ \E v \in Inventories : ReserveInventory(t, v)
  \/ \E v \in Inventories : CommitInventory(t, v)
  \/ \E v \in Inventories : IntakeInventory(t, v)
  \/ Commit(t)

Next == \E t \in Txns : Begin(t) \/ Statement(t) \/ Abort(t)

Spec == Init /\ [][Next]_vars

\* The database runs the statements of an open transaction, grants a row to
\* those who wait for it in turn, and ends a deadlock; the handler rolls back
\* when a check refuses.
Progress(t) == Statement(t) \/ (Abort(t) /\ (Refused(t) \/ Deadlocked(t)))
Fairness == \A t \in Txns : SF_vars(Progress(t))
FairSpec == Spec /\ Fairness

-----------------------------------------------------------------------------
(* Properties *)

\* "prevent double-allocation across concurrent package fulfillment
\* operations": what the open packages hold of a batch is what the batch
\* counts as reserved, and no more than it has, however the transactions of
\* the reviewed workflow interleave.
Held(b) == [p \in Packages |-> IF p \in sent THEN 0 ELSE Qty(alloc[p], b)]

NoDoubleAllocation ==
  \A b \in Batches :
    /\ batch[b].reserved = SumOver(Held(b), Packages)
    /\ batch[b].reserved <= batch[b].usable

\* Every unit of a batch is accounted for: what is left and what was
\* dispatched is what was there and what intakes brought, so no update of a
\* batch is lost to a concurrent one.
Gone(b) == [p \in Packages |-> IF p \in sent THEN Qty(alloc[p], b) ELSE 0]
Came(b) == [t \in Intakes |-> IF b \in brought[t] THEN IntakeQty ELSE 0]

BatchConserved ==
  \A b \in Batches :
    batch[b].usable + SumOver(Gone(b), Packages) = InitialQty[b] + SumOver(Came(b), Intakes)

\* c_inventory_2 never refuses a commit: the totals of a warehouse, stale or
\* not, never reserve more than it has.
InventoryWithinUsable == \A v \in Inventories : inv[v].reserved <= inv[v].usable

\* Every transaction ends: no handler waits for a row for ever, because each
\* one that is refused half-way rolls back and frees what it has locked.
\* Deadlocks, which the order of the locks allows, are the database's to end.
TransactionsEnd == \A t \in Txns : tx[t] # Idle ~> tx[t] = Idle

\* "This ensures inventory.usable_qty and inventory.reserved_qty match the
\* sum of their batches" (commit_inventory); reserve_inventory says the same
\* of reserved_qty.
TotalsMatch ==
  \A v \in Inventories :
    /\ inv[v].usable = SumOver([b \in Batches |-> batch[b].usable], BatchesOf(v))
    /\ inv[v].reserved = SumOver([b \in Batches |-> batch[b].reserved], BatchesOf(v))

=============================================================================
