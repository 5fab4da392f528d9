# TLA+ specifications of DRIMS

DRIMS is a Flask/SQLAlchemy/PostgreSQL application that tracks relief stock from
donation to dispatch. These modules model the path of a relief request (draft,
submission, eligibility decision, preparation, approval and dispatch of its package
over reserved batches), the stock transactions that run meanwhile, and what surrounds
them: donations and their intake, the batch drawer in the browser, master data, account
requests, users and notifications.

## 1. The system

| part | code | state | operations that change it |
|---|---|---|---|
| package preparation and dispatch | `app/features/packaging.py` | `reliefpkg`, `reliefpkg_item`, `reliefrqst.status_code`, `reliefrqst_item` | save draft, submit, direct dispatch, manager's draft, approve with edits, review and approve, cancel, handover |
| inventory reservation service | `app/services/inventory_reservation_service.py` | `itembatch`, `inventory` | reserve, release, commit |
| item status rules | `app/services/item_status_service.py` | status cache | (pure checks) |
| batch allocation and drawer | `app/services/batch_allocation_service.py`, `static/js/batch-allocation.js` | the drawer and the form of a page | open, answer, edit, apply, close, reset, save; issuance orders, automatic allocation |
| relief requests and eligibility | `app/services/relief_request_service.py`, `app/features/requests_aidmgmt.py`, `eligibility.py` | `reliefrqst`, `reliefrqst_item` | create, edit items, submit, cancel, decide |
| donations and intake | `app/features/donations.py`, `donation_intake.py` | `donation*`, `dnintake*`, `itembatch`, `inventory` | enter, edit, delete, take into stock |
| optimistic locking | `app/core/optimistic_locking.py` | `version_nbr` of every table | compare on update |
| fulfilment lock | `app/services/fulfillment_lock_service.py` | `relief_request_fulfillment_lock` | acquire, release, expire (no caller) |
| master data | `app/features/custodians.py`, `warehouses.py`, `agencies.py`, `events.py`, `donors.py`, `item_categories.py`, `uom.py`, `items.py` | their tables | create, edit, deactivate, close, delete |
| account requests | `app/features/account_requests.py` | `agency_account_request` and its audit log | submit, start review, approve, deny |
| users | `app/features/user_admin.py` | `user`, `user_role`, `user_warehouse` | create, edit, activate, deactivate |
| notifications | `app/services/notification_service.py`, `app/features/notifications.py` | `notification` | send, read, delete, clear |
| dashboards, reports, profile, helpers | other `app/features`, `app/utils` | none | read only |

How they interact. An approved request (status SUBMITTED) is prepared by logistics
officers and managers. Each save of a package replaces its rows (`reliefpkg_item`:
batch and quantity) and shifts the batch reservations by the difference; the
warehouse row (`inventory`) is recomputed as the sum of its batches. Approval turns
reservations into deductions. Officers and managers work at the same time on
requests that want the same batches; expiry dates pass meanwhile. Intakes of donations
add to the same batches and inventory rows. Every page is shown, filled in and posted
later, and every handler reads before it writes, so what it has seen can be old.

Hard parts, and where they are listed: `PROJECT.json`, `hazards`. In short: the
reservation column is shared by all packages and maintained by deltas; cancellation,
direct dispatch and approval with edits take different paths through it; three
column scales meet in one transaction; statuses and quantities of an item are set
from a form under a database constraint that must never fire; and nearly every check
(a name is free, a row is not referred to, a version is current) is a query whose answer
may be old at the commit, so that only version columns, unique indexes and foreign keys
make it hold.

## 2. Modules

| module | models |
|---|---|
| `Sums` | SQL sums, `max(0, a - b)`, rounding of a stored number |
| `ItemStatus` | status rules and issued quantity of a request item |
| `Fulfilment` | all packaging handlers over batches and inventory rows |
| `ReviewedWorkflow` | the workflow the tabs offer, and the specifications that add one more handler |
| `StockLedger` | what reservations promise, in two actions: hold and ship |
| `ReliefRequest` | drafting, submission and eligibility decision, as steps of concurrent handlers |
| `StockTxn` | reservation, dispatch and donation intake as SQL statements of concurrent transactions |
| `PackageForms` | pages and forms of one package, and the versions they carry |
| `BatchDrawer` | the batch drawer in the browser, the lists it is given, automatic allocation |
| `Donations` | donation forms and intake, as steps of concurrent handlers |
| `MasterRows` | master tables: what the ORM and the database do at a commit |
| `Directory`, `Catalogue` | handlers of custodians, warehouses, agencies, events, donors; of categories, units, items |
| `MasterData` | both together with the rows that refer to them |
| `AccountRequests`, `UserAdmin`, `Notifications` | the handlers of these parts |
| `People` | these three and `PackageForms` in one specification |
| `MC*` | constants for TLC |
| `SumLemmas`, and `FulfilmentProofs` (with `ReviewedWorkflow`), `ReliefRequestProofs`, `StockTxnProofs`, `DonationsProofs`, `PeopleProofs`, `MasterDataProofs`, `BatchDrawerProofs` | proofs |

### Fulfilment, ReviewedWorkflow, StockLedger

**State.** `rqst[r]`, `ritem[r][i]`, `pkg[r]` and `alloc[r]` are the rows of
`reliefrqst`, `reliefrqst_item`, `reliefpkg` and `reliefpkg_item` (a function from
batches to quantities: a zero row records that the batch drawer was used); `usable`,
`reserved` are columns of `itembatch`, `invUsable`, `invReserved` of `inventory`;
`expired` is the set of batches whose expiry date has passed.

**Actions.** One per POST handler, named after it. A handler is one database
transaction: it commits all its changes or rolls back. The action is the handler that
commits; its guard collects every check that would have rolled it back. A POST with
stale versions changes nothing and is not an action. Form contents (rows and item
statuses) are chosen from small sets.

**Quantities** are natural numbers of the smallest unit a batch column holds (0.0001).
`Cent` is the number of units in 0.01, the scale of `inventory` and `reliefrqst_item`.
It is a constant: TLC uses 2, the proofs cover every `Cent`, 100 included.

**Grain.** `Fulfilment` takes a handler as one step, because its questions are about
sequences of handlers. The other modules split handlers where the order of their
statements matters.

### ReliefRequest, StockTxn

In `ReliefRequest` a POST loads the request row (`load_...`), may query the
item rows (`read_items`), and commits: `task[c]` is the handler of client `c` with the
copies in its session, `page[c]` what the client's last page showed. The version column
(`version_id_col`) makes an UPDATE conditional on the version loaded (`Unchanged`). In
`StockTxn` a transaction locks one row per step: `batch` and `inv` are committed rows,
`batchW` and `invW` what the holder of `lock[x]` has written, `tx[t]` what the
transaction has left to do. Commit publishes, `Abort` discards; `Abort` is always
possible, so a lost connection and every error path are covered. PostgreSQL's row locks,
READ COMMITTED and deadlock detector are modelled as the code uses them. The reserving and
dispatching transactions of `StockTxn` are those of the reviewed workflow: a package
reserves the rows of each save, has one transaction at a time, and is dispatched once, with
the rows it saved last. The saves update the request's row first and so exclude each
other. `review_approval`, `_approve_and_dispatch` and `_send_for_dispatch` do not, and are
left to `Fulfilment`.

**Left out of the actions** of these modules: notifications (module `Notifications`) and
audit columns, which no guard reads; item reasons; tracking numbers; missing batches and
NULL inventory ids (excluded by foreign keys and NOT NULL columns); status of batches and
inventory rows (nothing in `app/` deactivates them). `Fulfilment` has one package per
request; that there is never a second is `OnePackage` of `PackageForms`.

### PackageForms

`prq` holds the versions of the request and its items, `pkgs` the `reliefpkg` rows of the
request, `prows` the version of each row. `ppage[c]` is what the page of browser `c`
showed, `job[c]` the GET or POST in progress with what it has read. A handler begins
(`prepare_package`, `post_approve`, ...: reads the request and its items), reads the
package and its rows (`read_rows`), and shows a page or writes (`save`,
`dispatch_reviewed`, `cancel_preparation`). What protects a save is spread over three
version columns, each of which misses some handler. Rows are told apart by version;
quantities and stock stay with `Fulfilment`.

### BatchDrawer

`form` are the hidden inputs of the page, `alloc`, `open`, `active`, `shown` the
drawer's variables, `asked` the requests whose answer has not arrived, `resets` the
timers of `closeDrawer`. `saved` and `other` are the reservations of this and of other
packages. The sorted list, its early end and the automatic allocation are folds over the
batches, checked against what the issuance orders mean. What they compute depends on the
batches and on the request alone, so they are checked whenever a page has just been
loaded, for every request a page may send then and later: any quantities in the form, saved
or not, and a remaining quantity of up to one more than the stock (`Requests`, `Demands`).

### Donations

`donation`, `items`, `lines`, `intakes`, `batches`, `inv` are the tables; `page[c]` and
`task[c]` as in `ReliefRequest`. An intake loads the donation, reads items, batches and
inventory rows in steps of its own, and commits if every row it updates has the version
it read. Donations with status `E` stem from before entry and verification became one
step; they exist at the start (`Entered`) and are the only ones that can be edited.

Quantities arrive as decimals of any length; `itembatch` stores four decimals (`Tick`),
`donation_item`, `dnintake_item` and `inventory` two (`Cent`). The intake form is compared
with the stored donated quantity before anything is rounded, then each column rounds for
itself. The inputs of the intake form have step 0.01 (`intake_form.html:254`), which the
browser enforces and the handler does not; those of a donation item have step 0.0001.
`Drift` is what rounding may do: nothing while every form keeps to the step of 0.01, a
cent otherwise.

### MasterRows, Directory, Catalogue, MasterData

`db[t][x]` is row `x` of table `t`: name, status, kind, references, version. Every handler
checks and then fills `task[c]`; `Flush` applies it under the version condition, unique
indexes, foreign keys and CHECK constraints. Deleting a row first sets the references the
ORM knows of to NULL. `insert_dependent` and `update_dependent` stand for the handlers of
donations, requests and stock whose rows refer to master data. The columns of a row are
those some check or another table depends on.

### AccountRequests, UserAdmin, Notifications, People

`areq[r]` and `audit[r]` are a request and the events of its audit log. `users[u]` is a user
with roles and warehouses; an edit issues an UPDATE only when a column changed, then deletes
and inserts the assignments, so `replace_roles`, `replace_warehouses` and `commit_edit` are
steps. `rel[r]` is a relief request as far as its handlers send notifications, `notes` the
notifications in order. A handler that notifies several people inserts their rows in an
order the code does not fix, so the model takes any. `People` lets the handlers of one area
run in a behaviour: the properties of an area are about tables that only its own handlers
change, but for `user`, so `Notifications` runs together with handlers that switch users on
and off.

## 3. What TLC checks

| run | instance | shows |
|---|---|---|
| `fulfilment` | 2 requests, 1 batch, Cent 2 | `TypeOK`, `BatchBounds`, `InventoryMatches`, `ItemsConsistent`, `DispatchIsFinal` under all handlers |
| `reviewed` | 2 requests, 2 batches of one row, Cent 2 | `ReservedIsPending`, `NoDoubleAllocation`, `StockConserved`, `IssueMatchesShipped`, `ImplementsLedger` |
| `relief_request` | 2 clients, both directors, 1 request, 1 item, 2 headers | the version column detects every change (`CopiesCurrent`); no commit violates a CHECK (`RowConstraints`); `StatusMovesForward`, `DecisionStands`, `SubmittedHeaderWasShown` |
| `stock_txn` | 2 packages, 1 intake, 2 batches of one inventory row | `NoDoubleAllocation`, `BatchConserved`, `InventoryWithinUsable` under every interleaving of statements of the reviewed workflow, and `TransactionsEnd` |
| `batch_drawer` | 2 items, 3 batches, 2 warehouses, 4 catalogues | what is saved is sound although the drawer may show another item's or stale batches (`RowsOfTheirItem`, `NeverOverReserved`); the cut list hides no batch that goes first, and its shortage is the one of the full list (`ListedInOrder`, `CutListSameShortfall`); offers (`OffersAreExact`) and `AutoAllocationExact` |
| `donations` | 2 clients, 2 donations, 1 item, 2 warehouses, Tick 2, Cent 4 | one complete intake (`IntakeOnce`, `IntakeComplete`), stock is what intakes brought (`StockMatchesIntakes`), up to rounding |
| `master_data` | 2 clients, 2 rows and 2 names per table, 11 pairs of tables | `ClosedEventFinal`, `EditOverwritesShown` |
| `people` | 2 sessions in each of 4 areas | `AuditTellsStatus`; `StatusChangeWasSeen`; `DecisionAnnouncedOnce`, `StatusAnnounced`; `OnePackage`, `SaveReplacesShown`, `SavedAsEntered` |

Bounds. Two requests are the fewest that compete, and every reservation error found
needs at most three. Quantities 0, partial, odd (so that rounding happens) and full
cover the comparisons of the code. One officer and one manager per run: the handlers
compare roles, and the creator only in `SubmitForApproval`. The state spaces are finite
without further limits. `Reviewed.cfg` does not check deadlock: once everything is
dispatched, handed over and expired, the workflow has no step left.

`relief_request` needs two clients for every race it is about; versions are bounded by
`MaxVersion` (header edits) and `MaxItemVersion`, both high enough for an edit between
another client's load and commit. Clients are interchangeable, so symmetry is sound.
`stock_txn` uses two batches of one row, the fewest for a lost total and for a
deadlock, and a batch may receive stock while packages hold it. It does not check
deadlock: when every package is dispatched and the intake done, nothing is left.

`donations` has one stocked and one empty warehouse, so that an intake meets an existing
inventory row and a new one, and two donations, the fewest that share a NULL batch; one of
them was entered earlier. A unit is half a ten-thousandth (`Tick` 2), and `Cent` 4 keeps two
Ticks to a cent. The donated 7 is stored as 8; the counted 8 matches it in one part that
both columns keep, and for example 2 + 3 + 3 in parts that a line stores as 4 each, a cent
too much in all, while the batch stores the 2 as it is. No part of this instance rounds down
to a cent: that case is left to the proofs. `MaxVersion` and `MaxItemVersion` leave room for
an edit between a load and a commit. In `master_data` a behaviour runs the handlers of one
pair of tables of which one refers to the other: a race is between a change and a change of
what it depends on. `MaxCommits` 2 is one commit on each side; units also start with nothing
that refers to them, so that a code can change. `batch_drawer` bounds what others reserve
(`MaxOther`), the answers under way (`MaxAnswers` 2, for an answer that overtakes) and the
pending timers (`MaxResets`); `i1` is asked for 2 and has batches of 1 and 2, so that its
list can end early, at the last batch, or fall short; the catalogues have a batch that never
expires, one that has expired, one that expires today in another warehouse, and an item that
does not expire. `people` bounds commits (`MaxChanges`, `MaxSaves`, `MaxSwitches`), versions
and notifications; for this reason it does not check deadlock: a behaviour ends when they
are used up. The package area starts without a package or with one that was saved or
submitted, so that two further saves are enough for every race. Clients are interchangeable
where symmetry is used.

Names and addresses stay unique, references lead to rows, and an address has one open
account request because unique indexes and foreign keys say so. The models take these over
(`UniqueTables`, `EmailFree`, `AddressFree`, `ForeignKeys`, `CodeFree`), and no property
repeats them: the queries that handlers make first only choose the message. Two tables have
no index on the name: two forms posted at once can create a warehouse or an event of the
same name.

Liveness is claimed only of `StockTxn`. Its fairness is strong fairness of each open
transaction's next statement, or of its rollback once a check has refused or the
database has found a deadlock. The handlers run to the end without waiting for a
person, return an error and roll back on a refusal, and PostgreSQL grants a row to
waiting transactions in turn; strong fairness is needed because a row can be taken by
others again and again. Starting a transaction is not fair. What `TransactionsEnd` asks of
the code is that every path ends the transaction: a handler that returned its error and
kept its locks would block the others for ever. Deadlocks are left to the database:
`reserve_inventory` locks batches in the order of a Python set and `commit_inventory` in
the order of a query without ORDER BY, so two transactions can wait for each other,
although the comment at `packaging.py:1586` says that sorting the form's keys prevents it.
The property holds whatever the order, and says nothing about it.

No liveness is claimed of the other modules: every step is a person's decision, and
nothing in the code schedules one, so no fairness is justified.

**Disagreements between code and documentation** (runs expected to be violated, see
`findings`):

| run | what happens |
|---|---|
| `cancel_keeps_reservations` | cancelling deletes the rows before the release that reads them; the stock stays reserved |
| `direct_dispatch_overclaims` | a direct dispatch consumes another package's reservation; two packages then claim the same stock |
| `submitted_without_items` | a deletion that passed its draft check commits after a submission that had seen the item; item handlers do not touch the version of the request |
| `inventory_totals_race` | sums are read before the inventory row is locked, so an older sum can overwrite a newer total |

The inventory totals of `inventory_totals_race` stay stale until the next transaction
that touches the row; `InventoryWithinUsable` shows that they never let a CHECK
constraint fail, and `NoDoubleAllocation` that the batches themselves stay exact. Both, like
`BatchConserved`, are about the reviewed workflow: `direct_dispatch_overclaims` is the
counterexample to `NoDoubleAllocation` outside it, with handlers one after the other and no
race at all.

**Known disagreements without a run.** These were met while modelling. The code does what
is said here in the plainest sequence of steps, so a run would add nothing.

- `_approve_and_dispatch` replaces the rows without moving the reservation
  (`packaging.py:590`); a row lowered or removed in the approving form keeps its old
  reservation. The reviewed workflow therefore approves rows as they were saved.
- The review compares `issue_qty`, rounded to 0.01 and capped, with four-decimal rows
  under a tolerance of 0.001 (`packaging.py:201`), so a submitted package can be refused.
- `edit_items` does not pass the version of the item form on (`requests_aidmgmt.py:391`).
- Submissions are to be announced to "all Logistics Managers" (`packaging.py:1387`); the
  role code looked up, `LM`, is given to nobody.
- `delete_event` is documented as "only if not referenced" (`events.py:410`); nullable
  references are set to NULL by the ORM, and the event is deleted.
- "Always includes allocated batches (even if fully reserved)"
  (`SELECT_BATCHES_IMPLEMENTATION_VERIFIED.md:97`): the query drops a batch with nothing
  left to reserve (`batch_allocation_service.py:51`), allocated or not.
- A draft counts as pending, so that the submission after it is not announced at all
  (`packaging.py:1331`), and PART_FILLED is taken for "submitted" (`packaging.py:1088`).
- The drawer sends what is still to be allocated while the service counts the released
  allocations as available again, so a shortage can go unreported (`CutListSameShortfall`
  compares the two lists under the same count); unsaved quantities of
  the form are released too, so an offer can exceed the stock. A save refuses it
  (`NeverOverReserved`); `OffersAreExact` is about a page that shows the saved rows.
- An intake whose parts are 0.335 and 0.665 equals a donation of 1.00 when it is checked;
  its line stores 0.34 and 0.67, and its batch 0.3350 and 0.6650. A donated quantity below
  0.005 is stored as 0.00 and can never be taken in, because some of it must be usable.

**Races the code leaves open**, for which no property could hold and no document promises
one: two intakes can give two batches of an item the same number
(`donation_intake.py:398`); the donation form can set status P without an intake
(`donations.py:379`); a request can be created while its agency is being deactivated
(`agencies.py:440`), and stock received while its item is; two edits of a user can leave the
roles of both (`user_admin.py:495`), an edit page opened before a deactivation
re-activates the user, and two administrators can deactivate each other
(`user_admin.py:597`); a page that showed rows cancelled since can save them again
(`packaging.py:1799`); the review page approves the rows stored when it is posted, not
those it showed (`packaging.py:166`).

## 4. What is proved

`SumLemmas`. A sum is the size of a disjoint union of tokens, which makes its laws
(splitting, changing one term, monotonicity) consequences of cardinality theorems and needs
no induction. Also: rounding is monotone, exact on multiples of the unit, and moves a number
by at most half a unit; adding a multiple of the unit commutes with it (`RoundShift`); a
number rounded to ticks and the same number rounded to cents differ by at most half a cent
(`RoundTwice`); the rounded parts of a quantity add up to it within a unit (`RoundParts`).

`FulfilmentProofs`, for `Spec` and all constants. The inductive invariant is

    IInv == TypeOK /\ BatchBounds /\ InventoryMatches /\ ItemsConsistent /\ ReceivedWasDispatched

`BatchBounds` makes subtractions stay natural, and together with `InventoryMatches` and
monotone rounding gives `InventoryBounds`. `ItemsConsistent` needs that requested
quantities are multiples of `Cent` (the column holds two decimals). `DispatchIsFinal`
needs `ReceivedWasDispatched`: only a package that exists can have been received.

The second part of `FulfilmentProofs` is about `ReviewedSpec`. The invariant adds

    RInv == IInv /\ ReservedIsPending /\ StockConserved /\ IssueMatchesShipped

Every reviewed step is a `Next` step (so `IInv` is inherited); a save changes one term
of the sum `HeldOf`, an approval moves one term from `HeldOf` to `ShippedOf`.
`NoDoubleAllocation` and `PendingCanShip` follow from `ReservedIsPending` and
`BatchBounds`. `WorkflowImplementsLedger` is the refinement: saves map to `Hold`,
approvals to `Ship`, handovers and expiry to stuttering.

`ReliefRequestProofs`, for `Spec` of `ReliefRequest`. What a handler or a page holds of a
request is a snapshot: it is the stored row, or its version is older, or the row is
gone (`Snapshot`). The inductive invariant is

    IInv == TypeOK /\ MissingIsZero /\ TaskSnapshots /\ PageSnapshots /\ FormIsOfPage
              /\ MissingUnreviewed /\ RowConstraints

`CopiesCurrent` alone is not inductive: that a copy is never newer than the row, and that
a row which does not exist has no handler, must be carried along. A write that passes the
version check therefore starts from the stored row, so each step is an atomic step of one
row (`RowsAreAtomic`) and a simple step of one client. `ConstraintsHold`, `StatusForward`
and `DecisionsStand` follow from the row steps, `HeaderWasShown` from the snapshots of
pages.

The second part of `ReliefRequestProofs` is about `PSpec`, the specification of
`PackageForms`, for any desks and items of a request:

    PInv == PType /\ PkgSound /\ \A c \in Desks : PageHolds(c) /\ JobHolds(c)

Neither the request's nor the package's version covers every save. What a page showed is
current when *both* are, and a POST that has read the request is safe as long as the
versions of the request's items stay, because every save moves those (`NoSaveUnseen`,
`FormStoredAsEntered`). The same versions let only one of two first saves through
(`RequestHasOnePackage`). `PackagesStandAlone` of `PeopleProofs` shows that every behaviour
of `People` is one of `PSpec`, so the three theorems hold of what the run checks.

`StockTxnProofs`, for any packages, intakes, batches and inventory rows and every
interleaving of their SQL statements:

    TInv == /\ RowsType /\ TxnsType /\ LocksHeld /\ Ordered
            /\ \A t \in Txns : Holds(t)
            /\ NoDoubleAllocation /\ BatchConserved /\ InventoryWithinUsable

The three checked invariants speak of committed rows. To be inductive they need `Holds(t)`:
what transaction t has written to a batch it has locked differs from the committed row by
exactly t's own change, and a batch it has neither locked nor still to lock needs no
change. Row locks make a step of t disturb this for t alone. A commit then replaces one
term of each sum (`LocksPreventDoubleAllocation`, `NoUnitIsLost`). For
`StaleTotalsStayOrdered` no total has to be current: every `SELECT SUM` adds
batches each of which reserves no more than it has (`Ordered`).

`DonationsProofs`, for any donations, items, warehouses and clients:

    DInv == /\ RowsType /\ RowsSound /\ BroughtFinite
            /\ \A c \in Clients : TaskSound(c)
            /\ IntakeOnce /\ StockMatchesIntakes /\ IntakeComplete

`TaskSound` says what each handler knows: its copy of the donation, and the copy of each
NULL batch it found, is the row, or has an older version, or (the donation) the row is gone.
The commit of an intake therefore finds a donation that is still verified, hence without any
intake (`TakenInOnce`), and adds its lines to the batches as they are.
`StockIsWhatWasTakenIn` needs that stored rows are multiples of their units, so that an
inventory row grows by exactly what the line stores, and a batch by the same up to half a
cent. `NothingDonatedIsMissed` needs that only a donation entered with status E ever has its
items changed, and that three roundings move a sum by at most a cent. The laws of sums and
of rounding that a commit needs are collected in `Laws` and `RoundLaws`, premises of the
lemmas; `LawsHold` and `RoundLawsHold`, near the end, take them from `SumLemmas`, so that
the theorems rest on nothing but the assumptions below.

`PeopleProofs`, for any users, sessions, requests and contacts, has one invariant per area
of `People`.

- `AInv == AType /\ Copies /\ AuditTellsStatus`. A decision that passes the version check
  extends the audit log from the status it ends in (`AuditTrail`).
- `UInv`: a handler's copy of a user's columns is current or older, and an edit that has
  updated the row holds it alone until its commit (`StatusReplacedWasSeen`).
- `NInv`: after the flush a handler's copy of the relief request *is* the row, at most one
  handler has flushed a given request, and a decision is announced from one list, on which
  nobody occurs twice (`DecisionHeardOnce`).
- `TInv`, for `EveryoneIsTold`: the list of a handler that has flushed names every steady
  recipient of the status it is about to commit, because a steady user has been active with
  the same roles since the start; the commit inserts the notices of the whole list.

`MasterDataProofs`, for any names, identities, clients and forms:

    MInv == /\ DbType
            /\ DOMAIN page = Clients /\ DOMAIN task = Clients
            /\ \A c \in Clients : PageHolds(c) /\ TaskHolds(c)

Copies are as above, with one exception that the proof forced: a unit of measure that was
deleted and created again has its old code and version 1 again, so a copy of it may be
of another row. `EditsReplaceShown` is therefore about the other tables.
`ClosedStaysClosed` holds because the copies an edit or a closing works on were active.

`BatchDrawerProofs`, for any items, batches and quantities. `BInv` adds types to the two
checked invariants. Nothing is assumed of what the drawer shows: `_save_draft` checks each row
against the batches as they are, and since a batch has one item (`RowsNameTheirItem`), at
most one row of the package reserves it, so that the check of one row bounds the
whole reservation (`ReservationsFit`).

Assumptions:

- `Fulfilment`: finite sets of requests and batches; `Cent` positive; the constant functions
  have their types; requested quantities have two decimals; the sentinel `__PENDING_LM__`
  is not a user name.
- `ReliefRequest`: directors are clients, and `NULL` is neither a client nor a request;
  quantities and version bounds are natural.
- `StockTxn`: finitely many packages, intakes and batches, which are different things;
  quantities are natural; `itembatch` and `inventory` are different tables.
- `Donations`: finitely many donations, items and warehouses; quantities are natural; a cent
  is an even number of ticks; `NULL` names no donation and no batch.
- `UserAdmin`: the first users have all columns. `Notifications`: finitely many users. No
  other set of `People` needs to be finite.
- `MasterData`: forms carry typed rows, and the database satisfies its constraints at the
  start.
- `BatchDrawer`: finitely many items and batches, each batch of one item; quantities are
  natural.

`InventoryBounds`, `PendingCanShip` and the type correctness of `ReliefRequest` are proved;
no run repeats them.

Only model-checked:

- `TransactionsEnd`: liveness under fairness.
- `ListedInOrder`, `OffersAreExact`, `CutListSameShortfall` and `AutoAllocationExact` of
  `BatchDrawer`: they say what sorting, cutting and folding over a sequence of batches
  compute, which would need induction over data.
- The violations above: they are counterexamples on single instances.

## 5. Not modelled

- The fulfilment lock: no handler acquires it.
- `check_and_autoclose_request`, `mark_all_as_read`, two of the functions that create
  notifications, the drawer's `validatePickOrder`: no callers.
- Package intake, transfers and `batch_creation_service`: they use columns the models no
  longer have, always fail, and change nothing.
- `provision_account`: a stub.
- `create_request_on_behalf`: another page for the `create_draft_request` of
  `ReliefRequest`.
- Role and permission tables: static; the role a handler requires is part of its guard
  where it decides who competes.
- Dashboards, reports, formatting and time zone helpers: they read only. Profile pages: a
  user's own name, phone number, password and preferences, which no guard reads.
- Of `delete_warehouse`, the check for assigned users.
- Validation of formats (required fields, lengths, phone numbers): a form that fails it
  changes nothing.
