------------------------------ MODULE MasterRows ------------------------------
(***************************************************************************)
(* The tables of master data, and what SQLAlchemy and PostgreSQL do with   *)
(* their rows when a handler commits.  The handlers are in modules         *)
(* Directory and Catalogue; all have one shape: a form or a click is       *)
(* checked against what the handler reads, then one row is inserted,       *)
(* updated or deleted and committed, with other handlers in between.       *)
(*                                                                         *)
(* Every model has version_nbr as its version_id_col                       *)
(* (app/core/optimistic_locking.py), so an UPDATE or DELETE applies only to *)
(* the version the handler loaded.  Deleting a row first sets the          *)
(* references that the ORM knows of to NULL, which fails for a column that *)
(* is NOT NULL and for a CHECK constraint that needs the reference.        *)
(***************************************************************************)
EXTENDS Naturals

CONSTANTS Names,     \* names a form may carry
          MaxId,     \* rows of a table
          Clients,   \* browser tabs; a tab shows one page at a time
          Initial,   \* Initial[a]: the tables to start from in area a
          Areas,     \* sets of tables; the handlers of one of them run
          MaxCommits \* changes committed in a behaviour

\* The reference columns of each table and the table each one points to.
\* donation, request and inventory belong to other modules; their rows
\* appear here as what refers to master data.
Columns ==
  [custodian |-> <<>>,
   event     |-> <<>>,
   donor     |-> <<>>,
   category  |-> <<>>,
   uom       |-> <<>>,
   warehouse |-> [custodian_id |-> "custodian"],
   agency    |-> [warehouse_id |-> "warehouse", ineligible_event_id |-> "event"],
   item      |-> [category_id |-> "category", default_uom_code |-> "uom"],
   donation  |-> [donor_id |-> "donor", event_id |-> "event", custodian_id |-> "custodian"],
   request   |-> [agency_id |-> "agency", eligible_event_id |-> "event"],
   inventory |-> [inventory_id |-> "warehouse", item_id |-> "item", uom_code |-> "uom"]]

Tables == DOMAIN Columns
Ids == 1 .. MaxId
NULL == 0

Nullable == {"ineligible_event_id", "eligible_event_id", "warehouse_id"}

\* Tables with a unique index on the name.  warehouse_name and event_name
\* have none; uom_code is the primary key.
UniqueTables == {"custodian", "donor", "category", "item", "agency"}

\* kind: the agency_type; version 0 stands for no row.
RefsOf(t) == [DOMAIN Columns[t] -> Ids \cup {NULL}]
Kinds == {"SHELTER", "DISTRIBUTOR"}

\* "A" active, "I" inactive, "C" closed; an identity that was never used has
\* status "none", one whose row is gone "deleted".
RowsOf(t) ==
  [name : Names, status : {"A", "I", "C", "none", "deleted"}, kind : Kinds \cup {"none"},
   ref : RefsOf(t), version : Nat]

VARIABLES
  db,      \* db[t][x]: row x of table t
  page,    \* page[c]: the edit form client c has open
  task,    \* task[c]: the handler that is about to flush
  area,    \* the tables whose handlers run
  commits  \* how many changes were committed

vars == <<db, page, task, area, commits>>

\* Identities come from a sequence and are not used again, but for uom_code,
\* which is the code itself.
Fresh(t, x) == db[t][x].version = 0 /\ (t # "uom" => db[t][x].status = "none")

Exists(t, x) == db[t][x].version > 0
Live(t) == {x \in Ids : Exists(t, x)}
Idle == [op |-> "idle"]
NoForm == [t |-> "none"]

-----------------------------------------------------------------------------
(* Constraints of the database *)

\* The rows of table s that refer to row x of table t.
Referring(s, t, x) ==
  {y \in Live(s) : \E k \in DOMAIN Columns[s] : Columns[s][k] = t /\ db[s][y].ref[k] = x}
Referenced(t, x) == \E s \in Tables : Referring(s, t, x) # {}

\* Foreign keys and NOT NULL.
ForeignKeys(t, row) ==
  \A k \in DOMAIN Columns[t] :
    IF row.ref[k] = NULL THEN k \in Nullable ELSE Exists(Columns[t][k], row.ref[k])

UniqueName(t, x, row) ==
  t \in UniqueTables => \A y \in Live(t) \ {x} : db[t][y].name # row.name

\* c_agency_5: a distributor has a warehouse, a shelter has none.
Check(t, row) ==
  t = "agency" => (row.kind = "DISTRIBUTOR" <=> row.ref["warehouse_id"] # NULL)

Accepts(t, x, row) == ForeignKeys(t, row) /\ UniqueName(t, x, row) /\ Check(t, row)

-----------------------------------------------------------------------------
(* Forms *)

open_form(c, t, x) ==
  /\ task[c] = Idle /\ page[c] = NoForm /\ t \in area
  /\ Exists(t, x)
  /\ page' = [page EXCEPT ![c] = [t |-> t, x |-> x, row |-> db[t][x]]]
  /\ UNCHANGED <<db, task, area, commits>>

leave_form(c) ==
  /\ task[c] = Idle /\ page[c] # NoForm
  /\ page' = [page EXCEPT ![c] = NoForm]
  /\ UNCHANGED <<db, task, area, commits>>

\* Faulty variant: the version of the form is not compared.
CurrentFormIgnored(c, t, x) == page[c].t = t /\ page[c].x = x /\ Exists(t, x)

\* The form's version_nbr is the one of the row loaded.
CurrentForm(c, t, x) ==
  /\ page[c].t = t /\ page[c].x = x /\ Exists(t, x)
  /\ page[c].row.version = db[t][x].version

\* The uniqueness query of a validator; x is the row being edited, or the
\* one to be created.
NameFree(t, x, name) == \A y \in Live(t) \ {x} : db[t][y].name # name

-----------------------------------------------------------------------------
(* Handlers *)

\* The handler has passed its checks: it will insert, update or delete row
\* x of table t, set its status, or change its key to y; was is the row it
\* loaded, row what it will store.
BeginKey(c, op, t, x, y, row) ==
  /\ task[c] = Idle /\ t \in area
  /\ op \in {"insert", "delete", "set"} => page[c] = NoForm
  /\ task' = [task EXCEPT ![c] =
                [op |-> op, t |-> t, x |-> x, y |-> y, was |-> db[t][x], row |-> row]]
  /\ UNCHANGED <<db, page, area, commits>>

Begin(c, op, t, x, row) == BeginKey(c, op, t, x, x, row)

Finish(c) ==
  /\ commits < MaxCommits
  /\ commits' = commits + 1
  /\ task' = [task EXCEPT ![c] = Idle]
  /\ page' = [page EXCEPT ![c] = NoForm]
  /\ UNCHANGED area

\* Any exception, StaleDataError and IntegrityError included.
Rollback(c) ==
  /\ task[c] # Idle
  /\ task' = [task EXCEPT ![c] = Idle]
  /\ page' = [page EXCEPT ![c] = NoForm]
  /\ UNCHANGED <<db, area, commits>>

Insert(c) ==
  LET k == task[c]
  IN  /\ k.op = "insert"
      /\ Fresh(k.t, k.x)
      /\ Accepts(k.t, k.x, k.row)
      /\ db' = [db EXCEPT ![k.t][k.x] = [k.row EXCEPT !.version = 1]]
      /\ Finish(c)

\* Faulty variant: the row is found by its key alone.
UnchangedByKey(c) == Exists(task[c].t, task[c].x)

\* WHERE version_nbr = the version loaded
Unchanged(c) == db[task[c].t][task[c].x].version = task[c].was.version

Update(c) ==
  LET k == task[c]
  IN  /\ k.op \in {"update", "set"}
      /\ Unchanged(c)
      /\ Accepts(k.t, k.x, k.row)
      /\ db' = [db EXCEPT ![k.t][k.x] = [k.row EXCEPT !.version = k.was.version + 1]]
      /\ Finish(c)

\* A row of table s after row x of table t is gone.
Cleared(s, row, t, x) ==
  LET hit == {k \in DOMAIN Columns[s] : Columns[s][k] = t /\ row.ref[k] = x}
  IN  IF hit = {} THEN row
      ELSE [row EXCEPT !.ref = [k \in DOMAIN @ |-> IF k \in hit THEN NULL ELSE @[k]],
                       !.version = @ + 1]

\* The UPDATE that clears the references of a row is accepted.
Clearable(s, row, t, x) ==
  /\ \A k \in DOMAIN Columns[s] :
       Columns[s][k] = t /\ row.ref[k] = x => k \in Nullable
  /\ Check(s, Cleared(s, row, t, x))

Delete(c) ==
  LET k == task[c]
  IN  /\ k.op = "delete"
      /\ Unchanged(c)
      /\ \A s \in Tables : \A y \in Referring(s, k.t, k.x) :
           Clearable(s, db[s][y], k.t, k.x)
      /\ db' = [s \in Tables |-> [y \in Ids |->
                  IF s = k.t /\ y = k.x THEN [db[s][y] EXCEPT !.version = 0, !.status = "deleted"]
                  ELSE IF Exists(s, y) THEN Cleared(s, db[s][y], k.t, k.x) ELSE db[s][y]]]
      /\ Finish(c)

Flush(c) == Insert(c) \/ Update(c) \/ Delete(c) \/ Rollback(c)

=============================================================================
