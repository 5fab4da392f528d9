------------------------------ MODULE Directory ------------------------------
(***************************************************************************)
(* The handlers of custodians, warehouses, agencies, events and donors     *)
(* (app/features/custodians.py, warehouses.py, agencies.py, events.py,     *)
(* donors.py).  Each definition is a handler up to its flush; Flush of     *)
(* module MasterRows is the rest.  A row holds the columns that some check *)
(* or another table depends on: the format checks of the validators        *)
(* (required fields, lengths, e-mail, phone, parish) refuse a form         *)
(* whatever the tables hold.                                               *)
(***************************************************************************)
EXTENDS MasterRows

-----------------------------------------------------------------------------
(* Custodians *)

validate_custodian_data(x, row) == NameFree("custodian", x, row.name)

create_custodian(c, x, row) ==
  /\ Fresh("custodian", x)
  /\ row.status = "A"
  /\ validate_custodian_data(x, row)
  /\ Begin(c, "insert", "custodian", x, row)

edit_custodian(c, x, row) ==
  /\ CurrentForm(c, "custodian", x)
  /\ row.status = "A"
  /\ validate_custodian_data(x, row)
  /\ Begin(c, "update", "custodian", x, row)

delete_custodian(c, x) ==
  /\ Exists("custodian", x)
  /\ Referring("warehouse", "custodian", x) = {}
  /\ Begin(c, "delete", "custodian", x, db["custodian"][x])

-----------------------------------------------------------------------------
(* Warehouses *)

\* The reason goes with status "I" in the form, the row and the database.
validate_warehouse_data(x, row) ==
  /\ NameFree("warehouse", x, row.name)
  /\ row.ref["custodian_id"] \in Live("custodian")
  /\ row.status \in {"A", "I"}

create_warehouse(c, x, row) ==
  /\ Fresh("warehouse", x)
  /\ validate_warehouse_data(x, row)
  /\ Begin(c, "insert", "warehouse", x, row)

edit_warehouse(c, x, row) ==
  /\ CurrentForm(c, "warehouse", x)
  /\ validate_warehouse_data(x, row)
  /\ Begin(c, "update", "warehouse", x, row)

\* Assignments to users, which also stop it, are no rows of this model.
delete_warehouse(c, x) ==
  /\ Exists("warehouse", x)
  /\ Referring("inventory", "warehouse", x) = {}
  /\ Begin(c, "delete", "warehouse", x, db["warehouse"][x])

-----------------------------------------------------------------------------
(* Agencies *)

\* The event that an agency is ineligible for is not looked up.
validate_agency_data(x, row) ==
  /\ NameFree("agency", x, row.name)
  /\ row.kind \in Kinds
  /\ IF row.kind = "DISTRIBUTOR" THEN row.ref["warehouse_id"] \in Live("warehouse")
                                 ELSE row.ref["warehouse_id"] = NULL
  /\ row.status \in {"A", "I"}

create_agency(c, x, row) ==
  /\ Fresh("agency", x)
  /\ validate_agency_data(x, row)
  /\ Begin(c, "insert", "agency", x, row)

\* May set status "I" whatever requests the agency has.
edit_agency(c, x, row) ==
  /\ CurrentForm(c, "agency", x)
  /\ validate_agency_data(x, row)
  /\ Begin(c, "update", "agency", x, row)

deactivate_agency(c, x) ==
  /\ Exists("agency", x)
  /\ \A r \in Referring("request", "agency", x) : db["request"][r].status # "A"
  /\ Begin(c, "set", "agency", x, [db["agency"][x] EXCEPT !.status = "I"])

-----------------------------------------------------------------------------
(* Events *)

\* Nothing is looked up: an event may have the name of another.  The form
\* sets no status; a new event is active.
validate_event_data(row) == row.name \in Names /\ row.status = "A"

create_event(c, x, row) ==
  /\ Fresh("event", x)
  /\ validate_event_data(row)
  /\ Begin(c, "insert", "event", x, row)

\* The second SELECT, FOR UPDATE, returns the copy the session has already:
\* what it re-checks is the row first loaded.
edit_event(c, x, row) ==
  /\ CurrentForm(c, "event", x)
  /\ db["event"][x].status = "A"
  /\ validate_event_data(row)
  /\ Begin(c, "update", "event", x, row)

\* The row is locked when it is loaded, so no other handler changes it
\* before the flush.
close_event(c, x) ==
  /\ Exists("event", x)
  /\ db["event"][x].status # "C"
  /\ Begin(c, "set", "event", x, [db["event"][x] EXCEPT !.status = "C"])

delete_event(c, x) ==
  /\ Exists("event", x)
  /\ Begin(c, "delete", "event", x, db["event"][x])

-----------------------------------------------------------------------------
(* Donors *)

validate_donor_data(x, row) == NameFree("donor", x, row.name)

create_donor(c, x, row) ==
  /\ Fresh("donor", x)
  /\ row.status = "A"
  /\ validate_donor_data(x, row)
  /\ Begin(c, "insert", "donor", x, row)

\* version_nbr += 1 in the handler is the increment of the flush, not a
\* second one.
edit_donor(c, x, row) ==
  /\ CurrentForm(c, "donor", x)
  /\ row.status = "A"
  /\ validate_donor_data(x, row)
  /\ Begin(c, "update", "donor", x, row)

delete_donor(c, x) ==
  /\ Exists("donor", x)
  /\ Referring("donation", "donor", x) = {}
  /\ Begin(c, "delete", "donor", x, db["donor"][x])

=============================================================================
