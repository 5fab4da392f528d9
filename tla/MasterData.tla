------------------------------ MODULE MasterData ------------------------------
(***************************************************************************)
(* Master data as a whole: the handlers of Directory and Catalogue, and    *)
(* the rows of other modules that refer to it.                             *)
(***************************************************************************)
EXTENDS Directory, Catalogue

CONSTANT Forms  \* Forms[t]: the rows that forms for table t ask for

ASSUME FormsAssumption == MaxId \in Nat /\ \A t \in Tables : Forms[t] \subseteq RowsOf(t)

\* The database holds its constraints at the start.
ASSUME InitialAssumption ==
  \A a \in Areas : \A rows \in Initial[a] :
    /\ DOMAIN rows = Tables
    /\ \A t \in Tables :
         /\ rows[t] \in [Ids -> RowsOf(t)]
         /\ \A x \in Ids : rows[t][x].version > 0 =>
              /\ Check(t, rows[t][x])
              /\ \A k \in DOMAIN Columns[t] :
                   IF rows[t][x].ref[k] = NULL THEN k \in Nullable
                   ELSE rows[Columns[t][k]][rows[t][x].ref[k]].version > 0

-----------------------------------------------------------------------------
(* Rows that refer to master data *)

Dependents == {"donation", "request", "inventory"}

\* Another handler inserts a donation, a relief request or an inventory row;
\* the foreign keys hold at its commit.
insert_dependent(t, x, row) ==
  /\ t \in area /\ Fresh(t, x)
  /\ ForeignKeys(t, row)
  /\ commits < MaxCommits /\ commits' = commits + 1
  /\ db' = [db EXCEPT ![t][x] = [row EXCEPT !.version = 1]]
  /\ UNCHANGED <<page, task, area>>

\* A request is completed or cancelled, the stock of a row runs out or
\* arrives: status "A" comes and goes.
update_dependent(t, x, s) ==
  /\ t \in area /\ Exists(t, x)
  /\ commits < MaxCommits /\ commits' = commits + 1
  /\ db' = [db EXCEPT ![t][x].status = s, ![t][x].version = @ + 1]
  /\ UNCHANGED <<page, task, area>>

-----------------------------------------------------------------------------
(* Specification *)

Init ==
  /\ area \in Areas
  /\ db \in Initial[area]
  /\ page = [c \in Clients |-> NoForm]
  /\ task = [c \in Clients |-> Idle]
  /\ commits = 0

FormsOf(t) == IF t \in area THEN Forms[t] ELSE {}

DirectoryHandlers(c, x) ==
  \/ \E row \in FormsOf("custodian") :
       create_custodian(c, x, row) \/ edit_custodian(c, x, row)
  \/ delete_custodian(c, x)
  \/ \E row \in FormsOf("warehouse") :
       create_warehouse(c, x, row) \/ edit_warehouse(c, x, row)
  \/ delete_warehouse(c, x)
  \/ \E row \in FormsOf("agency") : create_agency(c, x, row) \/ edit_agency(c, x, row)
  \/ deactivate_agency(c, x)
  \/ \E row \in FormsOf("event") : create_event(c, x, row) \/ edit_event(c, x, row)
  \/ close_event(c, x)
  \/ delete_event(c, x)
  \/ \E row \in FormsOf("donor") : create_donor(c, x, row) \/ edit_donor(c, x, row)
  \/ delete_donor(c, x)

CatalogueHandlers(c, x) ==
  \/ \E row \in FormsOf("category") :
       create_category(c, x, row) \/ edit_category(c, x, row)
  \/ delete_category(c, x)
  \/ \E row \in FormsOf("uom") :
       \/ create_uom(c, x, row)
       \/ edit_uom(c, x, row)
       \/ \E y \in Ids : edit_uom_code(c, x, y, row)
  \/ delete_uom(c, x)
  \/ \E row \in FormsOf("item") : create_item(c, x, row) \/ edit_item(c, x, row)
  \/ inactivate_item(c, x)
  \/ activate_item(c, x)

OtherHandlers(t, x) ==
  \/ \E row \in FormsOf(t) : insert_dependent(t, x, row)
  \/ \E s \in {"A", "I"} : update_dependent(t, x, s)

Next ==
  \/ \E c \in Clients : Flush(c) \/ ChangeCode(c) \/ leave_form(c)
  \/ \E c \in Clients, t \in Tables \ Dependents, x \in Ids : open_form(c, t, x)
  \/ \E c \in Clients, x \in Ids : DirectoryHandlers(c, x) \/ CatalogueHandlers(c, x)
  \/ \E t \in Dependents, x \in Ids : OtherHandlers(t, x)

Spec == Init /\ [][Next]_vars

-----------------------------------------------------------------------------
(* Properties *)

\* A closed event stays as it was closed until it is deleted: an edit that
\* loaded it while it was active does not reopen or change it.
ClosedEventFinal ==
  [][\A x \in Live("event") :
       db["event"][x].status = "C" => db'["event"][x] = db["event"][x]
                                      \/ db'["event"][x].version = 0]_vars

\* Client c's edit form commits in this step.
Edits(c) ==
  /\ task[c].op = "update" /\ task'[c] = Idle
  /\ page[c].t = task[c].t /\ page[c].x = task[c].x
  /\ db'[task[c].t][task[c].x] # db[task[c].t][task[c].x]

\* An edit overwrites the row its form showed.  (A unit of measure that was
\* deleted and created again has the same code and version as before.)
EditOverwritesShown ==
  [][\A c \in Clients :
       Edits(c) /\ task[c].t # "uom" => db[task[c].t][task[c].x] = page[c].row]_vars

=============================================================================
