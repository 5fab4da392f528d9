---------------------------- MODULE ReliefRequest ----------------------------
(***************************************************************************)
(* The life of a relief request up to fulfilment: drafting by an agency    *)
(* (app/features/requests_aidmgmt.py), the eligibility decision            *)
(* (app/features/eligibility.py) and the service behind both               *)
(* (app/services/relief_request_service.py).                               *)
(*                                                                         *)
(* A POST is several steps, because handlers of different clients          *)
(* interleave under READ COMMITTED: it loads the request row once (the     *)
(* session's identity map keeps that copy), some handlers then query the   *)
(* item rows, and the commit writes.  SQLAlchemy's version_id_col makes    *)
(* each UPDATE or DELETE conditional on the version the copy had.          *)
(***************************************************************************)
EXTENDS Naturals

CONSTANTS Requests,    \* identities of relief requests, never reused
          Items,       \* active items of the catalogue
          Clients,     \* browser sessions of users who may access the requests
          Directors,   \* the clients with reliefrqst.approve_eligibility
          Headers,     \* urgency, event and notes of a request
          Quantities,  \* requested quantities a form may carry
          MaxVersion,  \* header edits stop at this request version
          MaxItemVersion

ASSUME ClientAssumption == Directors \subseteq Clients /\ "NULL" \notin Clients
ASSUME RequestAssumption == "NULL" \notin Requests
ASSUME BoundAssumption ==
  Quantities \subseteq Nat /\ MaxVersion \in Nat /\ MaxItemVersion \in Nat

VARIABLES
  rqst,   \* rqst[r]: the reliefrqst row
  items,  \* items[r]: the reliefrqst_item rows of r, by item
  page,   \* page[c]: what the last page of client c showed
  task    \* task[c]: the POST handler running for client c

vars == <<rqst, items, page, task>>

-----------------------------------------------------------------------------
(* Rows *)

\* status_code of each status; "none" is a row not created yet and
\* "deleted" one that was cancelled.
Code == [DRAFT |-> 0, AWAITING_APPROVAL |-> 1, SUBMITTED |-> 3, PART_FILLED |-> 5,
         INELIGIBLE |-> 8]
Missing == {"none", "deleted"}

Users == Clients \cup {"NULL"}

\* reason: whether status_reason_desc is set.  The dates stand beside their
\* user in every assignment and are left out.
Rows == [status : DOMAIN Code \cup Missing, version : Nat, header : Headers,
         review : Users, action : Users, reason : BOOLEAN]

\* The item rows of a request; version 0 stands for no row.
ItemRows == [Items -> [qty : Nat, version : Nat]]
NoItem == [qty |-> 0, version |-> 0]
NoItems == [i \in Items |-> NoItem]

NewRow(h) == [status |-> "DRAFT", version |-> 1, header |-> h,
              review |-> "NULL", action |-> "NULL", reason |-> FALSE]
Absent(row, s) == [row EXCEPT !.status = s, !.version = 0]

\* A form without a version_nbr field.
NoVersion == 0

Idle == [op |-> "idle"]
Operations == {"edit_request", "edit_items", "delete_item", "cancel_request",
               "submit_request", "submit_decision", "fulfil"}
Tasks == {Idle} \cup
         [op : Operations, r : Requests, row : Rows, form : Nat,
          read : BOOLEAN, rows : ItemRows]
NoPage == [r |-> "NULL"]
Pages == {NoPage} \cup [r : Requests, row : Rows, rows : ItemRows]

-----------------------------------------------------------------------------
(* Steps shared by the handlers *)

\* The handler loads request r; the form carries version f.
Load(c, op, r, f) ==
  /\ task[c] = Idle
  /\ task' = [task EXCEPT ![c] = [op |-> op, r |-> r, row |-> rqst[r], form |-> f,
                                  read |-> FALSE, rows |-> NoItems]]
  /\ UNCHANGED <<rqst, items, page>>

Running(c, op) == task[c].op = op

\* The versions a form of client c for request r may carry: the one of the
\* page it was on, or none.
FormVersions(c, r) ==
  {NoVersion} \cup (IF page[c].r = r THEN {page[c].row.version} ELSE {})

\* Faulty variant: a form's version is not compared.
CurrentFormIgnored(form, row) == TRUE

\* A form without a version falls back to the row's.
CurrentForm(form, row) == form # NoVersion => form = row.version

\* Faulty variant: the UPDATE or DELETE finds the row by its key alone.
UnchangedByKey(c) == rqst[task[c].r].status \notin Missing

\* WHERE version_nbr = the version loaded: the row is still the one the
\* handler loaded.
Unchanged(c) == rqst[task[c].r].version = task[c].row.version

\* The response, a redirect or the page again, replaces the client's page.
Finish(c) ==
  /\ task' = [task EXCEPT ![c] = Idle]
  /\ page' = [page EXCEPT ![c] = NoPage]

\* Faulty variant: the UPDATE leaves version_nbr alone.
WriteSameVersion(c, row) == rqst' = [rqst EXCEPT ![task[c].r] = row]

\* The request row of the handler's request becomes row, one version later.
Write(c, row) ==
  rqst' = [rqst EXCEPT ![task[c].r] = [row EXCEPT !.version = task[c].row.version + 1]]

\* Any exception, StaleDataError and IntegrityError included, and every
\* early return after the load.
Rollback(c) ==
  /\ task[c] # Idle
  /\ Finish(c)
  /\ UNCHANGED <<rqst, items>>

-----------------------------------------------------------------------------
(* Pages *)

view_request(c, r) ==
  /\ task[c] = Idle
  /\ rqst[r].status \notin Missing
  /\ page' = [page EXCEPT ![c] = [r |-> r, row |-> rqst[r], rows |-> items[r]]]
  /\ UNCHANGED <<rqst, items, task>>

list_requests(c) ==
  /\ task[c] = Idle
  /\ page' = [page EXCEPT ![c] = NoPage]
  /\ UNCHANGED <<rqst, items, task>>

-----------------------------------------------------------------------------
(* Drafting *)

\* Also the agency user's and the logistics user's create_request_on_behalf.
create_draft_request(c, r, h) ==
  /\ task[c] = Idle
  /\ rqst[r].status = "none"
  /\ rqst' = [rqst EXCEPT ![r] = NewRow(h)]
  /\ UNCHANGED <<items, page, task>>

load_edit_request(c, r, f) ==
  /\ rqst[r].status = "DRAFT"
  /\ CurrentForm(f, rqst[r])
  /\ rqst[r].version < MaxVersion
  /\ Load(c, "edit_request", r, f)

edit_request(c, h) ==
  /\ Running(c, "edit_request")
  /\ Unchanged(c)
  /\ Write(c, [task[c].row EXCEPT !.header = h])
  /\ Finish(c)
  /\ UNCHANGED items

load_edit_items(c, r) ==
  rqst[r].status = "DRAFT" /\ Load(c, "edit_items", r, NoVersion)

load_delete_item(c, r) ==
  rqst[r].status = "DRAFT" /\ Load(c, "delete_item", r, NoVersion)

\* The query for the item rows, after the request row was checked.
read_items(c) ==
  /\ task[c].op \in {"edit_items", "delete_item", "submit_request"}
  /\ ~task[c].read
  /\ task' = [task EXCEPT ![c].read = TRUE, ![c].rows = items[task[c].r]]
  /\ UNCHANGED <<rqst, items, page>>

\* The item row the handler read is still the stored one.
ItemUnchanged(c, i) == items[task[c].r][i].version = task[c].rows[i].version

\* The foreign key of reliefrqst_item accepts a new row for request r.
ForeignKey(r) == rqst[r].status \notin Missing

\* add_or_update_request_item: the route passes no current_version, so only
\* the session's own copy is compared.
edit_items(c, i, q) ==
  LET r == task[c].r
  IN  /\ Running(c, "edit_items") /\ task[c].read
      /\ q > 0
      /\ ItemUnchanged(c, i)
      /\ items[r][i] = NoItem => ForeignKey(r)
      /\ items[r][i].version < MaxItemVersion
      /\ items' = [items EXCEPT ![r][i] = [qty |-> q, version |-> @.version + 1]]
      /\ Finish(c)
      /\ UNCHANGED rqst

delete_item(c, i) ==
  /\ Running(c, "delete_item") /\ task[c].read
  /\ task[c].rows[i] # NoItem
  /\ ItemUnchanged(c, i)
  /\ items' = [items EXCEPT ![task[c].r][i] = NoItem]
  /\ Finish(c)
  /\ UNCHANGED rqst

load_cancel_request(c, r) ==
  rqst[r].status = "DRAFT" /\ Load(c, "cancel_request", r, NoVersion)

\* The items go with a bulk DELETE, then the row: an item inserted in
\* between makes the row's DELETE fail, so what commits is one step.
cancel_request(c) ==
  LET r == task[c].r
  IN  /\ Running(c, "cancel_request")
      /\ Unchanged(c)
      /\ items' = [items EXCEPT ![r] = NoItems]
      /\ rqst' = [rqst EXCEPT ![r] = Absent(rqst[r], "deleted")]
      /\ Finish(c)

load_submit_request(c, r, f) ==
  rqst[r].status = "DRAFT" /\ Load(c, "submit_request", r, f)

\* The items are checked on the rows read, the version on the row loaded.
submit_request(c) ==
  /\ Running(c, "submit_request") /\ task[c].read
  /\ \E i \in Items : task[c].rows[i].qty > 0
  /\ CurrentForm(task[c].form, task[c].row)
  /\ Unchanged(c)
  /\ Write(c, [task[c].row EXCEPT !.status = "AWAITING_APPROVAL"])
  /\ Finish(c)
  /\ UNCHANGED items

-----------------------------------------------------------------------------
(* Eligibility and the start of fulfilment *)

load_submit_decision(c, r) ==
  /\ c \in Directors
  /\ rqst[r].status = "AWAITING_APPROVAL"
  /\ rqst[r].review = "NULL"
  /\ Load(c, "submit_decision", r, NoVersion)

\* Faulty variant: an ineligible request gets no action_by_id.
DecidedNoAction(row, c, decision) ==
  IF decision = "N"
    THEN [row EXCEPT !.status = "INELIGIBLE", !.review = c, !.reason = TRUE]
    ELSE [row EXCEPT !.status = "SUBMITTED", !.review = c]

\* The row after director c's decision; "N" always comes with a reason.
Decided(row, c, decision) ==
  IF decision = "N"
    THEN [row EXCEPT !.status = "INELIGIBLE", !.review = c, !.action = c, !.reason = TRUE]
    ELSE [row EXCEPT !.status = "SUBMITTED", !.review = c]

submit_eligibility_decision(c, decision) ==
  /\ Running(c, "submit_decision")
  /\ Unchanged(c)
  /\ Write(c, Decided(task[c].row, c, decision))
  /\ Finish(c)
  /\ UNCHANGED items

\* A packaging handler saves, submits or dispatches a package and rewrites
\* the status and issue_qty of some item rows; module Fulfilment has the
\* rest of its effect.
load_fulfil(c, r) ==
  /\ rqst[r].status \in {"SUBMITTED", "PART_FILLED"}
  /\ rqst[r].version < MaxVersion + 2
  /\ Load(c, "fulfil", r, NoVersion)

fulfil(c, S) ==
  LET r == task[c].r
  IN  /\ Running(c, "fulfil")
      /\ Unchanged(c)
      /\ \A i \in S : items[r][i] # NoItem /\ items[r][i].version < MaxItemVersion
      /\ items' = [items EXCEPT ![r] = [i \in Items |->
                     IF i \in S THEN [items[r][i] EXCEPT !.version = @ + 1]
                                ELSE items[r][i]]]
      /\ Write(c, [task[c].row EXCEPT !.status = "PART_FILLED", !.action = c])
      /\ Finish(c)

-----------------------------------------------------------------------------
(* Specification *)

Init ==
  /\ \E h \in Headers : rqst = [r \in Requests |-> Absent(NewRow(h), "none")]
  /\ items = [r \in Requests |-> NoItems]
  /\ page = [c \in Clients |-> NoPage]
  /\ task = [c \in Clients |-> Idle]

Draft(c) ==
  \/ \E r \in Requests : view_request(c, r)
  \/ list_requests(c)
  \/ \E r \in Requests, h \in Headers : create_draft_request(c, r, h)
  \/ \E r \in Requests : \E f \in FormVersions(c, r) : load_edit_request(c, r, f)
  \/ \E h \in Headers : edit_request(c, h)
  \/ \E r \in Requests : load_edit_items(c, r)
  \/ \E r \in Requests : load_delete_item(c, r)
  \/ read_items(c)
  \/ \E i \in Items, q \in Quantities : edit_items(c, i, q)
  \/ \E i \in Items : delete_item(c, i)
  \/ \E r \in Requests : load_cancel_request(c, r)
  \/ cancel_request(c)
  \/ \E r \in Requests : \E f \in FormVersions(c, r) : load_submit_request(c, r, f)
  \/ submit_request(c)

Process(c) ==
  \/ \E r \in Requests : load_submit_decision(c, r)
  \/ \E decision \in {"Y", "N"} : submit_eligibility_decision(c, decision)
  \/ \E r \in Requests : load_fulfil(c, r)
  \/ \E S \in SUBSET Items : fulfil(c, S)

Next == \E c \in Clients : Draft(c) \/ Process(c) \/ Rollback(c)

Spec == Init /\ [][Next]_vars

-----------------------------------------------------------------------------
(* Properties *)

TypeOK ==
  /\ rqst \in [Requests -> Rows]
  /\ items \in [Requests -> ItemRows]
  /\ page \in [Clients -> Pages]
  /\ task \in [Clients -> Tasks]

\* The copy of a request row that a handler loaded is the stored row as long
\* as the versions agree: every UPDATE of reliefrqst raises version_nbr, so
\* version_id_col detects every change made since the load.
CopiesCurrent ==
  \A c \in Clients :
    task[c] # Idle /\ Unchanged(c) => task[c].row = rqst[task[c].r]

\* The CHECK constraints c_reliefrqst_3, 4a and 5a hold of every row the
\* handlers store, so none of their commits is refused: a reason where the
\* status asks for one, a reviewer from status 2 on, an actor from 4 on.
RowConstraints ==
  \A r \in Requests : rqst[r].status \notin Missing =>
    LET code == Code[rqst[r].status]
    IN  /\ code \in {4, 6, 8} => rqst[r].reason
        /\ (rqst[r].review # "NULL") <=> code >= 2
        /\ (rqst[r].action # "NULL") <=> code >= 4

\* A request only moves along the workflow: two handlers that loaded the
\* same row never both write it, so no late commit takes a status back.
StatusSteps ==
  {<<"none", "DRAFT">>, <<"DRAFT", "deleted">>, <<"DRAFT", "AWAITING_APPROVAL">>,
   <<"AWAITING_APPROVAL", "SUBMITTED">>, <<"AWAITING_APPROVAL", "INELIGIBLE">>,
   <<"SUBMITTED", "PART_FILLED">>}

StatusMovesForward ==
  [][\A r \in Requests :
       rqst'[r].status # rqst[r].status
         => <<rqst[r].status, rqst'[r].status>> \in StatusSteps]_vars

\* A recorded eligibility decision stands: the second of two directors who
\* review the same request at once cannot replace the first one's decision.
DecisionStands ==
  [][\A r \in Requests :
       rqst[r].review # "NULL"
         => /\ rqst'[r].review = rqst[r].review
            /\ rqst[r].status = "INELIGIBLE" => rqst'[r] = rqst[r]]_vars

\* Client c's submission of request r commits in this step.
Submits(c, r) ==
  /\ Running(c, "submit_request") /\ task'[c] = Idle
  /\ task[c].r = r
  /\ rqst[r].status = "DRAFT"
  /\ rqst'[r].status = "AWAITING_APPROVAL"

\* The header that is submitted is the one on the submitter's page, when the
\* page's form carries the version: no edit of another client slips in
\* between the page, the version check and the commit.
SubmittedHeaderWasShown ==
  [][\A c \in Clients, r \in Requests :
       Submits(c, r) /\ task[c].form # NoVersion
         => page[c].r = r /\ page[c].row.header = rqst'[r].header]_vars

-----------------------------------------------------------------------------
(* What the code's messages and comments say of items, and the code does
   not ensure: item handlers do not touch the request's version. *)

\* "Cannot submit request without any items": a request past its draft has
\* an item.
SubmittedHasItems ==
  \A r \in Requests : rqst[r].status \notin Missing \cup {"DRAFT"} => items[r] # NoItems

=============================================================================
