------------------------ MODULE ReliefRequestProofs ------------------------
(***************************************************************************)
(* Proofs about ReliefRequest, for any requests, items, clients and        *)
(* directors, and about PackageForms, for any desks and batches.           *)
(*                                                                         *)
(* The argument for requests: what a handler or a page holds of a request  *)
(* is a snapshot that is the stored row or has an older version, so a      *)
(* write that passes the version check starts from the stored row.  Seen   *)
(* from one request, the interleaved handlers are then atomic steps        *)
(* (RowStep), and the properties of the row are properties of these steps. *)
(*                                                                         *)
(* The argument for packages: no version covers the rows of a package, but *)
(* they change only with the version of the request's items or with that   *)
(* of the package, so a save that finds both has seen the rows.            *)
(***************************************************************************)
EXTENDS ReliefRequest, PackageForms, TLAPS

-----------------------------------------------------------------------------
(* The inductive invariant *)

Drafting == {"edit_request", "edit_items", "delete_item", "cancel_request", "submit_request"}

\* The status a handler has seen in the row it loaded.
Fits(op, row) ==
  /\ op \in Drafting => row.status = "DRAFT"
  /\ op = "submit_decision" => row.status = "AWAITING_APPROVAL"
  /\ op = "fulfil" => row.status \in {"SUBMITTED", "PART_FILLED"}

\* row was once the stored row of r, and is it still if the versions agree.
Snapshot(r, row) ==
  /\ rqst[r].status # "none"
  /\ row.version > 0
  /\ rqst[r].status # "deleted" => row.version <= rqst[r].version
  /\ row.version = rqst[r].version => row = rqst[r]

MissingIsZero == \A r \in Requests : rqst[r].status \in Missing <=> rqst[r].version = 0

\* A row that does not exist was never reviewed: only drafts are deleted.
MissingUnreviewed ==
  \A r \in Requests : rqst[r].status \in Missing => rqst[r].review = "NULL"

TaskSnapshots ==
  \A c \in Clients : task[c] # Idle =>
    Snapshot(task[c].r, task[c].row) /\ Fits(task[c].op, task[c].row)

PageSnapshots ==
  \A c \in Clients : page[c] # NoPage => Snapshot(page[c].r, page[c].row)

\* The version a running form carries is the one of the client's page.
FormIsOfPage ==
  \A c \in Clients : task[c] # Idle /\ task[c].form # NoVersion =>
    page[c] # NoPage /\ page[c].r = task[c].r /\ page[c].row.version = task[c].form

IInv ==
  /\ TypeOK /\ MissingIsZero /\ TaskSnapshots /\ PageSnapshots /\ FormIsOfPage
  /\ MissingUnreviewed /\ RowConstraints

-----------------------------------------------------------------------------
(* Rows *)

\* The updates of the handlers keep the type of a row.
LEMMA RowTypes ==
  ASSUME NEW row \in Rows
  PROVE  /\ \A h \in Headers : NewRow(h) \in Rows /\ [row EXCEPT !.header = h] \in Rows
         /\ \A s \in Missing : Absent(row, s) \in Rows
         /\ [row EXCEPT !.status = "AWAITING_APPROVAL"] \in Rows
         /\ \A c \in Clients : [row EXCEPT !.status = "PART_FILLED", !.action = c] \in Rows
         /\ \A c \in Clients, d \in {"Y", "N"} : Decided(row, c, d) \in Rows
         /\ \A v \in Nat : [row EXCEPT !.version = v] \in Rows
<1>1. DOMAIN Code = {"DRAFT", "AWAITING_APPROVAL", "SUBMITTED", "PART_FILLED", "INELIGIBLE"}
  BY Zenon DEF Code
<1> QED
  BY Zenon, <1>1 DEF Rows, NewRow, Absent, Decided, Missing, Users

\* A task other than Idle has the fields of a handler.
LEMMA TaskTypes ==
  ASSUME TypeOK, NEW c \in Clients, task[c] # Idle
  PROVE  /\ task[c] \in [op : Operations, r : Requests, row : Rows, form : Nat,
                         read : BOOLEAN, rows : ItemRows]
         /\ task[c].op \in Operations /\ task[c].r \in Requests /\ task[c].row \in Rows
         /\ task[c].form \in Nat /\ task[c].rows \in ItemRows
<1>1. task[c] \in [op : Operations, r : Requests, row : Rows, form : Nat,
                   read : BOOLEAN, rows : ItemRows]
  BY Zenon DEF TypeOK, Tasks
<1> QED
  BY Zenon, <1>1

\* A client whose task has one of the operations is not idle.
LEMMA RunningNotIdle ==
  ASSUME NEW c, NEW op \in Operations, Running(c, op)
  PROVE  task[c] # Idle
BY DEF Running, Operations, Idle

\* A form carries a natural number.
LEMMA FormNat ==
  ASSUME TypeOK, NEW c \in Clients, NEW r \in Requests, NEW f \in FormVersions(c, r)
  PROVE  /\ f \in Nat
         /\ f # NoVersion => page[c] # NoPage /\ page[c].r = r /\ page[c].row.version = f
<1>1. page[c].r = r => page[c] # NoPage
  BY RequestAssumption DEF NoPage
<1>2. page[c] # NoPage => page[c].row.version \in Nat
  BY Zenon DEF TypeOK, Pages, Rows
<1> QED
  BY <1>1, <1>2 DEF FormVersions, NoVersion

-----------------------------------------------------------------------------
(* Types *)

\* No item has a row in the empty set of item rows.
LEMMA ItemTypes == NoItem \in [qty : Nat, version : Nat] /\ NoItems \in ItemRows
BY DEF NoItem, NoItems, ItemRows

\* Loading a request keeps the types.
LEMMA LoadType ==
  ASSUME TypeOK, NEW c \in Clients, NEW op \in Operations, NEW r \in Requests, NEW f \in Nat,
         Load(c, op, r, f)
  PROVE  TypeOK'
<1>1. [op |-> op, r |-> r, row |-> rqst[r], form |-> f, read |-> FALSE, rows |-> NoItems]
        \in Tasks
  BY Zenon, ItemTypes DEF Tasks, TypeOK
<1>2. task' \in [Clients -> Tasks]
  BY Zenon, <1>1 DEF Load, TypeOK
<1> QED
  BY Zenon, <1>2 DEF Load, TypeOK

\* Ending a handler keeps the types of tasks and pages.
LEMMA FinishType ==
  ASSUME TypeOK, NEW c \in Clients, Finish(c)
  PROVE  task' \in [Clients -> Tasks] /\ page' \in [Clients -> Pages]
BY Zenon DEF Finish, TypeOK, Tasks, Pages

\* Writing the request row keeps its type.
LEMMA WriteType ==
  ASSUME TypeOK, NEW c \in Clients, task[c] # Idle, NEW row \in Rows, Write(c, row)
  PROVE  rqst' \in [Requests -> Rows]
<1>1. task[c].r \in Requests /\ task[c].row \in Rows
  BY Zenon, TaskTypes
<1>2. task[c].row.version + 1 \in Nat
  BY <1>1 DEF Rows
<1>3. [row EXCEPT !.version = task[c].row.version + 1] \in Rows
  BY Zenon, <1>2, RowTypes
<1> QED
  BY Zenon, <1>1, <1>3 DEF Write, TypeOK

\* Every step of a handler keeps the types.
LEMMA TypeStep ==
  ASSUME TypeOK, [Next]_vars
  PROVE  TypeOK'
<1>1. CASE UNCHANGED vars
  BY Zenon, <1>1 DEF vars, TypeOK
<1>2. ASSUME NEW c \in Clients, Rollback(c) PROVE TypeOK'
  BY Zenon, <1>2, FinishType DEF Rollback, TypeOK
<1>3. ASSUME NEW c \in Clients, Draft(c) PROVE TypeOK'
  <2>1. ASSUME NEW r \in Requests, view_request(c, r) PROVE TypeOK'
    <3>1. [r |-> r, row |-> rqst[r], rows |-> items[r]] \in Pages
      BY Zenon DEF Pages, TypeOK
    <3> QED
      BY Zenon, <2>1, <3>1 DEF view_request, TypeOK
  <2>2. CASE list_requests(c)
    BY Zenon, <2>2 DEF list_requests, TypeOK, Pages
  <2>3. ASSUME NEW r \in Requests, NEW h \in Headers, create_draft_request(c, r, h)
        PROVE TypeOK'
    <3>1. NewRow(h) \in Rows
      BY Zenon, RowTypes DEF TypeOK
    <3> QED
      BY Zenon, <2>3, <3>1 DEF create_draft_request, TypeOK
  <2>4. ASSUME NEW r \in Requests, NEW f \in FormVersions(c, r), load_edit_request(c, r, f)
        PROVE TypeOK'
    BY Zenon, <2>4, FormNat, LoadType DEF load_edit_request, Operations
  <2>5. ASSUME NEW h \in Headers, edit_request(c, h) PROVE TypeOK'
    <3>1. task[c] # Idle
      BY Zenon, <2>5, RunningNotIdle DEF edit_request, Operations
    <3>2. [task[c].row EXCEPT !.header = h] \in Rows
      BY Zenon, <3>1, TaskTypes, RowTypes
    <3> QED
      BY Zenon, <2>5, <3>1, <3>2, WriteType, FinishType DEF edit_request, TypeOK
  <2>6. ASSUME NEW r \in Requests, load_edit_items(c, r) PROVE TypeOK'
    BY Zenon, <2>6, LoadType DEF load_edit_items, Operations, NoVersion
  <2>7. ASSUME NEW r \in Requests, load_delete_item(c, r) PROVE TypeOK'
    BY Zenon, <2>7, LoadType DEF load_delete_item, Operations, NoVersion
  <2>8. CASE read_items(c)
    <3>1. task[c] # Idle
      BY <2>8 DEF read_items, Idle
    <3>2. [task[c] EXCEPT !.read = TRUE, !.rows = items[task[c].r]] \in Tasks
      BY Zenon, <3>1, TaskTypes DEF TypeOK, Tasks
    <3>3. task' = [task EXCEPT ![c] = [task[c] EXCEPT !.read = TRUE, !.rows = items[task[c].r]]]
      BY Zenon, <2>8 DEF read_items, TypeOK
    <3> QED
      BY <2>8, <3>2, <3>3 DEF read_items, TypeOK
  <2>9. ASSUME NEW i \in Items, NEW q \in Quantities, edit_items(c, i, q) PROVE TypeOK'
    <3>1. task[c] # Idle
      BY Zenon, <2>9, RunningNotIdle DEF edit_items, Operations
    <3>2. task[c].r \in Requests
      BY Zenon, <3>1, TaskTypes
    <3>3. items[task[c].r] \in ItemRows
      BY Zenon, <3>2 DEF TypeOK
    <3>4. [qty |-> q, version |-> items[task[c].r][i].version + 1] \in [qty : Nat, version : Nat]
      BY <3>3, BoundAssumption DEF ItemRows
    <3>5. items' \in [Requests -> ItemRows]
      BY Zenon, <2>9, <3>2, <3>3, <3>4 DEF edit_items, TypeOK, ItemRows
    <3> QED
      BY Zenon, <2>9, <3>5, FinishType DEF edit_items, TypeOK
  <2>10. ASSUME NEW i \in Items, delete_item(c, i) PROVE TypeOK'
    <3>1. items' \in [Requests -> ItemRows]
      BY Zenon, <2>10, ItemTypes DEF delete_item, TypeOK, ItemRows
    <3> QED
      BY Zenon, <2>10, <3>1, FinishType DEF delete_item, TypeOK
  <2>11. ASSUME NEW r \in Requests, load_cancel_request(c, r) PROVE TypeOK'
    BY Zenon, <2>11, LoadType DEF load_cancel_request, Operations, NoVersion
  <2>12. CASE cancel_request(c)
    <3>1. task[c] # Idle
      BY Zenon, <2>12, RunningNotIdle DEF cancel_request, Operations
    <3>2. task[c].r \in Requests
      BY Zenon, <3>1, TaskTypes
    <3>3. Absent(rqst[task[c].r], "deleted") \in Rows
      BY Zenon, <3>2, RowTypes DEF TypeOK, Missing
    <3> QED
      BY Zenon, <2>12, <3>2, <3>3, ItemTypes, FinishType DEF cancel_request, TypeOK
  <2>13. ASSUME NEW r \in Requests, NEW f \in FormVersions(c, r), load_submit_request(c, r, f)
         PROVE TypeOK'
    BY Zenon, <2>13, FormNat, LoadType DEF load_submit_request, Operations
  <2>14. CASE submit_request(c)
    <3>1. task[c] # Idle
      BY Zenon, <2>14, RunningNotIdle DEF submit_request, Operations
    <3>2. [task[c].row EXCEPT !.status = "AWAITING_APPROVAL"] \in Rows
      BY Zenon, <3>1, TaskTypes, RowTypes
    <3> QED
      BY Zenon, <2>14, <3>1, <3>2, WriteType, FinishType DEF submit_request, TypeOK
  <2> QED
    BY Zenon, <1>3, <2>1, <2>2, <2>3, <2>4, <2>5, <2>6, <2>7, <2>8, <2>9, <2>10, <2>11, <2>12,
       <2>13, <2>14 DEF Draft
<1>4. ASSUME NEW c \in Clients, Process(c) PROVE TypeOK'
  <2>1. ASSUME NEW r \in Requests, load_submit_decision(c, r) PROVE TypeOK'
    BY Zenon, <2>1, LoadType DEF load_submit_decision, Operations, NoVersion
  <2>2. ASSUME NEW d \in {"Y", "N"}, submit_eligibility_decision(c, d) PROVE TypeOK'
    <3>1. task[c] # Idle
      BY Zenon, <2>2, RunningNotIdle DEF submit_eligibility_decision, Operations
    <3>2. Decided(task[c].row, c, d) \in Rows
      BY Zenon, <3>1, TaskTypes, RowTypes
    <3> QED
      BY Zenon, <2>2, <3>1, <3>2, WriteType, FinishType DEF submit_eligibility_decision, TypeOK
  <2>3. ASSUME NEW r \in Requests, load_fulfil(c, r) PROVE TypeOK'
    BY Zenon, <2>3, LoadType DEF load_fulfil, Operations, NoVersion
  <2>4. ASSUME NEW S \in SUBSET Items, fulfil(c, S) PROVE TypeOK'
    <3>1. task[c] # Idle
      BY Zenon, <2>4, RunningNotIdle DEF fulfil, Operations
    <3>2. [task[c].row EXCEPT !.status = "PART_FILLED", !.action = c] \in Rows
      BY Zenon, <3>1, TaskTypes, RowTypes
    <3>3. task[c].r \in Requests
      BY Zenon, <3>1, TaskTypes
    <3>4. items' \in [Requests -> ItemRows]
      <4> DEFINE it == items[task[c].r]
                 new == [i \in Items |->
                           IF i \in S THEN [it[i] EXCEPT !.version = @ + 1] ELSE it[i]]
      <4>1. \A i \in Items : it[i] \in [qty : Nat, version : Nat]
        BY Zenon, <3>3 DEF TypeOK, ItemRows
      <4>2. \A i \in Items : [it[i] EXCEPT !.version = @ + 1] \in [qty : Nat, version : Nat]
        BY <4>1
      <4>3. new \in ItemRows
        BY Zenon, <4>1, <4>2 DEF ItemRows
      <4>4. items' = [items EXCEPT ![task[c].r] = new]
        BY Zenon, <2>4 DEF fulfil
      <4> QED
        BY Zenon, <3>3, <4>3, <4>4 DEF TypeOK
    <3> QED
      BY Zenon, <2>4, <3>1, <3>2, <3>4, WriteType, FinishType DEF fulfil, TypeOK
  <2> QED
    BY Zenon, <1>4, <2>1, <2>2, <2>3, <2>4 DEF Process
<1> QED
  BY <1>1, <1>2, <1>3, <1>4 DEF Next

-----------------------------------------------------------------------------
(* Steps, seen from one request and from one client *)

\* The atomic steps of a request row.
RowStep(old, new) ==
  \/ new = old
  \/ old.status = "none" /\ \E h \in Headers : new = NewRow(h)
  \/ old.status = "DRAFT" /\ new = Absent(old, "deleted")
  \/ \E row \in Rows :
       /\ new = [row EXCEPT !.version = old.version + 1]
       /\ \/ old.status = "DRAFT" /\ \E h \in Headers : row = [old EXCEPT !.header = h]
          \/ old.status = "DRAFT" /\ row = [old EXCEPT !.status = "AWAITING_APPROVAL"]
          \/ /\ old.status = "AWAITING_APPROVAL"
             /\ \E c \in Clients, d \in {"Y", "N"} : row = Decided(old, c, d)
          \/ /\ old.status \in {"SUBMITTED", "PART_FILLED"}
             /\ \E c \in Clients : row = [old EXCEPT !.status = "PART_FILLED", !.action = c]

\* What a step may do to the handler and the page of a client: leave both
\* alone or only read items, end the handler, load a row, or show a page.
ClientStep(c) ==
  \/ /\ page'[c] = page[c]
     /\ \/ task'[c] = task[c]
        \/ /\ task[c] # Idle /\ task'[c] # Idle
           /\ task'[c].op = task[c].op /\ task'[c].r = task[c].r
           /\ task'[c].row = task[c].row /\ task'[c].form = task[c].form
  \/ task'[c] = Idle /\ page'[c] = NoPage
  \/ /\ rqst' = rqst /\ page'[c] = page[c]
     /\ \E r \in Requests, op \in Operations : \E f \in FormVersions(c, r) :
          /\ task'[c] = [op |-> op, r |-> r, row |-> rqst[r], form |-> f,
                         read |-> FALSE, rows |-> NoItems]
          /\ Fits(op, rqst[r]) /\ rqst[r].status \notin Missing
  \/ /\ rqst' = rqst /\ task'[c] = Idle
     /\ \E r \in Requests :
          /\ rqst[r].status \notin Missing
          /\ page'[c] = [r |-> r, row |-> rqst[r], rows |-> items[r]]

\* A write that passes the version check starts from the stored row.
LEMMA WriteStep ==
  ASSUME IInv, NEW c \in Clients, task[c] # Idle, Unchanged(c)
  PROVE  task[c].row = rqst[task[c].r] /\ rqst[task[c].r].status \notin Missing
<1>1. Snapshot(task[c].r, task[c].row) /\ task[c].r \in Requests
  BY Zenon, TaskTypes DEF IInv, TaskSnapshots
<1>2. rqst[task[c].r].version # 0
  BY <1>1 DEF Snapshot, Unchanged
<1> QED
  BY Zenon, <1>1, <1>2 DEF Snapshot, Unchanged, IInv, MissingIsZero

\* Ending a handler is a step of every client.
LEMMA FinishStep ==
  ASSUME TypeOK, NEW c \in Clients, Finish(c)
  PROVE  \A k \in Clients : ClientStep(k)
<1>1. ASSUME NEW k \in Clients PROVE ClientStep(k)
  <2>1. CASE k = c
    BY Zenon, <2>1 DEF Finish, TypeOK, ClientStep
  <2>2. CASE k # c
    BY Zenon, <2>2 DEF Finish, TypeOK, ClientStep
  <2> QED
    BY <2>1, <2>2
<1> QED
  BY <1>1

\* Starting a handler is a step of every client.
LEMMA LoadStep ==
  ASSUME TypeOK, NEW c \in Clients, NEW op \in Operations, NEW r \in Requests,
         NEW f \in FormVersions(c, r), Load(c, op, r, f),
         Fits(op, rqst[r]), rqst[r].status \notin Missing
  PROVE  \A k \in Clients : ClientStep(k)
<1>1. ASSUME NEW k \in Clients PROVE ClientStep(k)
  <2>1. CASE k = c
    <3>1. task'[c] = [op |-> op, r |-> r, row |-> rqst[r], form |-> f,
                      read |-> FALSE, rows |-> NoItems]
      BY Zenon DEF Load, TypeOK
    <3>2. rqst' = rqst /\ page'[c] = page[c]
      BY Zenon DEF Load
    <3> QED
      BY Zenon, <2>1, <3>1, <3>2 DEF ClientStep
  <2>2. CASE k # c
    BY Zenon, <2>2 DEF Load, TypeOK, ClientStep
  <2> QED
    BY Zenon, <2>1, <2>2
<1> QED
  BY Zenon, <1>1

\* Rows that stay as they are take a step of their own.
LEMMA RowsStay ==
  ASSUME rqst' = rqst
  PROVE  \A r \in Requests : RowStep(rqst[r], rqst'[r])
BY DEF RowStep

\* A step that changes one row is a step of every row.
LEMMA OneRow ==
  ASSUME NEW r, RowStep(rqst[r], rqst'[r]),
         \A s \in Requests : s # r => rqst'[s] = rqst[s]
  PROVE  \A s \in Requests : RowStep(rqst[s], rqst'[s])
<1>1. ASSUME NEW s \in Requests, s # r PROVE RowStep(rqst[s], rqst'[s])
  BY Zenon, <1>1 DEF RowStep
<1> QED
  BY Zenon, <1>1

\* Writing the handler's row is a step of that request only.
LEMMA WriteRowStep ==
  ASSUME IInv, NEW c \in Clients, task[c] # Idle, Unchanged(c), NEW row \in Rows, Write(c, row)
  PROVE  LET old == rqst[task[c].r]
         IN  /\ rqst'[task[c].r] = [row EXCEPT !.version = old.version + 1]
             /\ \A r \in Requests : r # task[c].r => rqst'[r] = rqst[r]
<1>1. task[c].r \in Requests /\ task[c].row = rqst[task[c].r]
  BY Zenon, TaskTypes, WriteStep DEF IInv
<1> QED
  BY Zenon, <1>1 DEF Write, IInv, TypeOK

\* Every step of the handlers is a step of each row and of each client.
Steps == (\A r \in Requests : RowStep(rqst[r], rqst'[r])) /\ (\A k \in Clients : ClientStep(k))

\* The drafting handlers take atomic steps.
LEMMA DraftSteps ==
  ASSUME IInv, NEW c \in Clients, Draft(c)
  PROVE  Steps
<1>0. TypeOK
  BY DEF IInv
<1>a. "DRAFT" \notin Missing
  BY DEF Missing
<1>b. \A r : NoVersion \in FormVersions(c, r)
  BY DEF FormVersions
<1>1. ASSUME NEW r \in Requests, view_request(c, r) PROVE Steps
  <2>1. ASSUME NEW k \in Clients PROVE ClientStep(k)
    <3>1. CASE k = c
      <4>1. page'[c] = [r |-> r, row |-> rqst[r], rows |-> items[r]]
        BY Zenon, <1>0, <1>1 DEF view_request, TypeOK
      <4> QED
        BY Zenon, <1>1, <3>1, <4>1 DEF view_request, ClientStep
    <3>2. CASE k # c
      BY Zenon, <1>0, <1>1, <3>2 DEF view_request, ClientStep, TypeOK
    <3> QED
      BY <3>1, <3>2
  <2> QED
    BY Zenon, <1>1, <2>1, RowsStay DEF view_request, Steps
<1>2. CASE list_requests(c)
  <2>1. ASSUME NEW k \in Clients PROVE ClientStep(k)
    BY Zenon, <1>0, <1>2 DEF list_requests, ClientStep, TypeOK
  <2> QED
    BY Zenon, <1>2, <2>1, RowsStay DEF list_requests, Steps
<1>3. ASSUME NEW r \in Requests, NEW h \in Headers, create_draft_request(c, r, h) PROVE Steps
  <2>1. \A k \in Clients : ClientStep(k)
    BY Zenon, <1>3 DEF create_draft_request, ClientStep
  <2>2. rqst'[r] = NewRow(h) /\ \A s \in Requests : s # r => rqst'[s] = rqst[s]
    BY Zenon, <1>0, <1>3 DEF create_draft_request, TypeOK
  <2>3. \A s \in Requests : RowStep(rqst[s], rqst'[s])
    BY Zenon, <1>3, <2>2 DEF create_draft_request, RowStep
  <2> QED
    BY Zenon, <2>1, <2>3 DEF Steps
<1>4. ASSUME NEW r \in Requests, NEW f \in FormVersions(c, r), load_edit_request(c, r, f)
      PROVE Steps
  <2>1. rqst' = rqst /\ Load(c, "edit_request", r, f) /\ rqst[r].status = "DRAFT"
    BY Zenon, <1>4 DEF load_edit_request, Load
  <2>2. Fits("edit_request", rqst[r]) /\ "edit_request" \in Operations
    BY Zenon, <2>1 DEF Fits, Operations
  <2> QED
    BY Zenon, <1>0, <1>a, <2>1, <2>2, LoadStep, RowsStay DEF Steps
<1>5. ASSUME NEW h \in Headers, edit_request(c, h) PROVE Steps
  <2>1. task[c] # Idle
    BY Zenon, <1>5, RunningNotIdle DEF edit_request, Operations
  <2> DEFINE r == task[c].r
             row == [rqst[r] EXCEPT !.header = h]
  <2>2. r \in Requests /\ task[c].row = rqst[r] /\ rqst[r].status = "DRAFT"
    <3>1. Fits(task[c].op, task[c].row)
      BY Zenon, <2>1 DEF IInv, TaskSnapshots
    <3> QED
      BY Zenon, <1>0, <1>5, <2>1, <3>1, TaskTypes, WriteStep DEF edit_request, Running, Fits, Drafting
  <2>3. row \in Rows
    BY Zenon, <1>0, <2>2, RowTypes DEF TypeOK
  <2>4. /\ rqst'[r] = [row EXCEPT !.version = rqst[r].version + 1]
        /\ \A s \in Requests : s # r => rqst'[s] = rqst[s]
    BY Zenon, <1>5, <2>1, <2>2, <2>3, WriteRowStep DEF edit_request
  <2>5. RowStep(rqst[r], rqst'[r])
    BY Zenon, <2>2, <2>3, <2>4 DEF RowStep
  <2>6. \A s \in Requests : RowStep(rqst[s], rqst'[s])
    BY Zenon, <2>4, <2>5, OneRow
  <2> QED
    BY Zenon, <1>0, <1>5, <2>6, FinishStep DEF edit_request, Steps
<1>6. ASSUME NEW r \in Requests, NEW op \in {"edit_items", "delete_item", "cancel_request"},
             rqst[r].status = "DRAFT", Load(c, op, r, NoVersion)
      PROVE Steps
  <2>1. Fits(op, rqst[r]) /\ op \in Operations
    BY Zenon, <1>6 DEF Fits, Operations
  <2>2. rqst' = rqst
    BY Zenon, <1>6 DEF Load
  <2> QED
    BY Zenon, <1>0, <1>a, <1>b, <1>6, <2>1, <2>2, LoadStep, RowsStay DEF Steps
<1>7. CASE read_items(c)
  <2>1. task[c] # Idle
    BY <1>7 DEF read_items, Idle
  <2>2. task'[c] = [task[c] EXCEPT !.read = TRUE, !.rows = items[task[c].r]]
    BY Zenon, <1>0, <1>7 DEF read_items, TypeOK
  <2>3. task[c] \in [op : Operations, r : Requests, row : Rows, form : Nat,
                     read : BOOLEAN, rows : ItemRows]
    BY Zenon, <1>0, <2>1, TaskTypes
  <2>4. /\ task'[c].op = task[c].op /\ task'[c].r = task[c].r
        /\ task'[c].row = task[c].row /\ task'[c].form = task[c].form
    BY Zenon, <2>2, <2>3
  <2>5. task'[c] # Idle
    BY <2>3, <2>4 DEF Operations, Idle
  <2>6. ASSUME NEW k \in Clients PROVE ClientStep(k)
    <3>1. CASE k = c
      BY Zenon, <1>7, <2>1, <2>4, <2>5, <3>1 DEF read_items, ClientStep
    <3>2. CASE k # c
      BY Zenon, <1>0, <1>7, <3>2 DEF read_items, ClientStep, TypeOK
    <3> QED
      BY <3>1, <3>2
  <2> QED
    BY Zenon, <1>7, <2>6, RowsStay DEF read_items, Steps
<1>8. ASSUME Finish(c), rqst' = rqst PROVE Steps
  BY Zenon, <1>0, <1>8, FinishStep, RowsStay DEF Steps
<1>9. CASE cancel_request(c)
  <2>1. task[c] # Idle
    BY Zenon, <1>9, RunningNotIdle DEF cancel_request, Operations
  <2> DEFINE r == task[c].r
  <2>2. r \in Requests /\ task[c].row = rqst[r] /\ rqst[r].status = "DRAFT"
    <3>1. Fits(task[c].op, task[c].row)
      BY Zenon, <2>1 DEF IInv, TaskSnapshots
    <3> QED
      BY Zenon, <1>0, <1>9, <2>1, <3>1, TaskTypes, WriteStep DEF cancel_request, Running, Fits, Drafting
  <2>3. /\ rqst'[r] = Absent(rqst[r], "deleted")
        /\ \A s \in Requests : s # r => rqst'[s] = rqst[s]
    BY Zenon, <1>0, <1>9, <2>2 DEF cancel_request, TypeOK
  <2>4. \A s \in Requests : RowStep(rqst[s], rqst'[s])
    BY Zenon, <2>2, <2>3 DEF RowStep
  <2> QED
    BY Zenon, <1>0, <1>9, <2>4, FinishStep DEF cancel_request, Steps
<1>10. ASSUME NEW r \in Requests, NEW f \in FormVersions(c, r), load_submit_request(c, r, f)
       PROVE Steps
  <2>1. rqst' = rqst /\ Load(c, "submit_request", r, f) /\ rqst[r].status = "DRAFT"
    BY Zenon, <1>10 DEF load_submit_request, Load
  <2>2. Fits("submit_request", rqst[r]) /\ "submit_request" \in Operations
    BY Zenon, <2>1 DEF Fits, Operations
  <2> QED
    BY Zenon, <1>0, <1>a, <2>1, <2>2, LoadStep, RowsStay DEF Steps
<1>11. CASE submit_request(c)
  <2>1. task[c] # Idle
    BY Zenon, <1>11, RunningNotIdle DEF submit_request, Operations
  <2> DEFINE r == task[c].r
             row == [rqst[r] EXCEPT !.status = "AWAITING_APPROVAL"]
  <2>2. r \in Requests /\ task[c].row = rqst[r] /\ rqst[r].status = "DRAFT"
    <3>1. Fits(task[c].op, task[c].row)
      BY <2>1 DEF IInv, TaskSnapshots
    <3> QED
      BY Zenon, <1>0, <1>11, <2>1, <3>1, TaskTypes, WriteStep DEF submit_request, Running, Fits, Drafting
  <2>3. row \in Rows
    BY Zenon, <1>0, <2>2, RowTypes DEF TypeOK
  <2>4. /\ rqst'[r] = [row EXCEPT !.version = rqst[r].version + 1]
        /\ \A s \in Requests : s # r => rqst'[s] = rqst[s]
    BY Zenon, <1>11, <2>1, <2>2, <2>3, WriteRowStep DEF submit_request
  <2>5. RowStep(rqst[r], rqst'[r])
    BY Zenon, <2>2, <2>3, <2>4 DEF RowStep
  <2>6. \A s \in Requests : RowStep(rqst[s], rqst'[s])
    BY Zenon, <2>4, <2>5, OneRow
  <2> QED
    BY Zenon, <1>0, <1>11, <2>6, FinishStep DEF submit_request, Steps
<1> QED
  BY Zenon, <1>1, <1>2, <1>3, <1>4, <1>5, <1>6, <1>7, <1>8, <1>9, <1>10, <1>11
  DEF Draft, load_edit_items, load_delete_item, load_cancel_request, edit_items, delete_item

\* The decision and the packaging handlers take atomic steps.
LEMMA ProcessSteps ==
  ASSUME IInv, NEW c \in Clients, Process(c)
  PROVE  Steps
<1>0. TypeOK
  BY DEF IInv
<1>a. \A r : NoVersion \in FormVersions(c, r)
  BY DEF FormVersions
<1>1. ASSUME NEW r \in Requests, load_submit_decision(c, r) PROVE Steps
  <2>1. rqst' = rqst /\ Load(c, "submit_decision", r, NoVersion)
    BY Zenon, <1>1 DEF load_submit_decision, Load
  <2>2. /\ Fits("submit_decision", rqst[r]) /\ "submit_decision" \in Operations
        /\ rqst[r].status \notin Missing
    BY Zenon, <1>1 DEF load_submit_decision, Fits, Operations, Drafting, Missing
  <2> QED
    BY Zenon, <1>0, <1>a, <2>1, <2>2, LoadStep, RowsStay DEF Steps
<1>2. ASSUME NEW d \in {"Y", "N"}, submit_eligibility_decision(c, d) PROVE Steps
  <2>1. task[c] # Idle
    BY Zenon, <1>2, RunningNotIdle DEF submit_eligibility_decision, Operations
  <2> DEFINE r == task[c].r
             row == Decided(rqst[r], c, d)
  <2>2. r \in Requests /\ task[c].row = rqst[r] /\ rqst[r].status = "AWAITING_APPROVAL"
    <3>1. Fits(task[c].op, task[c].row)
      BY Zenon, <2>1 DEF IInv, TaskSnapshots
    <3> QED
      BY Zenon, <1>0, <1>2, <2>1, <3>1, TaskTypes, WriteStep
      DEF submit_eligibility_decision, Running, Fits
  <2>3. row \in Rows
    BY Zenon, <1>0, <2>2, RowTypes DEF TypeOK
  <2>4. /\ rqst'[r] = [row EXCEPT !.version = rqst[r].version + 1]
        /\ \A s \in Requests : s # r => rqst'[s] = rqst[s]
    BY Zenon, <1>2, <2>1, <2>2, <2>3, WriteRowStep DEF submit_eligibility_decision
  <2>5. RowStep(rqst[r], rqst'[r])
    BY Zenon, <2>2, <2>3, <2>4 DEF RowStep
  <2>6. \A s \in Requests : RowStep(rqst[s], rqst'[s])
    BY Zenon, <2>4, <2>5, OneRow
  <2> QED
    BY Zenon, <1>0, <1>2, <2>6, FinishStep DEF submit_eligibility_decision, Steps
<1>3. ASSUME NEW r \in Requests, load_fulfil(c, r) PROVE Steps
  <2>1. rqst' = rqst /\ Load(c, "fulfil", r, NoVersion)
    BY Zenon, <1>3 DEF load_fulfil, Load
  <2>2. /\ Fits("fulfil", rqst[r]) /\ "fulfil" \in Operations
        /\ rqst[r].status \notin Missing
    BY Zenon, <1>3 DEF load_fulfil, Fits, Operations, Drafting, Missing
  <2> QED
    BY Zenon, <1>0, <1>a, <2>1, <2>2, LoadStep, RowsStay DEF Steps
<1>4. ASSUME NEW S \in SUBSET Items, fulfil(c, S) PROVE Steps
  <2>1. task[c] # Idle
    BY Zenon, <1>4, RunningNotIdle DEF fulfil, Operations
  <2> DEFINE r == task[c].r
             row == [rqst[r] EXCEPT !.status = "PART_FILLED", !.action = c]
  <2>2. r \in Requests /\ task[c].row = rqst[r] /\ rqst[r].status \in {"SUBMITTED", "PART_FILLED"}
    <3>1. Fits(task[c].op, task[c].row)
      BY Zenon, <2>1 DEF IInv, TaskSnapshots
    <3> QED
      BY Zenon, <1>0, <1>4, <2>1, <3>1, TaskTypes, WriteStep DEF fulfil, Running, Fits
  <2>3. row \in Rows
    BY Zenon, <1>0, <2>2, RowTypes DEF TypeOK
  <2>4. /\ rqst'[r] = [row EXCEPT !.version = rqst[r].version + 1]
        /\ \A s \in Requests : s # r => rqst'[s] = rqst[s]
    BY Zenon, <1>4, <2>1, <2>2, <2>3, WriteRowStep DEF fulfil
  <2>5. RowStep(rqst[r], rqst'[r])
    BY Zenon, <2>2, <2>3, <2>4 DEF RowStep
  <2>6. \A s \in Requests : RowStep(rqst[s], rqst'[s])
    BY Zenon, <2>4, <2>5, OneRow
  <2> QED
    BY Zenon, <1>0, <1>4, <2>6, FinishStep DEF fulfil, Steps
<1> QED
  BY Zenon, <1>1, <1>2, <1>3, <1>4 DEF Process

\* Every step of the system is atomic for each row and each client.
LEMMA NextSteps ==
  ASSUME IInv, [Next]_vars
  PROVE  Steps
<1>1. CASE UNCHANGED vars
  BY Zenon, <1>1, RowsStay DEF vars, Steps, ClientStep
<1>2. ASSUME NEW c \in Clients, Rollback(c) PROVE Steps
  BY Zenon, <1>2, FinishStep, RowsStay DEF Rollback, Steps, IInv
<1> QED
  BY <1>1, <1>2, DraftSteps, ProcessSteps DEF Next

-----------------------------------------------------------------------------
(* The invariant is inductive *)

\* What an atomic step of a row does to its version and status.
LEMMA RowStepFacts ==
  ASSUME NEW old \in Rows, NEW new \in Rows, RowStep(old, new), new # old
  PROVE  \/ old.status = "none" /\ new.status = "DRAFT" /\ new.version = 1
         \/ old.status = "DRAFT" /\ new.status = "deleted" /\ new.version = 0
         \/ /\ new.version = old.version + 1
            /\ <<old.status, new.status>> \in StatusSteps
                 \cup {<<"DRAFT", "DRAFT">>, <<"PART_FILLED", "PART_FILLED">>}
            /\ old.status \notin Missing /\ new.status \notin Missing
<1>1. CASE old.status = "none" /\ \E h \in Headers : new = NewRow(h)
  BY <1>1 DEF NewRow
<1>2. CASE old.status = "DRAFT" /\ new = Absent(old, "deleted")
  BY Zenon, <1>2 DEF Absent, Rows
<1>3. ASSUME NEW row \in Rows,
             new = [row EXCEPT !.version = old.version + 1],
             \/ old.status = "DRAFT" /\ \E h \in Headers : row = [old EXCEPT !.header = h]
             \/ old.status = "DRAFT" /\ row = [old EXCEPT !.status = "AWAITING_APPROVAL"]
             \/ /\ old.status = "AWAITING_APPROVAL"
                /\ \E c \in Clients, d \in {"Y", "N"} : row = Decided(old, c, d)
             \/ /\ old.status \in {"SUBMITTED", "PART_FILLED"}
                /\ \E c \in Clients : row = [old EXCEPT !.status = "PART_FILLED", !.action = c]
      PROVE  /\ new.version = old.version + 1
             /\ <<old.status, new.status>> \in StatusSteps
                  \cup {<<"DRAFT", "DRAFT">>, <<"PART_FILLED", "PART_FILLED">>}
             /\ old.status \notin Missing /\ new.status \notin Missing
  <2>1. new.version = old.version + 1 /\ new.status = row.status
    BY Zenon, <1>3 DEF Rows
  <2>2. CASE old.status = "DRAFT" /\ \E h \in Headers : row = [old EXCEPT !.header = h]
    BY Zenon, <2>1, <2>2 DEF Rows, Missing
  <2>3. CASE old.status = "DRAFT" /\ row = [old EXCEPT !.status = "AWAITING_APPROVAL"]
    BY Zenon, <2>1, <2>3 DEF Rows, Missing, StatusSteps
  <2>4. CASE /\ old.status = "AWAITING_APPROVAL"
             /\ \E c \in Clients, d \in {"Y", "N"} : row = Decided(old, c, d)
    <3>1. row.status \in {"SUBMITTED", "INELIGIBLE"}
      BY Zenon, <2>4 DEF Decided, Rows
    <3> QED
      BY Zenon, <2>1, <2>4, <3>1 DEF Missing, StatusSteps
  <2>5. CASE /\ old.status \in {"SUBMITTED", "PART_FILLED"}
             /\ \E c \in Clients : row = [old EXCEPT !.status = "PART_FILLED", !.action = c]
    <3>1. row.status = "PART_FILLED"
      BY Zenon, <2>5 DEF Rows
    <3> QED
      BY Zenon, <2>1, <2>5, <3>1 DEF Missing, StatusSteps
  <2> QED
    BY Zenon, <1>3, <2>2, <2>3, <2>4, <2>5
<1> QED
  BY Zenon, <1>1, <1>2, <1>3 DEF RowStep

\* The CHECK constraints of one row.
Constrained(row) ==
  /\ row.status \in Missing => row.review = "NULL"
  /\ row.status \notin Missing =>
       /\ Code[row.status] \in {4, 6, 8} => row.reason
       /\ (row.review # "NULL") <=> Code[row.status] >= 2
       /\ (row.action # "NULL") <=> Code[row.status] >= 4

\* An atomic step keeps the constraints, and a recorded decision with them.
LEMMA RowStepConstrained ==
  ASSUME NEW old \in Rows, NEW new \in Rows, RowStep(old, new), Constrained(old)
  PROVE  /\ Constrained(new)
         /\ old.review # "NULL" =>
              new.review = old.review /\ (old.status = "INELIGIBLE" => new = old)
<1>0. /\ Code["DRAFT"] = 0 /\ Code["AWAITING_APPROVAL"] = 1 /\ Code["SUBMITTED"] = 3
      /\ Code["PART_FILLED"] = 5 /\ Code["INELIGIBLE"] = 8
  BY Zenon DEF Code
<1>1. CASE new = old
  BY <1>1
<1>2. CASE old.status = "none" /\ \E h \in Headers : new = NewRow(h)
  BY <1>0, <1>2 DEF NewRow, Constrained, Missing
<1>3. CASE old.status = "DRAFT" /\ new = Absent(old, "deleted")
  <2>1. new.status = "deleted" /\ new.review = old.review
    BY Zenon, <1>3 DEF Absent, Rows
  <2> QED
    BY <1>0, <1>3, <2>1 DEF Constrained, Missing
<1>4. ASSUME NEW row \in Rows, new = [row EXCEPT !.version = old.version + 1]
      PROVE  /\ new.status = row.status /\ new.review = row.review
             /\ new.action = row.action /\ new.reason = row.reason
  BY Zenon, <1>4 DEF Rows
<1>5. ASSUME NEW row \in Rows, new = [row EXCEPT !.version = old.version + 1],
             old.status = "DRAFT", NEW h \in Headers, row = [old EXCEPT !.header = h]
      PROVE  Constrained(new) /\ new.review = old.review
  <2>1. /\ row.status = "DRAFT" /\ row.review = old.review
        /\ row.action = old.action /\ row.reason = old.reason
    BY Zenon, <1>5 DEF Rows
  <2> QED
    BY <1>0, <1>4, <1>5, <2>1 DEF Constrained
<1>6. ASSUME NEW row \in Rows, new = [row EXCEPT !.version = old.version + 1],
             old.status = "DRAFT", row = [old EXCEPT !.status = "AWAITING_APPROVAL"]
      PROVE  Constrained(new) /\ new.review = old.review
  <2>1. /\ row.status = "AWAITING_APPROVAL" /\ row.review = old.review
        /\ row.action = old.action /\ row.reason = old.reason
    BY Zenon, <1>6 DEF Rows
  <2> QED
    BY <1>0, <1>4, <1>6, <2>1 DEF Constrained, Missing
<1>7. ASSUME NEW row \in Rows, new = [row EXCEPT !.version = old.version + 1],
             old.status = "AWAITING_APPROVAL", NEW c \in Clients, NEW d \in {"Y", "N"},
             row = Decided(old, c, d)
      PROVE  Constrained(new) /\ old.review = "NULL"
  <2>1. old.review = "NULL" /\ old.action = "NULL"
    BY <1>0, <1>7 DEF Constrained, Missing
  <2>2. \/ row.status = "INELIGIBLE" /\ row.review = c /\ row.action = c /\ row.reason
        \/ row.status = "SUBMITTED" /\ row.review = c /\ row.action = old.action
    BY Zenon, <1>7 DEF Decided, Rows
  <2> QED
    BY <1>0, <1>4, <1>7, <2>1, <2>2, ClientAssumption DEF Constrained, Missing
<1>8. ASSUME NEW row \in Rows, new = [row EXCEPT !.version = old.version + 1],
             old.status \in {"SUBMITTED", "PART_FILLED"}, NEW c \in Clients,
             row = [old EXCEPT !.status = "PART_FILLED", !.action = c]
      PROVE  Constrained(new) /\ new.review = old.review
  <2>1. old.review # "NULL"
    BY <1>0, <1>8 DEF Constrained, Missing
  <2>2. row.status = "PART_FILLED" /\ row.review = old.review /\ row.action = c
    BY Zenon, <1>8 DEF Rows
  <2> QED
    BY <1>0, <1>4, <1>8, <2>1, <2>2, ClientAssumption DEF Constrained, Missing
<1> QED
  BY Zenon, <1>1, <1>2, <1>3, <1>5, <1>6, <1>7, <1>8 DEF RowStep, Missing

\* A snapshot stays one while its request takes an atomic step.
LEMMA SnapshotKept ==
  ASSUME TypeOK, TypeOK', MissingIsZero, NEW r \in Requests, NEW row \in Rows,
         RowStep(rqst[r], rqst'[r]), Snapshot(r, row)
  PROVE  /\ rqst'[r].status # "none"
         /\ row.version > 0
         /\ rqst'[r].status # "deleted" => row.version <= rqst'[r].version
         /\ row.version = rqst'[r].version => row = rqst'[r]
<1>1. /\ rqst[r] \in Rows /\ rqst'[r] \in Rows
      /\ row.version \in Nat /\ rqst[r].version \in Nat
  BY Zenon DEF TypeOK, Rows
<1>2. CASE rqst'[r] = rqst[r]
  BY Zenon, <1>2 DEF Snapshot
<1>3. CASE rqst'[r] # rqst[r]
  <2>1. \/ rqst[r].status = "none" /\ rqst'[r].status = "DRAFT" /\ rqst'[r].version = 1
        \/ rqst[r].status = "DRAFT" /\ rqst'[r].status = "deleted" /\ rqst'[r].version = 0
        \/ /\ rqst'[r].version = rqst[r].version + 1
           /\ rqst[r].status \notin Missing /\ rqst'[r].status \notin Missing
    BY Zenon, <1>1, <1>3, RowStepFacts
  <2> QED
    BY <1>1, <2>1 DEF Snapshot, Missing
<1> QED
  BY Zenon, <1>2, <1>3

\* Every step keeps the snapshots of handlers and pages.
LEMMA SnapshotsStep ==
  ASSUME IInv, Steps, TypeOK'
  PROVE  TaskSnapshots' /\ PageSnapshots' /\ FormIsOfPage' /\ MissingIsZero'
<1>0. TypeOK /\ MissingIsZero /\ TaskSnapshots /\ PageSnapshots /\ FormIsOfPage
  BY DEF IInv
<1>a. \A r \in Requests : RowStep(rqst[r], rqst'[r])
  BY DEF Steps
<1>1. MissingIsZero'
  <2>1. ASSUME NEW r \in Requests PROVE rqst'[r].status \in Missing <=> rqst'[r].version = 0
    <3>1. rqst[r] \in Rows /\ rqst'[r] \in Rows /\ rqst[r].version \in Nat
      BY Zenon, <1>0 DEF TypeOK, Rows
    <3>2. CASE rqst'[r] = rqst[r]
      BY Zenon, <1>0, <3>2 DEF MissingIsZero
    <3>3. CASE rqst'[r] # rqst[r]
      <4>1. \/ rqst[r].status = "none" /\ rqst'[r].status = "DRAFT" /\ rqst'[r].version = 1
            \/ rqst[r].status = "DRAFT" /\ rqst'[r].status = "deleted" /\ rqst'[r].version = 0
            \/ /\ rqst'[r].version = rqst[r].version + 1
               /\ rqst[r].status \notin Missing /\ rqst'[r].status \notin Missing
        BY Zenon, <1>a, <3>1, <3>3, RowStepFacts
      <4> QED
        BY <3>1, <4>1 DEF Missing
    <3> QED
      BY Zenon, <3>2, <3>3
  <2> QED
    BY Zenon, <2>1 DEF MissingIsZero
<1>2. ASSUME NEW r \in Requests, rqst[r].status \notin Missing, rqst' = rqst
      PROVE  Snapshot(r, rqst[r])'
  <2>1. rqst[r].version # 0 /\ rqst[r].version \in Nat
    BY Zenon, <1>0, <1>2 DEF MissingIsZero, TypeOK, Rows
  <2> QED
    BY <1>2, <2>1 DEF Snapshot, Missing
<1>3. ASSUME NEW r \in Requests, NEW row \in Rows, Snapshot(r, row)
      PROVE  /\ rqst'[r].status # "none"
             /\ row.version > 0
             /\ rqst'[r].status # "deleted" => row.version <= rqst'[r].version
             /\ row.version = rqst'[r].version => row = rqst'[r]
  BY Zenon, <1>0, <1>a, <1>3, SnapshotKept
<1>4. ASSUME NEW c \in Clients, task'[c] # Idle
      PROVE  Snapshot(task[c].r, task[c].row)' /\ Fits(task'[c].op, task'[c].row)
  <2>1. ASSUME task[c] # Idle, task'[c].op = task[c].op, task'[c].r = task[c].r,
               task'[c].row = task[c].row
        PROVE  Snapshot(task[c].r, task[c].row)' /\ Fits(task'[c].op, task'[c].row)
    <3>1. task[c].r \in Requests /\ task[c].row \in Rows
      BY Zenon, <1>0, <2>1, TaskTypes
    <3>2. Snapshot(task[c].r, task[c].row) /\ Fits(task[c].op, task[c].row)
      BY Zenon, <1>0, <2>1 DEF TaskSnapshots
    <3> QED
      BY <1>3, <2>1, <3>1, <3>2 DEF Snapshot
  <2>2. ASSUME NEW r \in Requests, NEW op, NEW f, rqst' = rqst,
               task'[c] = [op |-> op, r |-> r, row |-> rqst[r], form |-> f,
                           read |-> FALSE, rows |-> NoItems],
               Fits(op, rqst[r]), rqst[r].status \notin Missing
        PROVE  Snapshot(task[c].r, task[c].row)' /\ Fits(task'[c].op, task'[c].row)
    <3>1. task'[c].op = op /\ task'[c].r = r /\ task'[c].row = rqst[r]
      BY <2>2
    <3>2. Snapshot(r, rqst[r])'
      BY Zenon, <1>2, <2>2
    <3> QED
      BY Zenon, <2>2, <3>1, <3>2 DEF Snapshot
  <2> QED
    BY Zenon, <1>4, <2>1, <2>2 DEF Steps, ClientStep
<1>5. ASSUME NEW c \in Clients, page'[c] # NoPage
      PROVE  Snapshot(page[c].r, page[c].row)'
  <2>1. ASSUME page'[c] = page[c] PROVE Snapshot(page[c].r, page[c].row)'
    <3>1. page[c].r \in Requests /\ page[c].row \in Rows
      BY Zenon, <1>0, <1>5, <2>1 DEF TypeOK, Pages
    <3>2. Snapshot(page[c].r, page[c].row)
      BY Zenon, <1>0, <1>5, <2>1 DEF PageSnapshots
    <3> QED
      BY <1>3, <2>1, <3>1, <3>2 DEF Snapshot
  <2>2. ASSUME NEW r \in Requests, rqst' = rqst, rqst[r].status \notin Missing,
               page'[c] = [r |-> r, row |-> rqst[r], rows |-> items[r]]
        PROVE  Snapshot(page[c].r, page[c].row)'
    <3>1. page'[c].r = r /\ page'[c].row = rqst[r]
      BY <2>2
    <3>2. Snapshot(r, rqst[r])'
      BY Zenon, <1>2, <2>2
    <3> QED
      BY Zenon, <2>2, <3>1, <3>2 DEF Snapshot
  <2> QED
    BY Zenon, <1>5, <2>1, <2>2 DEF Steps, ClientStep
<1>6. ASSUME NEW c \in Clients, task'[c] # Idle, task'[c].form # NoVersion
      PROVE  page'[c] # NoPage /\ page'[c].r = task'[c].r /\ page'[c].row.version = task'[c].form
  <2>1. ASSUME page'[c] = page[c], task[c] # Idle,
               task'[c].r = task[c].r, task'[c].form = task[c].form
        PROVE  page'[c] # NoPage /\ page'[c].r = task'[c].r /\ page'[c].row.version = task'[c].form
    BY Zenon, <1>0, <1>6, <2>1 DEF FormIsOfPage
  <2>2. ASSUME NEW r \in Requests, NEW op, NEW f \in FormVersions(c, r), page'[c] = page[c],
               task'[c] = [op |-> op, r |-> r, row |-> rqst[r], form |-> f,
                           read |-> FALSE, rows |-> NoItems]
        PROVE  page'[c] # NoPage /\ page'[c].r = task'[c].r /\ page'[c].row.version = task'[c].form
    <3>1. task'[c].r = r /\ task'[c].form = f
      BY <2>2
    <3> QED
      BY <1>0, <1>6, <2>2, <3>1, FormNat
  <2> QED
    BY Zenon, <1>6, <2>1, <2>2 DEF Steps, ClientStep
<1> QED
  BY Zenon, <1>1, <1>4, <1>5, <1>6 DEF TaskSnapshots, PageSnapshots, FormIsOfPage

\* Every step keeps the CHECK constraints.
LEMMA ConstraintsStep ==
  ASSUME IInv, Steps, TypeOK'
  PROVE  RowConstraints' /\ MissingUnreviewed'
<1>1. ASSUME NEW r \in Requests PROVE Constrained(rqst'[r])
  <2>1. rqst[r] \in Rows /\ rqst'[r] \in Rows
    BY Zenon DEF IInv, TypeOK
  <2>2. Constrained(rqst[r])
    BY Zenon DEF IInv, RowConstraints, MissingUnreviewed, Constrained
  <2> QED
    BY Zenon, <2>1, <2>2, RowStepConstrained DEF Steps
<1> QED
  BY Zenon, <1>1 DEF RowConstraints, MissingUnreviewed, Constrained

\* The invariant holds at the start: no request, page or handler exists.
LEMMA InitInv == Init => IInv
<1> SUFFICES ASSUME Init PROVE IInv
  OBVIOUS
<1>1. PICK h \in Headers : rqst = [r \in Requests |-> Absent(NewRow(h), "none")]
  BY Zenon DEF Init
<1>2. Absent(NewRow(h), "none") \in Rows
  BY Zenon DEF Absent, NewRow, Rows, Missing, Users
<1>3. TypeOK
  BY Zenon, <1>1, <1>2, ItemTypes DEF Init, TypeOK, Pages, Tasks
<1>4. \A r \in Requests :
        rqst[r].status = "none" /\ rqst[r].version = 0 /\ rqst[r].review = "NULL"
  BY Zenon, <1>1 DEF Absent, NewRow
<1>5. MissingIsZero /\ MissingUnreviewed /\ RowConstraints
  BY Zenon, <1>4 DEF MissingIsZero, MissingUnreviewed, RowConstraints, Missing, Init
<1>6. TaskSnapshots /\ PageSnapshots /\ FormIsOfPage
  BY Zenon DEF Init, TaskSnapshots, PageSnapshots, FormIsOfPage
<1> QED
  BY <1>3, <1>5, <1>6 DEF IInv

\* Every step keeps the invariant.
LEMMA InvStep == IInv /\ [Next]_vars => IInv'
<1> SUFFICES ASSUME IInv, [Next]_vars PROVE IInv'
  OBVIOUS
<1>1. TypeOK'
  BY TypeStep DEF IInv
<1>2. Steps
  BY NextSteps
<1>3. /\ TaskSnapshots' /\ PageSnapshots' /\ FormIsOfPage' /\ MissingIsZero'
      /\ MissingUnreviewed' /\ RowConstraints'
  BY <1>1, <1>2, SnapshotsStep, ConstraintsStep
<1> QED
  BY Zenon, <1>1, <1>3 DEF IInv

\* A step of one client leaves the handlers of the others alone.
LEMMA OthersKept ==
  ASSUME TypeOK, NEW k \in Clients, NEW c \in Clients, k # c,
         Draft(k) \/ Process(k) \/ Rollback(k)
  PROVE  task'[c] = task[c]
<1>1. ASSUME Finish(k) PROVE task'[c] = task[c]
  BY Zenon, <1>1 DEF Finish, TypeOK
<1>2. ASSUME NEW op, NEW r, NEW f, Load(k, op, r, f) PROVE task'[c] = task[c]
  BY Zenon, <1>2 DEF Load, TypeOK
<1>3. ASSUME read_items(k) PROVE task'[c] = task[c]
  BY Zenon, <1>3 DEF read_items, TypeOK
<1>4. ASSUME Draft(k) PROVE task'[c] = task[c]
  BY Zenon, <1>1, <1>2, <1>3, <1>4
  DEF Draft, view_request, list_requests, create_draft_request, load_edit_request, edit_request,
      load_edit_items, load_delete_item, edit_items, delete_item, load_cancel_request,
      cancel_request, load_submit_request, submit_request
<1>5. ASSUME Process(k) PROVE task'[c] = task[c]
  BY Zenon, <1>1, <1>2, <1>5
  DEF Process, load_submit_decision, submit_eligibility_decision, load_fulfil, fulfil
<1> QED
  BY Zenon, <1>1, <1>4, <1>5 DEF Rollback

\* A submission commits in submit_request only.
LEMMA SubmitsIsSubmit ==
  ASSUME IInv, [Next]_vars, NEW c \in Clients, NEW r \in Requests, Submits(c, r)
  PROVE  submit_request(c)
<1>0. TypeOK
  BY DEF IInv
<1>1. task[c].op = "submit_request" /\ task[c] # Idle /\ task'[c] = Idle
  BY Zenon, RunningNotIdle DEF Submits, Running, Operations
<1>2. rqst' # rqst
  BY Zenon DEF Submits
<1>3. PICK k \in Clients : Draft(k) \/ Process(k) \/ Rollback(k)
  BY Zenon, <1>1, <1>2 DEF Next, vars
<1>4. k = c
  BY Zenon, <1>0, <1>1, <1>3, OthersKept
<1>5. ~Rollback(c) /\ ~read_items(c)
  BY Zenon, <1>2 DEF Rollback, read_items
<1>6. \A op, s, f : ~Load(c, op, s, f)
  BY Zenon, <1>1 DEF Load
<1>7. ~Process(c)
  BY Zenon, <1>1, <1>6 DEF Process, load_submit_decision, submit_eligibility_decision, load_fulfil,
     fulfil, Running
<1>8. Draft(c)
  BY <1>3, <1>4, <1>5, <1>7
<1> QED
  BY Zenon, <1>1, <1>5, <1>6, <1>8
  DEF Draft, view_request, list_requests, create_draft_request, load_edit_request, edit_request,
      load_edit_items, load_delete_item, edit_items, delete_item, load_cancel_request,
      cancel_request, load_submit_request, Running

\* A submission with the page's version submits the header of the page.
LEMMA HeaderStep ==
  ASSUME IInv, [Next]_vars, NEW c \in Clients, NEW r \in Requests, Submits(c, r),
         task[c].form # NoVersion
  PROVE  page[c].r = r /\ page[c].row.header = rqst'[r].header
<1>0. TypeOK
  BY Zenon DEF IInv
<1>1. submit_request(c) /\ task[c].r = r
  BY Zenon, SubmitsIsSubmit DEF Submits
<1>2. task[c] # Idle
  BY Zenon, <1>1, RunningNotIdle DEF submit_request, Operations
<1>3. task[c].row = rqst[r] /\ task[c].form = rqst[r].version
  BY Zenon, <1>1, <1>2, WriteStep DEF submit_request, CurrentForm
<1>4. page[c] # NoPage /\ page[c].r = r /\ page[c].row.version = rqst[r].version
  BY Zenon, <1>1, <1>2, <1>3 DEF IInv, FormIsOfPage
<1>5. page[c].row = rqst[r]
  BY Zenon, <1>4 DEF IInv, PageSnapshots, Snapshot
<1>6. rqst[r] \in Rows
  BY Zenon, <1>0 DEF TypeOK
<1>7. [rqst[r] EXCEPT !.status = "AWAITING_APPROVAL"] \in Rows
  BY Zenon, <1>6, RowTypes
<1>8. rqst'[r] = [[rqst[r] EXCEPT !.status = "AWAITING_APPROVAL"]
                    EXCEPT !.version = rqst[r].version + 1]
  BY Zenon, <1>1, <1>2, <1>3, <1>7, WriteRowStep DEF submit_request
<1>9. rqst'[r].header = rqst[r].header
  BY Zenon, <1>6, <1>8 DEF Rows
<1> QED
  BY Zenon, <1>4, <1>5, <1>9

-----------------------------------------------------------------------------
(* Theorems *)

\* The inductive invariant holds in every reachable state.
THEOREM Invariant == Spec => []IInv
<1> QED
  BY InitInv, InvStep, PTL DEF Spec

\* The rows of requests, items, pages and running handlers keep their types.
THEOREM TypeCorrect == Spec => []TypeOK
<1>1. IInv => TypeOK
  BY DEF IInv
<1> QED
  BY <1>1, Invariant, PTL

\* version_id_col detects every change of a request row since it was loaded.
THEOREM VersionsDetectChanges == Spec => []CopiesCurrent
<1>1. IInv => CopiesCurrent
  BY Zenon, WriteStep DEF CopiesCurrent
<1> QED
  BY <1>1, Invariant, PTL

\* No commit of these handlers violates c_reliefrqst_3, 4a or 5a.
THEOREM ConstraintsHold == Spec => []RowConstraints
<1>1. IInv => RowConstraints
  BY DEF IInv
<1> QED
  BY <1>1, Invariant, PTL

\* Handlers that interleave change a request as if each were one step.
THEOREM RowsAreAtomic == Spec => [][\A r \in Requests : RowStep(rqst[r], rqst'[r])]_vars
<1>1. IInv /\ [Next]_vars => [\A r \in Requests : RowStep(rqst[r], rqst'[r])]_vars
  BY Zenon, NextSteps DEF Steps
<1> QED
  BY <1>1, Invariant, PTL DEF Spec

\* A request only moves along its workflow.
THEOREM StatusForward == Spec => StatusMovesForward
<1>1. ASSUME IInv, [Next]_vars, NEW r \in Requests, rqst'[r].status # rqst[r].status
      PROVE  <<rqst[r].status, rqst'[r].status>> \in StatusSteps
  <2>1. rqst[r] \in Rows /\ rqst'[r] \in Rows
    BY Zenon, <1>1, TypeStep DEF IInv, TypeOK
  <2>2. RowStep(rqst[r], rqst'[r]) /\ rqst'[r] # rqst[r]
    BY Zenon, <1>1, NextSteps DEF Steps
  <2>3. \/ rqst[r].status = "none" /\ rqst'[r].status = "DRAFT"
        \/ rqst[r].status = "DRAFT" /\ rqst'[r].status = "deleted"
        \/ <<rqst[r].status, rqst'[r].status>> \in StatusSteps
             \cup {<<"DRAFT", "DRAFT">>, <<"PART_FILLED", "PART_FILLED">>}
    BY Zenon, <2>1, <2>2, RowStepFacts
  <2> QED
    BY Zenon, <1>1, <2>3 DEF StatusSteps
<1>2. IInv /\ [Next]_vars =>
        [\A r \in Requests : rqst'[r].status # rqst[r].status
           => <<rqst[r].status, rqst'[r].status>> \in StatusSteps]_vars
  BY Zenon, <1>1
<1> QED
  BY <1>2, Invariant, PTL DEF Spec, StatusMovesForward

\* A recorded eligibility decision is never replaced.
THEOREM DecisionsStand == Spec => DecisionStands
<1>1. ASSUME IInv, [Next]_vars, NEW r \in Requests, rqst[r].review # "NULL"
      PROVE  /\ rqst'[r].review = rqst[r].review
             /\ rqst[r].status = "INELIGIBLE" => rqst'[r] = rqst[r]
  <2>1. rqst[r] \in Rows /\ rqst'[r] \in Rows
    BY Zenon, <1>1, TypeStep DEF IInv, TypeOK
  <2>2. RowStep(rqst[r], rqst'[r])
    BY Zenon, <1>1, NextSteps DEF Steps
  <2>3. Constrained(rqst[r])
    BY Zenon, <1>1 DEF IInv, RowConstraints, MissingUnreviewed, Constrained
  <2> QED
    BY Zenon, <1>1, <2>1, <2>2, <2>3, RowStepConstrained
<1>2. IInv /\ [Next]_vars =>
        [\A r \in Requests : rqst[r].review # "NULL"
           => /\ rqst'[r].review = rqst[r].review
              /\ rqst[r].status = "INELIGIBLE" => rqst'[r] = rqst[r]]_vars
  BY Zenon, <1>1
<1> QED
  BY <1>2, Invariant, PTL DEF Spec, DecisionStands

\* What is submitted from a form with a version is the header on the page.
THEOREM HeaderWasShown == Spec => SubmittedHeaderWasShown
<1>1. IInv /\ [Next]_vars =>
        [\A c \in Clients, r \in Requests :
           Submits(c, r) /\ task[c].form # NoVersion
             => page[c].r = r /\ page[c].row.header = rqst'[r].header]_vars
  BY Zenon, HeaderStep
<1> QED
  BY <1>1, Invariant, PTL DEF Spec, SubmittedHeaderWasShown

-----------------------------------------------------------------------------
(* Packages: the inductive invariant *)

SaveOps == PrepareOps \cup ApproveOps
Joined == ApproveOps \cup {"approve", "review"}
PkgRows == [status : {"none", "P", "D"}, verify : {"none", "pending", "manager"},
            by : Desks \cup {"none"}, version : Nat]
RowVersions == [Batches -> Nat]
Versions == [version : Nat, items : Nat]
PkgPages == [kind : Views \cup {"none"}, req : Nat, pkg : Nat, rows : RowVersions]
Jobs == [op : SaveOps \cup Views \cup {"none", "review"}, form : SUBSET Batches,
         step : {"none", "read", "write"}, req : Versions, pkg : PkgRows, rows : RowVersions]

PType ==
  /\ prq \in Versions
  /\ pkgs \in Seq(PkgRows)
  /\ prows \in RowVersions
  /\ ppage \in [Desks -> PkgPages]
  /\ job \in [Desks -> Jobs]

\* A package that is there has a version, and rows belong to a package.
PkgSound ==
  /\ OnePackage
  /\ pkgs # <<>> => pkgs[1].version >= 1
  /\ pkgs = <<>> => prows = NoRows

\* The rows are those the page of c showed, or were cancelled since.
Replaces(c) == prows \in {ppage[c].rows, NoRows}

\* What a page showed is current when both versions are.
PageHolds(c) ==
  ppage[c].kind # "none" =>
    /\ ppage[c].req <= prq.version
    /\ ppage[c].pkg <= FirstPkg.version
    /\ ppage[c].req = prq.version /\ ppage[c].pkg = 0 => pkgs = <<>>
    /\ ppage[c].req = prq.version /\ ppage[c].pkg = FirstPkg.version => Replaces(c)

\* A POST that has read the request: as long as no save changes the items,
\* the rows are those of its page, or its package turns out to be a newer
\* one than the page's.
ReadHolds(c) ==
  \/ Replaces(c)
  \/ job[c].op \in PrepareOps /\ ppage[c].pkg # 0 /\ ppage[c].pkg < FirstPkg.version

\* A POST that has read everything.
WriteHolds(c) ==
  /\ Replaces(c)
  /\ prows \in {job[c].rows, NoRows}
  /\ job[c].pkg = NoPkg => pkgs = <<>>

JobHolds(c) ==
  LET k == job[c]
  IN  k = NoJob \/
      /\ k.op # "none"
      /\ k.req.version <= prq.version /\ k.req.items <= prq.items
      /\ k.pkg # NoPkg => /\ pkgs # <<>>
                          /\ 1 <= k.pkg.version /\ k.pkg.version <= FirstPkg.version
      /\ k.op \in Joined => k.pkg # NoPkg
      /\ k.op \notin Joined /\ k.step = "read" => k.pkg = NoPkg
      /\ k.op \in SaveOps => ppage[c].kind # "none"
      /\ k.op \in SaveOps /\ k.req.items = prq.items =>
           (k.step = "read" /\ ReadHolds(c)) \/ (k.step = "write" /\ WriteHolds(c))

PInv == PType /\ PkgSound /\ \A c \in Desks : PageHolds(c) /\ JobHolds(c)

-----------------------------------------------------------------------------
(* Packages: the steps *)

\* The first package has version 0 when there is none, and only then.
LEMMA FirstPkgFacts ==
  ASSUME PType, PkgSound
  PROVE  /\ FirstPkg \in PkgRows
         /\ pkgs = <<>> => FirstPkg = NoPkg /\ FirstPkg.version = 0
         /\ pkgs # <<>> => FirstPkg = pkgs[1] /\ FirstPkg # NoPkg /\ FirstPkg.version >= 1
<1>1. NoPkg \in PkgRows /\ NoPkg.version = 0
  BY Zenon DEF NoPkg, PkgRows
<1>2. CASE pkgs = <<>>
  BY Zenon, <1>1, <1>2 DEF FirstPkg
<1>3. CASE pkgs # <<>>
  <2>1. Len(pkgs) \in Nat /\ Len(pkgs) # 0
    BY <1>3 DEF PType
  <2>2. pkgs[1] \in PkgRows
    BY <2>1 DEF PType
  <2>3. pkgs[1].version >= 1 /\ pkgs[1].version \in Nat
    BY Zenon, <1>3, <2>2 DEF PkgSound, PkgRows
  <2> QED
    BY <1>1, <1>3, <2>2, <2>3 DEF FirstPkg
<1> QED
  BY Zenon, <1>2, <1>3

\* How a step may change the request, the package and its rows: versions
\* rise, and other rows are stored only with a version that rises.
PForward ==
  /\ prq.version <= prq'.version /\ prq.items <= prq'.items
  /\ FirstPkg.version <= FirstPkg'.version
  /\ pkgs # <<>> => pkgs' # <<>>
  /\ pkgs = <<>> /\ (prq'.version = prq.version \/ prq'.items = prq.items) => pkgs' = <<>>
  /\ prq'.items = prq.items => prows' \in {prows, NoRows}
  /\ prq'.version = prq.version /\ FirstPkg'.version = FirstPkg.version =>
       prows' \in {prows, NoRows}

\* A page and a job that a step leaves alone hold after it.
LEMMA OthersHold ==
  ASSUME PInv, PType', PkgSound', PForward, NEW d \in Desks,
         ppage'[d] = ppage[d], job'[d] = job[d]
  PROVE  PageHolds(d)' /\ JobHolds(d)'
<1> DEFINE p == ppage[d]
           k == job[d]
<1>1. /\ p \in PkgPages /\ k \in Jobs /\ prq \in Versions /\ prq' \in Versions
      /\ FirstPkg \in PkgRows /\ FirstPkg' \in PkgRows
  <2>1. PType /\ PkgSound
    BY DEF PInv
  <2>2. FirstPkg \in PkgRows
    BY Zenon, <2>1, FirstPkgFacts
  <2>3. FirstPkg' \in PkgRows
    <3>1. NoPkg \in PkgRows
      BY Zenon DEF NoPkg, PkgRows
    <3>2. CASE pkgs' = <<>>
      BY Zenon, <3>1, <3>2 DEF FirstPkg
    <3>3. CASE pkgs' # <<>>
      <4>1. pkgs' \in Seq(PkgRows) /\ Len(pkgs') \in Nat /\ Len(pkgs') # 0
        BY <3>3 DEF PType
      <4> QED
        BY <3>3, <4>1 DEF FirstPkg
    <3> QED
      BY Zenon, <3>2, <3>3
  <2> QED
    BY Zenon, <2>1, <2>2, <2>3 DEF PType
<1>2. /\ p.req \in Nat /\ p.pkg \in Nat /\ k.req.version \in Nat /\ k.req.items \in Nat
      /\ k.pkg.version \in Nat
      /\ prq.version \in Nat /\ prq.items \in Nat /\ prq'.version \in Nat /\ prq'.items \in Nat
      /\ FirstPkg.version \in Nat /\ FirstPkg'.version \in Nat
  BY Zenon, <1>1 DEF PkgPages, Jobs, Versions, PkgRows
<1>3. PageHolds(d) /\ JobHolds(d)
  BY DEF PInv
<1>4. PageHolds(d)'
  <2> SUFFICES ASSUME p.kind # "none"
               PROVE  /\ p.req <= prq'.version /\ p.pkg <= FirstPkg'.version
                      /\ p.req = prq'.version /\ p.pkg = 0 => pkgs' = <<>>
                      /\ p.req = prq'.version /\ p.pkg = FirstPkg'.version =>
                           prows' \in {p.rows, NoRows}
    BY Zenon DEF PageHolds, Replaces
  <2>1. /\ p.req <= prq.version /\ p.pkg <= FirstPkg.version
        /\ p.req = prq.version /\ p.pkg = 0 => pkgs = <<>>
        /\ p.req = prq.version /\ p.pkg = FirstPkg.version => prows \in {p.rows, NoRows}
    BY Zenon, <1>3 DEF PageHolds, Replaces
  <2> HIDE DEF p
  <2> QED
    BY <1>2, <2>1 DEF PForward
<1>5. JobHolds(d)'
  <2>1. CASE k = NoJob
    BY Zenon, <2>1 DEF JobHolds
  <2>2. CASE k # NoJob
    <3>1. /\ k.op # "none"
          /\ k.req.version <= prq.version /\ k.req.items <= prq.items
          /\ k.pkg # NoPkg => /\ pkgs # <<>>
                              /\ 1 <= k.pkg.version /\ k.pkg.version <= FirstPkg.version
          /\ k.op \in Joined => k.pkg # NoPkg
          /\ k.op \notin Joined /\ k.step = "read" => k.pkg = NoPkg
          /\ k.op \in SaveOps => p.kind # "none"
          /\ k.op \in SaveOps /\ k.req.items = prq.items =>
               (k.step = "read" /\ ReadHolds(d)) \/ (k.step = "write" /\ WriteHolds(d))
      BY Zenon, <1>3, <2>2 DEF JobHolds
    <3>2. k.req.version <= prq'.version /\ k.req.items <= prq'.items
      BY <1>2, <3>1 DEF PForward
    <3>3. k.pkg # NoPkg => /\ pkgs' # <<>>
                           /\ 1 <= k.pkg.version /\ k.pkg.version <= FirstPkg'.version
      BY <1>2, <3>1 DEF PForward
    <3>4. ASSUME k.op \in SaveOps, k.req.items = prq'.items
          PROVE  (k.step = "read" /\ ReadHolds(d)') \/ (k.step = "write" /\ WriteHolds(d)')
      <4>1. prq'.items = prq.items /\ k.req.items = prq.items
        BY <1>2, <3>1, <3>4 DEF PForward
      <4>2. prows' \in {prows, NoRows} /\ (pkgs = <<>> => pkgs' = <<>>)
        BY Zenon, <4>1 DEF PForward
      <4>3. ReadHolds(d) => ReadHolds(d)'
        BY <1>2, <4>2 DEF ReadHolds, Replaces, PForward
      <4>4. WriteHolds(d) => WriteHolds(d)'
        BY Zenon, <4>2 DEF WriteHolds, Replaces
      <4> QED
        BY Zenon, <3>1, <3>4, <4>1, <4>3, <4>4
    <3> QED
      BY Zenon, <3>1, <3>2, <3>3, <3>4 DEF JobHolds
  <2> QED
    BY Zenon, <2>1, <2>2
<1> QED
  BY <1>4, <1>5

\* A step that only reads, at desk c.
LEMMA ReadingStep ==
  ASSUME PInv, NEW c \in Desks, UNCHANGED <<prq, pkgs, prows>>,
         ppage' \in [Desks -> PkgPages], job' \in [Desks -> Jobs],
         \A d \in Desks \ {c} : ppage'[d] = ppage[d] /\ job'[d] = job[d],
         PageHolds(c)', JobHolds(c)'
  PROVE  PInv'
<1>1. PType' /\ PkgSound'
  BY Zenon DEF PInv, PType, PkgSound, OnePackage
<1>2. PForward
  <2>1. FirstPkg' = FirstPkg
    BY Zenon DEF FirstPkg
  <2>2. FirstPkg.version \in Nat /\ prq.version \in Nat /\ prq.items \in Nat
    BY Zenon, FirstPkgFacts DEF PInv, PType, PkgRows, Versions
  <2> QED
    BY <2>1, <2>2 DEF PForward
<1>3. \A d \in Desks \ {c} : PageHolds(d)' /\ JobHolds(d)'
  BY Zenon, <1>1, <1>2, OthersHold
<1> QED
  BY Zenon, <1>1, <1>3 DEF PInv

\* The pages and jobs at rest.
LEMMA AtRest == NoRows \in RowVersions /\ NoPkg \in PkgRows /\ NoPkgPage \in PkgPages /\ NoJob \in Jobs
<1>1. NoRows \in RowVersions
  BY DEF NoRows, RowVersions
<1>2. NoPkg \in PkgRows
  BY DEF NoPkg, PkgRows
<1>3. NoPkgPage \in PkgPages
  BY <1>1 DEF NoPkgPage, PkgPages
<1>4. NoJob \in Jobs
  BY Zenon, <1>1, <1>2 DEF NoJob, Jobs, Versions
<1> QED
  BY <1>1, <1>2, <1>3, <1>4

\* The job of a request that begins, and of a POST that has read the rows.
Begun(op, req, st, pkg) == [NoJob EXCEPT !.op = op, !.req = req, !.step = st, !.pkg = pkg]
RowsRead(k, pkg, rows, form) ==
  [k EXCEPT !.step = "write", !.pkg = pkg, !.rows = rows, !.form = form]

\* The job of a request that begins, field by field.
LEMMA BegunJob ==
  ASSUME NEW op, NEW req, NEW st, NEW pkg
  PROVE  Begun(op, req, st, pkg)
           = [op |-> op, form |-> {}, step |-> st, req |-> req, pkg |-> pkg, rows |-> NoRows]
<1> DEFINE x == [NoJob EXCEPT !.op = op]
           y == [x EXCEPT !.req = req]
           z == [y EXCEPT !.step = st]
<1>1. Begun(op, req, st, pkg) = [z EXCEPT !.pkg = pkg]
  BY DEF Begun
<1> HIDE DEF z
<1>2. z = [y EXCEPT !.step = st]
  BY DEF z
<1> HIDE DEF y
<1>3. y = [x EXCEPT !.req = req]
  BY DEF y
<1>4. x = [op |-> op, form |-> {}, step |-> NoJob.step, req |-> NoJob.req, pkg |-> NoJob.pkg,
           rows |-> NoRows]
  <2>1. NoJob = [op |-> NoJob.op, form |-> {}, step |-> NoJob.step, req |-> NoJob.req,
                 pkg |-> NoJob.pkg, rows |-> NoRows]
    BY Zenon DEF NoJob
  <2> QED
    BY <2>1
<1> HIDE DEF x
<1>5. y = [op |-> op, form |-> {}, step |-> NoJob.step, req |-> req, pkg |-> NoJob.pkg,
           rows |-> NoRows]
  BY Zenon, <1>3, <1>4
<1>6. z = [op |-> op, form |-> {}, step |-> st, req |-> req, pkg |-> NoJob.pkg, rows |-> NoRows]
  BY Zenon, <1>2, <1>5
<1> QED
  BY Zenon, <1>1, <1>6

\* The job of a POST that has read the rows, field by field.
LEMMA ReadJob ==
  ASSUME NEW k \in Jobs, NEW pkg, NEW rows, NEW form
  PROVE  RowsRead(k, pkg, rows, form)
           = [op |-> k.op, form |-> form, step |-> "write", req |-> k.req, pkg |-> pkg,
              rows |-> rows]
<1> DEFINE x == [k EXCEPT !.step = "write"]
           y == [x EXCEPT !.pkg = pkg]
           z == [y EXCEPT !.rows = rows]
<1>1. RowsRead(k, pkg, rows, form) = [z EXCEPT !.form = form]
  BY DEF RowsRead
<1> HIDE DEF z
<1>2. z = [y EXCEPT !.rows = rows]
  BY DEF z
<1> HIDE DEF y
<1>3. y = [x EXCEPT !.pkg = pkg]
  BY DEF y
<1>4. x = [op |-> k.op, form |-> k.form, step |-> "write", req |-> k.req, pkg |-> k.pkg,
           rows |-> k.rows]
  <2>1. k = [op |-> k.op, form |-> k.form, step |-> k.step, req |-> k.req, pkg |-> k.pkg,
             rows |-> k.rows]
    BY Zenon DEF Jobs
  <2> QED
    BY <2>1
<1> HIDE DEF x
<1>5. y = [op |-> k.op, form |-> k.form, step |-> "write", req |-> k.req, pkg |-> pkg,
           rows |-> k.rows]
  BY Zenon, <1>3, <1>4
<1>6. z = [op |-> k.op, form |-> k.form, step |-> "write", req |-> k.req, pkg |-> pkg,
           rows |-> rows]
  BY Zenon, <1>2, <1>5
<1> QED
  BY Zenon, <1>1, <1>6

\* A GET or a POST begins: it has read the request, and the package with it
\* or not.  A POST comes from a page that showed the request as it is.
LEMMA BeginStep ==
  ASSUME PInv, NEW c \in Desks, NEW op \in SaveOps \cup Views \cup {"review"}, Begin(c, op),
         \/ op \notin SaveOps /\ Leave(c)
         \/ /\ UNCHANGED ppage
            /\ op \in SaveOps /\ ppage[c].kind # "none" /\ ppage[c].req = prq.version
            /\ op \in ApproveOps => CurrentPackage(ppage[c].pkg, FirstPkg)
  PROVE  PInv'
<1> DEFINE joined == op \notin PrepareOps \cup {"prepare"}
           k == [op |-> op, form |-> {}, step |-> IF op = "review" THEN "write" ELSE "read",
                 req |-> prq, pkg |-> IF joined THEN FirstPkg ELSE NoPkg, rows |-> NoRows]
<1>1. PType /\ PkgSound /\ PageHolds(c)
  BY Zenon DEF PInv
<1>2. /\ FirstPkg \in PkgRows
      /\ pkgs = <<>> => FirstPkg = NoPkg /\ FirstPkg.version = 0
      /\ pkgs # <<>> => FirstPkg = pkgs[1] /\ FirstPkg # NoPkg /\ FirstPkg.version >= 1
  BY Zenon, <1>1, FirstPkgFacts
<1>3. /\ joined => FirstPkg.status = "P"
      /\ job' = [job EXCEPT ![c] = k]
      /\ UNCHANGED <<prq, pkgs, prows>>
  <2> DEFINE st == IF op = "review" THEN "write" ELSE "read"
             pkg == IF joined THEN FirstPkg ELSE NoPkg
  <2>1. k = [op |-> op, form |-> {}, step |-> st, req |-> prq, pkg |-> pkg, rows |-> NoRows]
    BY Zenon
  <2>2. /\ joined => FirstPkg.status = "P"
        /\ job' = [job EXCEPT ![c] = Begun(op, prq, st, pkg)]
        /\ UNCHANGED <<prq, pkgs, prows>>
    BY Zenon DEF Begin, Begun
  <2> HIDE DEF k, st, pkg
  <2>3. Begun(op, prq, st, pkg) = k
    BY Zenon, <2>1, BegunJob
  <2> QED
    BY Zenon, <2>2, <2>3
<1>4. k \in Jobs
  BY Zenon, <1>1, <1>2, AtRest DEF Jobs, PType
<1>5. joined <=> op \in Joined
  BY Zenon DEF Joined, SaveOps, PrepareOps, ApproveOps, Views
<1>6. joined => pkgs # <<>>
  BY <1>2, <1>3 DEF NoPkg
<1>7. /\ k.op = op /\ k.req = prq /\ k.pkg = (IF joined THEN FirstPkg ELSE NoPkg)
      /\ op # "review" => k.step = "read"
      /\ op = "review" => k.step = "write"
  BY Zenon
<1> HIDE DEF k, joined
<1>8. /\ job' \in [Desks -> Jobs] /\ job'[c] = k
      /\ \A d \in Desks \ {c} : job'[d] = job[d]
  BY Zenon, <1>1, <1>3, <1>4 DEF PType
<1>9. /\ ppage' \in [Desks -> PkgPages]
      /\ \A d \in Desks \ {c} : ppage'[d] = ppage[d]
      /\ op \in SaveOps => ppage' = ppage
      /\ op \notin SaveOps => ppage'[c] = NoPkgPage
  BY Zenon, <1>1, AtRest DEF PType, Leave
<1>10. PageHolds(c)'
  <2>1. CASE op \notin SaveOps
    BY <1>9, <2>1 DEF PageHolds, NoPkgPage
  <2>2. CASE op \in SaveOps
    BY Zenon, <1>1, <1>3, <1>9, <2>2 DEF PageHolds, Replaces, FirstPkg
  <2> QED
    BY Zenon, <2>1, <2>2
<1>11. FirstPkg' = FirstPkg
  BY Zenon, <1>3 DEF FirstPkg
<1>12. ASSUME op \in SaveOps PROVE ReadHolds(c)'
  <2>1. /\ ppage[c].kind # "none" /\ ppage[c].req = prq.version
        /\ op \in ApproveOps => CurrentPackage(ppage[c].pkg, FirstPkg)
    BY Zenon, <1>12
  <2>2. /\ ppage[c].pkg <= FirstPkg.version
        /\ ppage[c].pkg = 0 => pkgs = <<>>
        /\ ppage[c].pkg = FirstPkg.version => Replaces(c)
    BY Zenon, <1>1, <2>1 DEF PageHolds
  <2>3. ppage[c].pkg \in Nat /\ FirstPkg.version \in Nat
    BY Zenon, <1>1, <1>2 DEF PType, PkgPages, PkgRows
  <2>4. CASE op \in ApproveOps
    <3>1. joined
      BY Zenon, <1>5, <2>4 DEF Joined
    <3>2. ppage[c].pkg = FirstPkg.version
      BY Zenon, <1>2, <1>6, <2>1, <2>2, <2>4, <3>1 DEF CurrentPackage
    <3> QED
      BY Zenon, <1>3, <1>9, <1>12, <2>2, <3>2 DEF ReadHolds, Replaces
  <2>5. CASE op \in PrepareOps
    <3>1. ppage[c].pkg = 0 => ppage[c].pkg = FirstPkg.version
      BY Zenon, <1>2, <2>2
    <3> QED
      BY <1>3, <1>7, <1>8, <1>9, <1>11, <1>12, <2>2, <2>3, <2>5, <3>1 DEF ReadHolds, Replaces
  <2> QED
    BY Zenon, <1>12, <2>4, <2>5 DEF SaveOps
<1>13. JobHolds(c)'
  <2>1. op # "none" /\ (op \in SaveOps => op # "review")
    BY Zenon DEF SaveOps, PrepareOps, ApproveOps, Views
  <2>2. /\ k.pkg # NoPkg => /\ pkgs' # <<>>
                            /\ 1 <= k.pkg.version /\ k.pkg.version <= FirstPkg'.version
        /\ op \in Joined => k.pkg # NoPkg
        /\ op \notin Joined => k.pkg = NoPkg
    BY <1>2, <1>3, <1>5, <1>6, <1>7, <1>11 DEF PkgRows
  <2>3. k.req.version <= prq'.version /\ k.req.items <= prq'.items
    BY <1>1, <1>3, <1>7 DEF PType, Versions
  <2>4. op \in SaveOps => ppage'[c].kind # "none"
    BY Zenon, <1>9
  <2> QED
    BY Zenon, <1>7, <1>8, <1>12, <2>1, <2>2, <2>3, <2>4 DEF JobHolds
<1> QED
  BY Zenon, <1>3, <1>8, <1>9, <1>10, <1>13, ReadingStep

\* A POST reads the package, unless it has it, and its rows.
LEMMA ReadRowsStep ==
  ASSUME PInv, NEW c \in Desks, NEW form \in SUBSET Batches, read_rows(c, form)
  PROVE  PInv'
<1> DEFINE j == job[c]
           pkg == IF j.pkg = NoPkg THEN FirstPkg ELSE j.pkg
           k == [op |-> j.op, form |-> form, step |-> "write", req |-> j.req, pkg |-> pkg,
                 rows |-> prows]
<1>1. PType /\ PkgSound /\ PageHolds(c) /\ JobHolds(c)
  BY DEF PInv
<1>2. /\ FirstPkg \in PkgRows
      /\ pkgs = <<>> => FirstPkg = NoPkg /\ FirstPkg.version = 0
      /\ pkgs # <<>> => FirstPkg = pkgs[1] /\ FirstPkg # NoPkg /\ FirstPkg.version >= 1
  BY Zenon, <1>1, FirstPkgFacts
<1>3. j \in Jobs
  BY Zenon, <1>1 DEF PType
<1>4. /\ j.step = "read" /\ j.op \in SaveOps
      /\ CurrentPackage(ppage[c].pkg, pkg)
      /\ job' = [job EXCEPT ![c] = RowsRead(j, pkg, prows, form)]
      /\ UNCHANGED <<prq, pkgs, prows, ppage>>
  BY Zenon DEF read_rows, RowsRead, SaveOps
<1>5. pkg \in PkgRows /\ (pkg = NoPkg => j.pkg = NoPkg /\ pkgs = <<>>)
      /\ (j.pkg = NoPkg => pkg = FirstPkg)
  BY Zenon, <1>2, <1>3 DEF Jobs
<1>6. j # NoJob
  BY <1>4 DEF NoJob
<1>7. /\ j.op # "none"
      /\ j.req.version <= prq.version /\ j.req.items <= prq.items
      /\ j.pkg # NoPkg => /\ pkgs # <<>>
                          /\ 1 <= j.pkg.version /\ j.pkg.version <= FirstPkg.version
      /\ j.op \in Joined => j.pkg # NoPkg
      /\ j.op \notin Joined => j.pkg = NoPkg
      /\ ppage[c].kind # "none"
      /\ j.req.items = prq.items => ReadHolds(c)
  BY Zenon, <1>1, <1>4, <1>6 DEF JobHolds
<1>8. pkg # NoPkg => pkgs # <<>> /\ 1 <= pkg.version /\ pkg.version <= FirstPkg.version
  BY <1>2, <1>5, <1>7 DEF PkgRows
<1> HIDE DEF pkg
<1>9. RowsRead(j, pkg, prows, form) = k
  BY Zenon, <1>3, ReadJob
<1>10. k \in Jobs
  BY Zenon, <1>1, <1>3, <1>5 DEF Jobs, PType
<1>11. k.op = j.op /\ k.step = "write" /\ k.req = j.req /\ k.pkg = pkg /\ k.rows = prows
  BY Zenon
<1> HIDE DEF k
<1>12. /\ job' \in [Desks -> Jobs] /\ job'[c] = k
       /\ \A d \in Desks \ {c} : job'[d] = job[d]
  BY Zenon, <1>1, <1>4, <1>9, <1>10 DEF PType
<1>13. FirstPkg' = FirstPkg
  BY Zenon, <1>4 DEF FirstPkg
<1>14. PageHolds(c)'
  BY Zenon, <1>1, <1>4, <1>13 DEF PageHolds, Replaces
<1>15. ASSUME k.req.items = prq.items PROVE WriteHolds(c)'
  <2>1. ReadHolds(c)
    BY Zenon, <1>7, <1>11, <1>15
  <2>2. Replaces(c)
    <3> SUFFICES ASSUME j.op \in PrepareOps, ppage[c].pkg # 0, ppage[c].pkg < FirstPkg.version
                 PROVE  FALSE
      BY Zenon, <2>1 DEF ReadHolds
    <3>1. j.op \notin Joined
      BY Zenon DEF PrepareOps, Joined, ApproveOps
    <3>2. pkg = FirstPkg
      BY Zenon, <1>5, <1>7, <3>1
    <3>3. ppage[c].pkg \in Nat /\ FirstPkg.version \in Nat
      BY Zenon, <1>1, <1>2 DEF PType, PkgPages, PkgRows
    <3> QED
      BY <1>2, <1>4, <3>2, <3>3 DEF CurrentPackage, NoPkg
  <2> QED
    BY Zenon, <1>4, <1>5, <1>11, <1>12, <2>2 DEF WriteHolds, Replaces
<1>16. JobHolds(c)'
  <2>1. /\ k.op # "none" /\ k.step = "write"
        /\ k.req.version <= prq'.version /\ k.req.items <= prq'.items
        /\ k.pkg # NoPkg => /\ pkgs' # <<>>
                            /\ 1 <= k.pkg.version /\ k.pkg.version <= FirstPkg'.version
        /\ ppage'[c].kind # "none"
        /\ k.req.items = prq'.items => WriteHolds(c)'
    BY Zenon, <1>4, <1>7, <1>8, <1>11, <1>13, <1>15
  <2>2. k.op \in Joined => k.pkg # NoPkg
    BY Zenon, <1>5, <1>7, <1>11
  <2> QED
    BY Zenon, <1>12, <2>1, <2>2 DEF JobHolds
<1> QED
  BY Zenon, <1>1, <1>4, <1>12, <1>14, <1>16, ReadingStep DEF PType

\* A page is shown: its rows are read last.
LEMMA ShowStep ==
  ASSUME PInv, NEW c \in Desks, show_page(c)
  PROVE  PInv'
<1> DEFINE j == job[c]
           pkg == IF j.pkg = NoPkg THEN FirstPkg ELSE j.pkg
           p == [kind |-> j.op, req |-> j.req.version, pkg |-> pkg.version, rows |-> prows]
<1>1. PType /\ PkgSound /\ JobHolds(c)
  BY DEF PInv
<1>2. /\ FirstPkg \in PkgRows
      /\ pkgs = <<>> => FirstPkg = NoPkg /\ FirstPkg.version = 0
      /\ pkgs # <<>> => FirstPkg = pkgs[1] /\ FirstPkg # NoPkg /\ FirstPkg.version >= 1
  BY Zenon, <1>1, FirstPkgFacts
<1>3. j \in Jobs
  BY Zenon, <1>1 DEF PType
<1>4. /\ j.step = "read" /\ j.op \in Views
      /\ ppage' = [ppage EXCEPT ![c] = p]
      /\ job' = [job EXCEPT ![c] = NoJob]
      /\ UNCHANGED <<prq, pkgs, prows>>
  BY Zenon DEF show_page
<1>5. j # NoJob
  BY <1>4 DEF NoJob
<1>6. /\ j.req.version <= prq.version
      /\ j.pkg # NoPkg => /\ pkgs # <<>>
                          /\ 1 <= j.pkg.version /\ j.pkg.version <= FirstPkg.version
  BY Zenon, <1>1, <1>5 DEF JobHolds
<1>7. /\ pkg \in PkgRows /\ pkg.version \in Nat
      /\ pkg.version <= FirstPkg.version
      /\ pkg.version = 0 => pkgs = <<>>
  BY <1>2, <1>3, <1>6 DEF Jobs, PkgRows
<1> HIDE DEF pkg
<1>8. p \in PkgPages
  BY Zenon, <1>1, <1>3, <1>4, <1>7 DEF Jobs, PkgPages, PType, Versions
<1>9. p.req = j.req.version /\ p.pkg = pkg.version /\ p.rows = prows
  BY Zenon
<1> HIDE DEF p
<1>10. /\ ppage' \in [Desks -> PkgPages] /\ job' \in [Desks -> Jobs]
       /\ ppage'[c] = p /\ job'[c] = NoJob
       /\ \A d \in Desks \ {c} : ppage'[d] = ppage[d] /\ job'[d] = job[d]
  BY Zenon, <1>1, <1>4, <1>8, AtRest DEF PType
<1>11. FirstPkg' = FirstPkg
  BY Zenon, <1>4 DEF FirstPkg
<1>12. PageHolds(c)'
  BY Zenon, <1>4, <1>6, <1>7, <1>9, <1>10, <1>11 DEF PageHolds, Replaces
<1>13. JobHolds(c)'
  BY Zenon, <1>10 DEF JobHolds
<1> QED
  BY Zenon, <1>4, <1>10, <1>12, <1>13, ReadingStep

\* A request that ends without a write.
LEMMA AbandonStep ==
  ASSUME PInv, NEW c \in Desks, abandon(c)
  PROVE  PInv'
<1>1. PType
  BY DEF PInv
<1>2. /\ ppage' = [ppage EXCEPT ![c] = NoPkgPage]
      /\ job' = [job EXCEPT ![c] = NoJob]
      /\ UNCHANGED <<prq, pkgs, prows>>
  BY Zenon DEF abandon, Leave
<1>3. /\ ppage' \in [Desks -> PkgPages] /\ job' \in [Desks -> Jobs]
      /\ ppage'[c] = NoPkgPage /\ job'[c] = NoJob
      /\ \A d \in Desks \ {c} : ppage'[d] = ppage[d] /\ job'[d] = job[d]
  BY Zenon, <1>1, <1>2, AtRest DEF PType
<1>4. PageHolds(c)' /\ JobHolds(c)'
  BY <1>3 DEF PageHolds, JobHolds, NoPkgPage
<1> QED
  BY Zenon, <1>2, <1>3, <1>4, ReadingStep

\* The package after a write: still one, with a version that has risen when
\* the row was written.
LEMMA WritePackage ==
  ASSUME PInv, NEW c \in Desks, write_package(c, job[c]), job[c] # NoJob,
         job[c].pkg = NoPkg => pkgs = <<>>
  PROVE  /\ pkgs' \in Seq(PkgRows) /\ pkgs' # <<>> /\ OnePackage'
         /\ pkgs'[1].version >= 1
         /\ FirstPkg'.version \in Nat /\ FirstPkg.version <= FirstPkg'.version
         /\ pkgs # <<>> /\ WritesPackage(job[c]) => FirstPkg.version < FirstPkg'.version
<1> DEFINE k == job[c]
           row == [status |-> PkgStatus(k), verify |-> PkgVerify(k),
                   by |-> IF k.pkg = NoPkg THEN c ELSE k.pkg.by, version |-> k.pkg.version + 1]
<1>1. PType /\ PkgSound /\ JobHolds(c)
  BY Zenon DEF PInv
<1>2. /\ FirstPkg \in PkgRows /\ FirstPkg.version \in Nat
      /\ pkgs = <<>> => FirstPkg = NoPkg /\ FirstPkg.version = 0
      /\ pkgs # <<>> => FirstPkg = pkgs[1] /\ FirstPkg # NoPkg /\ FirstPkg.version >= 1
  BY Zenon, <1>1, FirstPkgFacts DEF PkgRows
<1>3. k \in Jobs /\ k.pkg \in PkgRows
  BY Zenon, <1>1 DEF PType, Jobs
<1>4. k.pkg # NoPkg => pkgs # <<>>
  BY Zenon, <1>1 DEF JobHolds
<1>5. row \in PkgRows /\ row.version = k.pkg.version + 1 /\ k.pkg.version \in Nat
  BY <1>3 DEF PkgRows, PkgStatus, PkgVerify
<1>6. /\ SamePackage(k)
      /\ pkgs' = IF k.pkg = NoPkg THEN Append(pkgs, row)
                 ELSE IF WritesPackage(k) THEN [pkgs EXCEPT ![1] = row] ELSE pkgs
  BY Zenon DEF write_package
<1> HIDE DEF row
<1>7. CASE k.pkg = NoPkg
  <2>1. pkgs = <<>> /\ pkgs' = Append(pkgs, row)
    BY Zenon, <1>6, <1>7
  <2>2. pkgs' = <<row>>
    BY <2>1
  <2>3. pkgs' \in Seq(PkgRows) /\ Len(pkgs') = 1 /\ pkgs' # <<>> /\ pkgs'[1] = row
    BY <1>5, <2>2
  <2>4. FirstPkg' = row
    BY Zenon, <2>3 DEF FirstPkg
  <2> QED
    BY <1>2, <1>5, <2>1, <2>3, <2>4 DEF OnePackage
<1>8. CASE k.pkg # NoPkg /\ WritesPackage(k)
  <2>1. pkgs # <<>> /\ pkgs' = [pkgs EXCEPT ![1] = row]
    BY Zenon, <1>4, <1>6, <1>8
  <2>2. FirstPkg.version = k.pkg.version
    BY Zenon, <1>6, <1>8 DEF SamePackage
  <2>3. Len(pkgs) = 1 /\ pkgs \in Seq(PkgRows)
    <3>1. pkgs \in Seq(PkgRows) /\ Len(pkgs) <= 1
      BY Zenon, <1>1 DEF PkgSound, OnePackage, PType
    <3> DEFINE n == Len(pkgs)
    <3>2. n \in Nat /\ n # 0 /\ n <= 1
      BY <2>1, <3>1
    <3> HIDE DEF n
    <3>3. n = 1
      BY <3>2
    <3> QED
      BY Zenon, <3>1, <3>3 DEF n
  <2>4. pkgs' \in Seq(PkgRows) /\ Len(pkgs') = 1 /\ pkgs' # <<>> /\ pkgs'[1] = row
    BY <1>5, <2>1, <2>3
  <2>5. FirstPkg' = row
    BY <2>4 DEF FirstPkg
  <2> QED
    BY <1>2, <1>5, <2>2, <2>4, <2>5 DEF OnePackage
<1>9. CASE k.pkg # NoPkg /\ ~ WritesPackage(k)
  <2>1. pkgs # <<>> /\ pkgs' = pkgs
    BY Zenon, <1>4, <1>6, <1>9
  <2>2. FirstPkg' = FirstPkg
    BY Zenon, <2>1 DEF FirstPkg
  <2> QED
    BY <1>1, <1>2, <1>9, <2>1, <2>2 DEF OnePackage, PType, PkgSound
<1> QED
  BY Zenon, <1>7, <1>8, <1>9

\* The rows after a save are a form's.
LEMMA RowsAfterType ==
  ASSUME PType, NEW k \in Jobs
  PROVE  RowsAfter(k) \in RowVersions
BY DEF PType, Jobs, RowVersions, RowsAfter

\* A form is saved.
LEMMA SaveStep ==
  ASSUME PInv, NEW c \in Desks, save(c)
  PROVE  PInv'
<1> DEFINE k == job[c]
<1>1. PType /\ PkgSound /\ JobHolds(c)
  BY DEF PInv
<1>2. /\ k.step = "write" /\ k.op \in SaveOps
      /\ SameRequest(k)
      /\ prq' = [version |-> IF k.op = "save_draft_approval" THEN prq.version ELSE prq.version + 1,
                 items |-> prq.items + 1]
      /\ write_package(c, k)
      /\ prows' = RowsAfter(k)
      /\ job' = [job EXCEPT ![c] = NoJob]
      /\ ppage' = [ppage EXCEPT ![c] = NoPkgPage]
  BY Zenon DEF save, SaveOps, Leave
<1>3. k # NoJob /\ k.op # "review"
  BY <1>2 DEF NoJob, SaveOps, PrepareOps, ApproveOps
<1>4. k.req.items = prq.items
  BY Zenon, <1>2, <1>3 DEF SameRequest
<1>5. WriteHolds(c)
  BY Zenon, <1>1, <1>2, <1>3, <1>4 DEF JobHolds
<1>6. /\ pkgs' \in Seq(PkgRows) /\ pkgs' # <<>> /\ OnePackage'
      /\ pkgs'[1].version >= 1
      /\ FirstPkg'.version \in Nat /\ FirstPkg.version <= FirstPkg'.version
      /\ pkgs # <<>> /\ WritesPackage(k) => FirstPkg.version < FirstPkg'.version
  BY Zenon, <1>2, <1>3, <1>5, WritePackage DEF WriteHolds
<1>7. FirstPkg.version \in Nat /\ prq.version \in Nat /\ prq.items \in Nat
  BY Zenon, <1>1, FirstPkgFacts DEF PType, PkgRows, Versions
<1>8. /\ prq' \in Versions /\ prq'.items = prq.items + 1 /\ prq'.version >= prq.version
      /\ k.op # "save_draft_approval" => prq'.version = prq.version + 1
  BY <1>2, <1>7 DEF Versions
<1>9. k.op = "save_draft_approval" => pkgs # <<>> /\ WritesPackage(k)
  BY Zenon, <1>1, <1>3 DEF JobHolds, WritesPackage, Joined, ApproveOps
<1>10. /\ ppage' \in [Desks -> PkgPages] /\ job' \in [Desks -> Jobs]
       /\ ppage'[c] = NoPkgPage /\ job'[c] = NoJob
       /\ \A d \in Desks \ {c} : ppage'[d] = ppage[d] /\ job'[d] = job[d]
  BY Zenon, <1>1, <1>2, AtRest DEF PType
<1>11. PType'
  <2>1. prows' \in RowVersions
    BY Zenon, <1>1, <1>2, RowsAfterType DEF PType
  <2> QED
    BY Zenon, <1>6, <1>8, <1>10, <2>1 DEF PType
<1>12. PkgSound'
  BY Zenon, <1>6 DEF PkgSound
<1>13. PForward
  BY <1>6, <1>7, <1>8, <1>9 DEF PForward
<1>14. \A d \in Desks \ {c} : PageHolds(d)' /\ JobHolds(d)'
  BY Zenon, <1>10, <1>11, <1>12, <1>13, OthersHold
<1>15. PageHolds(c)' /\ JobHolds(c)'
  BY <1>10 DEF PageHolds, JobHolds, NoPkgPage
<1> QED
  BY <1>11, <1>12, <1>14, <1>15 DEF PInv

\* A manager dispatches the stored rows.
LEMMA DispatchStep ==
  ASSUME PInv, NEW c \in Desks, dispatch_reviewed(c)
  PROVE  PInv'
<1> DEFINE k == job[c]
<1>1. PType /\ PkgSound /\ JobHolds(c) /\ PageHolds(c)
  BY DEF PInv
<1>2. /\ k.step = "write" /\ k.op = "review"
      /\ write_package(c, k)
      /\ prq' = [prq EXCEPT !.version = @ + 1]
      /\ job' = [job EXCEPT ![c] = NoJob]
      /\ UNCHANGED <<prows, ppage>>
  BY Zenon DEF dispatch_reviewed
<1>3. k # NoJob
  BY <1>2 DEF NoJob
<1>4. k.pkg # NoPkg /\ pkgs # <<>>
  BY Zenon, <1>1, <1>2, <1>3 DEF JobHolds, Joined
<1>5. /\ pkgs' \in Seq(PkgRows) /\ pkgs' # <<>> /\ OnePackage'
      /\ pkgs'[1].version >= 1
      /\ FirstPkg'.version \in Nat /\ FirstPkg.version <= FirstPkg'.version
  BY Zenon, <1>2, <1>3, <1>4, WritePackage
<1>6. FirstPkg.version \in Nat /\ prq.version \in Nat /\ prq.items \in Nat
  BY Zenon, <1>1, FirstPkgFacts DEF PType, PkgRows, Versions
<1>7. prq' \in Versions /\ prq'.items = prq.items /\ prq'.version = prq.version + 1
  <2>1. prq = [version |-> prq.version, items |-> prq.items]
    BY Zenon, <1>1 DEF PType, Versions
  <2>2. prq' = [version |-> prq.version + 1, items |-> prq.items]
    BY Zenon, <1>2, <2>1
  <2> QED
    BY <1>6, <2>2 DEF Versions
<1>8. /\ job' \in [Desks -> Jobs] /\ job'[c] = NoJob
      /\ \A d \in Desks \ {c} : job'[d] = job[d]
  BY Zenon, <1>1, <1>2, AtRest DEF PType
<1>9. PType' /\ PkgSound'
  BY Zenon, <1>1, <1>2, <1>5, <1>7, <1>8 DEF PType, PkgSound
<1>10. PForward
  BY <1>2, <1>4, <1>5, <1>6, <1>7 DEF PForward
<1>11. \A d \in Desks \ {c} : PageHolds(d)' /\ JobHolds(d)'
  BY Zenon, <1>2, <1>8, <1>9, <1>10, OthersHold
<1>12. JobHolds(c)'
  BY Zenon, <1>8 DEF JobHolds
<1>13. PageHolds(c)'
  <2>1. ppage[c] \in PkgPages /\ ppage[c].req \in Nat /\ ppage[c].pkg \in Nat
    BY Zenon, <1>1 DEF PType, PkgPages
  <2> QED
    BY <1>1, <1>2, <1>5, <1>6, <1>7, <2>1 DEF PageHolds
<1> QED
  BY <1>9, <1>11, <1>12, <1>13 DEF PInv

\* All rows of the package are deleted.
LEMMA CancelStep ==
  ASSUME PInv, NEW c \in Desks, cancel_preparation(c)
  PROVE  PInv'
<1>1. PType /\ PkgSound
  BY DEF PInv
<1>2. prows' = NoRows /\ UNCHANGED <<prq, pkgs, ppage, job>>
  BY DEF cancel_preparation
<1>3. PType' /\ PkgSound'
  BY Zenon, <1>1, <1>2, AtRest DEF PType, PkgSound, OnePackage
<1>4. FirstPkg' = FirstPkg
  BY <1>2 DEF FirstPkg
<1>5. FirstPkg.version \in Nat /\ prq.version \in Nat /\ prq.items \in Nat
  BY Zenon, <1>1, FirstPkgFacts DEF PType, PkgRows, Versions
<1>6. PForward
  BY <1>2, <1>4, <1>5 DEF PForward
<1> QED
  BY Zenon, <1>2, <1>3, <1>6, OthersHold DEF PInv

\* The invariant holds at the start, with and without a package.
LEMMA PInvInit == PInit => PInv
<1> SUFFICES ASSUME PInit PROVE PInv
  OBVIOUS
<1>1. /\ prq = [version |-> 1, items |-> 1]
      /\ ppage = [c \in Desks |-> NoPkgPage] /\ job = [c \in Desks |-> NoJob]
  BY Zenon DEF PInit
<1>2. \A c \in Desks : PageHolds(c) /\ JobHolds(c)
  BY Zenon, <1>1 DEF PageHolds, JobHolds, NoPkgPage
<1>3. CASE pkgs = <<>> /\ prows = NoRows
  BY <1>1, <1>2, <1>3, AtRest DEF PInv, PType, Versions, PkgSound, OnePackage
<1>4. CASE /\ \E c \in Desks, v \in {"none", "pending"} :
                pkgs = <<[status |-> "P", verify |-> v, by |-> c, version |-> 1]>>
           /\ prows = [b \in Batches |-> 1]
  <2>1. PICK c \in Desks, v \in {"none", "pending"} :
          pkgs = <<[status |-> "P", verify |-> v, by |-> c, version |-> 1]>>
    BY Zenon, <1>4
  <2> DEFINE row == [status |-> "P", verify |-> v, by |-> c, version |-> 1]
  <2>2. row \in PkgRows /\ row.version = 1
    BY Zenon DEF PkgRows
  <2>3. pkgs = <<row>>
    BY Zenon, <2>1
  <2> HIDE DEF row
  <2>4. pkgs \in Seq(PkgRows) /\ Len(pkgs) = 1 /\ pkgs # <<>> /\ pkgs[1].version = 1
    BY <2>2, <2>3
  <2>5. prows \in RowVersions
    BY Zenon, <1>4 DEF RowVersions
  <2> QED
    BY <1>1, <1>2, <2>4, <2>5, AtRest DEF PInv, PType, Versions, PkgSound, OnePackage
<1> QED
  BY Zenon, <1>3, <1>4 DEF PInit

\* Every step at a desk preserves it.
LEMMA PInvNext == PInv /\ [PNext]_pvars => PInv'
<1> SUFFICES ASSUME PInv, [PNext]_pvars PROVE PInv'
  OBVIOUS
<1>1. CASE UNCHANGED pvars
  <2>1. UNCHANGED <<prq, pkgs, prows, ppage, job>>
    BY <1>1 DEF pvars
  <2>2. PType' /\ PkgSound'
    BY Zenon, <2>1 DEF PInv, PType, PkgSound, OnePackage
  <2>3. PForward
    BY <2>1, FirstPkgFacts DEF PForward, FirstPkg, PInv, PType, PkgRows, Versions
  <2> QED
    BY Zenon, <2>1, <2>2, <2>3, OthersHold DEF PInv
<1>2. ASSUME NEW c \in Desks,
             prepare_package(c) \/ approve_package(c) \/ review_approval(c)
      PROVE  PInv'
  BY Zenon, <1>2, BeginStep DEF prepare_package, approve_package, review_approval, SaveOps,
                         PrepareOps, ApproveOps, Views
<1>3. ASSUME NEW c \in Desks, NEW op \in PrepareOps, post_prepare(c, op)
      PROVE  PInv'
  <2>1. op \in SaveOps /\ op \notin ApproveOps
    BY DEF SaveOps, PrepareOps, ApproveOps
  <2> QED
    BY Zenon, <1>3, <2>1, BeginStep DEF post_prepare
<1>4. ASSUME NEW c \in Desks, NEW op \in ApproveOps, post_approve(c, op)
      PROVE  PInv'
  BY Zenon, <1>4, BeginStep DEF post_approve, SaveOps
<1> QED
  BY Zenon, <1>1, <1>2, <1>3, <1>4, ReadRowsStep, ShowStep, SaveStep, DispatchStep, CancelStep,
     AbandonStep DEF PNext

-----------------------------------------------------------------------------
(* Packages: the theorems *)

\* Only a save of its own form changes the items while a desk's job ends.
LEMMA SavesIsSave ==
  ASSUME PInv, [PNext]_pvars, NEW c \in Desks, Saves(c)
  PROVE  /\ save(c)
         /\ Replaces(c) /\ prows \in {job[c].rows, NoRows}
         /\ job[c] \in Jobs
<1>1. PType /\ JobHolds(c) /\ job[c] \in Jobs
  BY Zenon DEF PInv, PType
<1>2. prq'.items # prq.items /\ job'[c] # job[c]
  BY Zenon DEF Saves
<1>3. PICK d \in Desks : save(d)
  <2>1. ~ UNCHANGED prq
    BY <1>2
  <2>2. ASSUME NEW d \in Desks, dispatch_reviewed(d) PROVE FALSE
    <3>1. prq = [version |-> prq.version, items |-> prq.items]
      BY Zenon, <1>1 DEF PType, Versions
    <3>2. prq' = [prq EXCEPT !.version = @ + 1]
      BY Zenon, <2>2 DEF dispatch_reviewed
    <3>3. prq'.items = prq.items
      BY Zenon, <3>1, <3>2
    <3> QED
      BY Zenon, <1>2, <3>3
  <2> QED
    BY <2>1, <2>2 DEF PNext, pvars, prepare_package, approve_package, review_approval, Begin,
       post_prepare, post_approve, read_rows, show_page, cancel_preparation, abandon
<1>4. save(c)
  <2>1. job' = [job EXCEPT ![d] = NoJob]
    BY Zenon, <1>3 DEF save
  <2>2. d # c => job'[c] = job[c]
    BY Zenon, <1>1, <2>1 DEF PType
  <2> QED
    BY Zenon, <1>2, <1>3, <2>2
<1>5. job[c].step = "write" /\ job[c].op \in SaveOps /\ SameRequest(job[c])
  BY Zenon, <1>4 DEF save, SaveOps
<1>6. job[c] # NoJob /\ job[c].op # "review"
  BY <1>5 DEF NoJob, SaveOps, PrepareOps, ApproveOps
<1>7. job[c].req.items = prq.items
  BY Zenon, <1>5, <1>6 DEF SameRequest
<1>8. WriteHolds(c)
  BY Zenon, <1>1, <1>5, <1>6, <1>7 DEF JobHolds
<1> QED
  BY Zenon, <1>1, <1>4, <1>8 DEF WriteHolds

\* Two first saves of one request make one package, for any number of desks:
\* the save that comes second finds the version of the request's items gone.
THEOREM RequestHasOnePackage == PSpec => []OnePackage
<1>1. PInv => OnePackage
  BY Zenon DEF PInv, PkgSound
<1> QED
  BY <1>1, PInvInit, PInvNext, PTL DEF PSpec

\* No save overwrites the rows of a save its page did not show, although no
\* single version covers them: the versions of the request, of its items and
\* of the package do so together.
THEOREM NoSaveUnseen == PSpec => SaveReplacesShown
<1>1. PInv /\ [PNext]_pvars =>
        [\A c \in Desks : Saves(c) => prows \in {ppage[c].rows, NoRows}]_pvars
  BY Zenon, SavesIsSave DEF Replaces
<1> QED
  BY <1>1, PInvInit, PInvNext, PTL DEF PSpec, SaveReplacesShown

\* A save stores the rows of its form and no others: the rows it read before
\* are still there, or were cancelled, when the items have not changed.
THEOREM FormStoredAsEntered == PSpec => SavedAsEntered
<1>1. ASSUME PInv, [PNext]_pvars, NEW c \in Desks, Saves(c)
      PROVE  {b \in Batches : prows'[b] > 0} = job[c].form
  <2>1. save(c) /\ prows \in {job[c].rows, NoRows} /\ job[c] \in Jobs
    BY Zenon, <1>1, SavesIsSave
  <2>2. prows' = RowsAfter(job[c])
    BY Zenon, <2>1 DEF save
  <2>3. job[c].form \subseteq Batches /\ job[c].rows \in [Batches -> Nat]
    BY Zenon, <2>1 DEF Jobs, RowVersions
  <2>4. ASSUME NEW b \in Batches PROVE prows'[b] > 0 <=> b \in job[c].form
    <3>1. prows[b] \in {job[c].rows[b], 0}
      BY Zenon, <2>1 DEF NoRows
    <3> DEFINE form == job[c].form
               r == job[c].rows[b]
    <3>2. prows'[b] = IF b \in form THEN r + 1 ELSE IF r > 0 THEN 0 ELSE prows[b]
      BY Zenon, <2>2 DEF RowsAfter
    <3>3. r \in Nat
      BY Zenon, <2>3
    <3> HIDE DEF form, r
    <3>4. CASE b \in form
      <4>1. prows'[b] = r + 1
        BY <3>2, <3>4
      <4> QED
        BY <3>3, <3>4, <4>1 DEF form
    <3>5. CASE b \notin form /\ r > 0
      <4>1. prows'[b] = 0
        BY <3>2, <3>5
      <4> QED
        BY <3>5, <4>1 DEF form
    <3>6. CASE b \notin form /\ r = 0
      <4>1. prows'[b] = prows[b]
        BY <3>2, <3>6
      <4>2. prows[b] = 0
        BY Zenon, <3>1, <3>6 DEF r
      <4> QED
        BY <3>6, <4>1, <4>2 DEF form
    <3> QED
      BY <3>3, <3>4, <3>5, <3>6
  <2> QED
    BY Zenon, <2>3, <2>4
<1>2. PInv /\ [PNext]_pvars =>
        [\A c \in Desks : Saves(c) => {b \in Batches : prows'[b] > 0} = job[c].form]_pvars
  BY Zenon, <1>1
<1> QED
  BY <1>2, PInvInit, PInvNext, PTL DEF PSpec, SavedAsEntered

=============================================================================
