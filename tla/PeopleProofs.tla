---------------------------- MODULE PeopleProofs ----------------------------
(***************************************************************************)
(* Proofs about People, for any users, sessions, desks and requests.  All  *)
(* areas share one argument: a handler works on a copy of a row, and the   *)
(* copy is the row as long as the versions agree.  What the versions do    *)
(* not cover (the roles of a user, the notices) is tied to a version that  *)
(* changes with it.  The forms of a package have their proofs in           *)
(* ReliefRequestProofs.                                                    *)
(***************************************************************************)
EXTENDS People, FiniteSetTheorems, TLAPS

-----------------------------------------------------------------------------
(* Sequences *)

\* The elements of a sequence.
LEMMA SeqElements ==
  ASSUME NEW S, NEW s \in Seq(S)
  PROVE  /\ Len(s) \in Nat /\ DOMAIN s = 1 .. Len(s)
         /\ \A i \in 1 .. Len(s) : s[i] \in S
OBVIOUS

\* A function on 1 .. n is a sequence.
LEMMA SeqOfFunction ==
  ASSUME NEW S, NEW n \in Nat, NEW s \in [1 .. n -> S]
  PROVE  s \in Seq(S) /\ Len(s) = n
OBVIOUS

\* Sequences with the same elements are equal.
LEMMA SeqSame ==
  ASSUME NEW S, NEW s \in Seq(S), NEW t \in Seq(S), Len(s) = Len(t),
         \A i \in 1 .. Len(s) : s[i] = t[i]
  PROVE  s = t
OBVIOUS

\* The elements of two sequences joined.
LEMMA SeqJoined ==
  ASSUME NEW S, NEW s \in Seq(S), NEW t \in Seq(S)
  PROVE  /\ s \o t \in Seq(S) /\ Len(s \o t) = Len(s) + Len(t)
         /\ \A i \in 1 .. Len(s) + Len(t) :
              (s \o t)[i] = IF i <= Len(s) THEN s[i] ELSE t[i - Len(s)]
OBVIOUS

-----------------------------------------------------------------------------
(* Account requests *)

AStatuses == {"none", "S", "R", "A", "D"}
AEvents == {"submitted", "moved_to_review", "approved", "denied"}
ARows == [status : AStatuses, email : Contacts \cup {"none"}, version : Nat]

CreateTasks == [op : {"create"}, r : Requests, email : Contacts]
SetTasks == [op : {"set"}, r : Requests, was : ARows, status : AStatuses, event : AEvents]

AType ==
  /\ areq \in [Requests -> ARows]
  /\ audit \in [Requests -> Seq(AEvents)]
  /\ atask \in [Sessions -> {NoTask} \cup CreateTasks \cup SetTasks]

\* The steps of the workflow: from a status, to another, with an event.
Course(from, to, event) ==
  \/ from = "S" /\ to = "R" /\ event = "moved_to_review"
  \/ from \in {"S", "R"} /\ to = "A" /\ event = "approved"
  \/ from \in {"S", "R"} /\ to = "D" /\ event = "denied"

\* What a handler that is about to update knows.
CopyHolds(k, rows) ==
  /\ Course(k.was.status, k.status, k.event)
  /\ k.was.version <= rows[k.r].version
  /\ k.was.version = rows[k.r].version => k.was = rows[k.r]

Copies == \A s \in Sessions : atask[s].op = "set" => CopyHolds(atask[s], areq)

AInv == AType /\ Copies /\ AuditTellsStatus

\* An event at the end of a log of one event.
LEMMA Append1 ==
  ASSUME NEW a \in AEvents, NEW e \in AEvents
  PROVE  Append(<<a>>, e) = <<a, e>>
<1>. DEFINE x == Append(<<a>>, e)
            y == <<a, e>>
<1>1. x \in Seq(AEvents) /\ y \in Seq(AEvents)
  OBVIOUS
<1>2. Len(x) = 2 /\ Len(y) = 2
  OBVIOUS
<1>3. x[1] = y[1] /\ x[2] = y[2]
  OBVIOUS
<1>. HIDE DEF x, y
<1>4. \A i \in 1..Len(x) : x[i] = y[i]
  BY <1>2, <1>3
<1>5. x = y
  BY Zenon, <1>1, <1>2, <1>4, SeqSame
<1>. QED BY <1>5 DEF x, y

\* The same for a log of two events.
LEMMA Append2 ==
  ASSUME NEW a \in AEvents, NEW b \in AEvents, NEW e \in AEvents
  PROVE  Append(<<a, b>>, e) = <<a, b, e>>
<1>. DEFINE x == Append(<<a, b>>, e)
            y == <<a, b, e>>
<1>1. x \in Seq(AEvents) /\ y \in Seq(AEvents)
  OBVIOUS
<1>2. Len(x) = 3 /\ Len(y) = 3
  OBVIOUS
<1>3. x[1] = y[1] /\ x[2] = y[2] /\ x[3] = y[3]
  OBVIOUS
<1>. HIDE DEF x, y
<1>4. \A i \in 1..Len(x) : x[i] = y[i]
  BY <1>2, <1>3
<1>5. x = y
  BY Zenon, <1>1, <1>2, <1>4, SeqSame
<1>. QED BY Zenon, <1>5 DEF x, y

\* Following the workflow keeps the log telling the status.
LEMMA CourseExtends ==
  ASSUME NEW from, NEW to, NEW event, NEW log \in Seq(AEvents),
         Course(from, to, event), log \in Courses[from]
  PROVE  Append(log, event) \in Courses[to]
<1>0. event \in AEvents
  BY Zenon DEF Course, AEvents
<1>1. CASE from = "S"
  <2>1. log = <<"submitted">>
    BY Zenon, <1>1 DEF Courses
  <2>2. Append(log, event) = <<"submitted", event>>
    BY Zenon, <1>0, <2>1, Append1 DEF AEvents
  <2>3. \/ to = "R" /\ event = "moved_to_review"
        \/ to = "A" /\ event = "approved"
        \/ to = "D" /\ event = "denied"
    BY Zenon, <1>1 DEF Course
  <2>. QED BY <2>2, <2>3 DEF Courses
<1>2. CASE from = "R"
  <2>1. log = <<"submitted", "moved_to_review">>
    BY Zenon, <1>2 DEF Courses
  <2>2. Append(log, event) = <<"submitted", "moved_to_review", event>>
    BY <1>0, <2>1, Append2 DEF AEvents
  <2>3. \/ to = "A" /\ event = "approved"
        \/ to = "D" /\ event = "denied"
    BY Zenon, <1>2 DEF Course
  <2>. QED BY <2>2, <2>3 DEF Courses
<1>. QED BY Zenon, <1>1, <1>2 DEF Course

\* No request, no handler: the invariant holds at the start.
LEMMA AInitial == AInit => AInv
<1>. SUFFICES ASSUME AInit PROVE AInv
  OBVIOUS
<1>1. AType
  BY DEF AInit, AType, ARows, AStatuses, NotSubmitted
<1>2. Copies
  BY Zenon DEF AInit, Copies, NoTask
<1>3. AuditTellsStatus
  BY Zenon DEF AInit, AuditTellsStatus, NotSubmitted, Courses
<1>. QED BY <1>1, <1>2, <1>3 DEF AInv

\* A step that changes no row and starts or ends one handler.
LEMMA TaskStep ==
  ASSUME AInv, NEW s \in Sessions, NEW k,
         atask' = [atask EXCEPT ![s] = k], UNCHANGED <<areq, audit>>,
         k \in {NoTask} \cup CreateTasks \cup SetTasks,
         k.op = "set" => CopyHolds(k, areq)
  PROVE  AInv'
<1>1. AType'
  BY Zenon DEF AInv, AType
<1>2. Copies'
  <2>. SUFFICES ASSUME NEW z \in Sessions, atask'[z].op = "set" PROVE CopyHolds(atask'[z], areq')
    BY Zenon DEF Copies
  <2>1. CASE z = s
    BY Zenon, <2>1 DEF AInv, AType, CopyHolds
  <2>2. CASE z # s
    BY Zenon, <2>2 DEF AInv, AType, Copies, CopyHolds
  <2>. QED BY Zenon, <2>1, <2>2
<1>3. AuditTellsStatus'
  BY Zenon DEF AInv, AuditTellsStatus
<1>. QED BY Zenon, <1>1, <1>2, <1>3 DEF AInv

\* start_review, approve and deny load the row they decide on.
LEMMA DecideStep ==
  ASSUME AInv, NEW s \in Sessions, NEW r \in Requests, NEW status, NEW event,
         Decide(s, r, status, event), Course(areq[r].status, status, event)
  PROVE  AInv'
<1>. DEFINE k == [op |-> "set", r |-> r, was |-> areq[r], status |-> status, event |-> event]
<1>1. areq[r] \in ARows
  BY Zenon DEF AInv, AType
<1>2. status \in AStatuses /\ event \in AEvents
  BY Zenon DEF Course, AStatuses, AEvents
<1>3. k \in SetTasks
  BY Zenon, <1>1, <1>2 DEF SetTasks
<1>4. CopyHolds(k, areq)
  BY <1>1 DEF CopyHolds, ARows
<1>5. atask' = [atask EXCEPT ![s] = k] /\ UNCHANGED <<areq, audit>>
  BY Zenon DEF Decide
<1>. HIDE DEF k
<1>. QED BY Zenon, <1>3, <1>4, <1>5, TaskStep

\* The flush of create_request: the row is new.
LEMMA InsertRequestStep ==
  ASSUME AInv, NEW s \in Sessions, insert_request(s)
  PROVE  AInv'
<1>. DEFINE k == atask[s]
            row == [status |-> "S", email |-> k.email, version |-> 1]
<1>0. k \in CreateTasks
  BY DEF AInv, AType, insert_request, NoTask, SetTasks
<1>1. k.r \in Requests /\ k.email \in Contacts
  BY Zenon, <1>0 DEF CreateTasks
<1>2. /\ areq[k.r] = NotSubmitted
      /\ areq' = [areq EXCEPT ![k.r] = row]
      /\ audit' = [audit EXCEPT ![k.r] = <<"submitted">>]
      /\ atask' = [atask EXCEPT ![s] = NoTask]
  BY Zenon DEF insert_request
<1>3. row \in ARows
  BY Zenon, <1>1 DEF ARows, AStatuses
<1>4. <<"submitted">> \in Seq(AEvents)
  BY DEF AEvents
<1>. HIDE DEF k, row
<1>5. AType'
  BY Zenon, <1>1, <1>2, <1>3, <1>4 DEF AInv, AType
<1>6. Copies'
  <2>. SUFFICES ASSUME NEW z \in Sessions, atask'[z].op = "set" PROVE CopyHolds(atask'[z], areq')
    BY Zenon DEF Copies
  <2>1. z # s /\ atask'[z] = atask[z]
    BY Zenon, <1>2 DEF AInv, AType, NoTask
  <2>2. atask[z] \in SetTasks /\ CopyHolds(atask[z], areq)
    BY <2>1 DEF AInv, AType, Copies, NoTask, CreateTasks
  <2>3. atask[z].r # k.r
    <3>1. areq[k.r].version = 0 /\ areq[k.r].status = "none"
      BY <1>2 DEF NotSubmitted
    <3>2. SUFFICES ASSUME atask[z].r = k.r PROVE FALSE
      BY Zenon
    <3>3. atask[z].was.version = 0
      BY <2>2, <3>1, <3>2 DEF CopyHolds, SetTasks, ARows
    <3>4. atask[z].was = areq[k.r]
      BY Zenon, <2>2, <3>1, <3>2, <3>3 DEF CopyHolds
    <3>. QED BY Zenon, <2>2, <3>1, <3>4 DEF CopyHolds, Course
  <2>4. areq'[atask[z].r] = areq[atask[z].r]
    BY Zenon, <1>2, <2>2, <2>3 DEF AInv, AType, SetTasks
  <2>. QED BY Zenon, <2>1, <2>2, <2>4 DEF CopyHolds
<1>7. AuditTellsStatus'
  <2>. SUFFICES ASSUME NEW r \in Requests PROVE audit'[r] \in Courses[areq'[r].status]
    BY Zenon DEF AuditTellsStatus
  <2>1. CASE r = k.r
    <3>1. audit'[r] = <<"submitted">> /\ areq'[r].status = "S"
      BY Zenon, <1>1, <1>2, <2>1 DEF AInv, AType, row
    <3>. QED BY <3>1 DEF Courses
  <2>2. CASE r # k.r
    BY Zenon, <1>2, <2>2 DEF AInv, AType, AuditTellsStatus
  <2>. QED BY Zenon, <2>1, <2>2
<1>. QED BY <1>5, <1>6, <1>7 DEF AInv

\* The flush of a decision: equal versions make the copy the current row.
LEMMA UpdateStep ==
  ASSUME AInv, NEW s \in Sessions, update_request(s)
  PROVE  AInv'
<1>. DEFINE k == atask[s]
            row == [status |-> k.status, email |-> k.was.email, version |-> k.was.version + 1]
<1>0. k \in SetTasks
  BY DEF AInv, AType, update_request, NoTask, CreateTasks
<1>1. k.r \in Requests /\ k.was \in ARows /\ k.status \in AStatuses /\ k.event \in AEvents
  BY Zenon, <1>0 DEF SetTasks
<1>2. /\ areq[k.r].version = k.was.version
      /\ areq' = [areq EXCEPT ![k.r] = row]
      /\ audit' = [audit EXCEPT ![k.r] = Append(@, k.event)]
      /\ atask' = [atask EXCEPT ![s] = NoTask]
  BY Zenon DEF update_request, SameVersion
<1>3. k.was = areq[k.r] /\ Course(k.was.status, k.status, k.event)
  BY Zenon, <1>2 DEF AInv, Copies, CopyHolds, update_request
<1>4. row \in ARows
  BY <1>1 DEF ARows
<1>. HIDE DEF k, row
<1>5. AType'
  <2>1. audit[k.r] \in Seq(AEvents)
    BY Zenon, <1>1 DEF AInv, AType
  <2>2. Append(audit[k.r], k.event) \in Seq(AEvents)
    BY <1>1, <2>1
  <2>. QED BY Zenon, <1>1, <1>2, <1>4, <2>2 DEF AInv, AType
<1>6. Copies'
  <2>. SUFFICES ASSUME NEW z \in Sessions, atask'[z].op = "set" PROVE CopyHolds(atask'[z], areq')
    BY Zenon DEF Copies
  <2>1. z # s /\ atask'[z] = atask[z]
    BY Zenon, <1>2 DEF AInv, AType, NoTask
  <2>2. atask[z] \in SetTasks /\ CopyHolds(atask[z], areq)
    BY <2>1 DEF AInv, AType, Copies, NoTask, CreateTasks
  <2>3. CASE atask[z].r = k.r
    <3>1. areq'[k.r].version = areq[k.r].version + 1
      BY Zenon, <1>1, <1>2 DEF AInv, AType, row
    <3>2. areq[k.r].version \in Nat /\ atask[z].was.version \in Nat
      BY Zenon, <1>1, <2>2 DEF AInv, AType, ARows, SetTasks
    <3>. QED BY <2>1, <2>2, <2>3, <3>1, <3>2 DEF CopyHolds
  <2>4. CASE atask[z].r # k.r
    <3>1. areq'[atask[z].r] = areq[atask[z].r]
      BY Zenon, <1>2, <2>2, <2>4 DEF AInv, AType, SetTasks
    <3>. QED BY Zenon, <2>1, <2>2, <3>1 DEF CopyHolds
  <2>. QED BY Zenon, <2>3, <2>4
<1>7. AuditTellsStatus'
  <2>. SUFFICES ASSUME NEW r \in Requests PROVE audit'[r] \in Courses[areq'[r].status]
    BY Zenon DEF AuditTellsStatus
  <2>1. CASE r = k.r
    <3>1. audit'[r] = Append(audit[r], k.event) /\ areq'[r].status = k.status
      BY Zenon, <1>1, <1>2, <2>1 DEF AInv, AType, row
    <3>2. audit[r] \in Seq(AEvents) /\ audit[r] \in Courses[areq[r].status]
      BY Zenon DEF AInv, AType, AuditTellsStatus
    <3>3. Course(areq[r].status, k.status, k.event)
      BY Zenon, <1>3, <2>1
    <3>4. Append(audit[r], k.event) \in Courses[k.status]
      BY Zenon, <3>2, <3>3, CourseExtends
    <3>. QED BY Zenon, <3>1, <3>4
  <2>2. CASE r # k.r
    BY Zenon, <1>2, <2>2 DEF AInv, AType, AuditTellsStatus
  <2>. QED BY Zenon, <2>1, <2>2
<1>. QED BY <1>5, <1>6, <1>7 DEF AInv

\* Every step of the workflow preserves the invariant.
LEMMA AStep == AInv /\ [ANext]_avars => AInv'
<1>. SUFFICES ASSUME AInv, [ANext]_avars PROVE AInv'
  OBVIOUS
<1>1. ASSUME NEW s \in Sessions, NEW r \in Requests, NEW e \in Contacts, create_request(s, r, e)
      PROVE  AInv'
  <2>. DEFINE k == [op |-> "create", r |-> r, email |-> e]
  <2>1. k \in CreateTasks /\ k.op # "set"
    BY Zenon DEF CreateTasks
  <2>2. atask' = [atask EXCEPT ![s] = k] /\ UNCHANGED <<areq, audit>>
    BY Zenon, <1>1 DEF create_request
  <2>. HIDE DEF k
  <2>. QED BY Zenon, <2>1, <2>2, TaskStep
<1>2. ASSUME NEW s \in Sessions, NEW r \in Requests, start_review(s, r) PROVE AInv'
  BY Zenon, <1>2, DecideStep DEF start_review, Course
<1>3. ASSUME NEW s \in Sessions, NEW r \in Requests, approve_request(s, r) PROVE AInv'
  BY Zenon, <1>3, DecideStep DEF approve_request, Course, Open
<1>4. ASSUME NEW s \in Sessions, NEW r \in Requests, deny_request(s, r) PROVE AInv'
  BY Zenon, <1>4, DecideStep DEF deny_request, Course, Open
<1>5. ASSUME NEW s \in Sessions, insert_request(s) PROVE AInv'
  BY <1>5, InsertRequestStep
<1>6. ASSUME NEW s \in Sessions, update_request(s) PROVE AInv'
  BY <1>6, UpdateStep
<1>7. ASSUME NEW s \in Sessions, rollback_request(s) PROVE AInv'
  <2>1. NoTask.op # "set"
    BY DEF NoTask
  <2>2. atask' = [atask EXCEPT ![s] = NoTask] /\ UNCHANGED <<areq, audit>>
    BY Zenon, <1>7 DEF rollback_request
  <2>. QED BY Zenon, <2>1, <2>2, TaskStep
<1>8. CASE UNCHANGED avars
  BY Zenon, <1>8 DEF avars, AInv, AType, Copies, CopyHolds, AuditTellsStatus
<1>. QED BY Zenon, <1>1, <1>2, <1>3, <1>4, <1>5, <1>6, <1>7, <1>8 DEF ANext

\* What a step of People is to the account requests.
LEMMA AccountSteps == (Init => AInit) /\ ([Next]_vars => [ANext]_avars)
<1>1. Init => AInit
  BY Zenon DEF Init
<1>2. [Next]_vars => [ANext]_avars
  BY Zenon DEF Next, vars, avars
<1> QED
  BY <1>1, <1>2

\* The audit log tells how each request got to its status, for any number
\* of requests and administrators deciding at once.
THEOREM AuditTrail == Spec => []AuditTellsStatus
<1>1. AInv => AuditTellsStatus
  BY DEF AInv
<1> QED
  BY <1>1, AccountSteps, AInitial, AStep, PTL DEF Spec

-----------------------------------------------------------------------------
(* Packages *)

\* What People does to packages is what PackageForms does on its own: the
\* theorems of ReliefRequestProofs on packages hold of People.
THEOREM PackagesStandAlone == Spec => PSpec
<1>1. Init => PInit
  BY Zenon DEF Init
<1>2. [Next]_vars => [PNext]_pvars
  BY Zenon DEF Next, vars, pvars
<1> QED
  BY <1>1, <1>2, PTL DEF Spec, PSpec

-----------------------------------------------------------------------------
(* Users and notifications: the inductive invariant *)

UserRow(row) ==
  /\ row = [email |-> row.email, org |-> row.org, active |-> row.active,
            roles |-> row.roles, warehouses |-> row.warehouses, version |-> row.version]
  /\ row.version \in Nat

\* The columns of user k.u are those that k loaded, or the version has risen.
UserCopy(k, rows) ==
  /\ k.u \in Users
  /\ k.was.version \in Nat /\ k.was.version >= 1
  /\ k.was.version <= rows[k.u].version
  /\ k.was.version = rows[k.u].version =>
       k.was.org = rows[k.u].org /\ k.was.active = rows[k.u].active

EditTask(k) ==
  k = [op |-> "edit", u |-> k.u, form |-> k.form, was |-> k.was,
       step |-> k.step, roles |-> k.roles, warehouses |-> k.warehouses]

\* An edit that has updated the user's columns holds the row's lock.
UserTask(c) ==
  LET k == task[c]
  IN  /\ k.op \in {"edit", "active"} => UserCopy(k, users)
      /\ k.op = "edit" => /\ EditTask(k)
                          /\ HasRow(c, k.u) => users[k.u].version = k.was.version

UInv ==
  /\ DOMAIN users = Users /\ DOMAIN task = Clients
  /\ \A u \in Users : UserRow(users[u])
  /\ \A c \in Clients : UserTask(c)
  /\ \A c, d \in Clients, u \in Users : HasRow(c, u) /\ HasRow(d, u) => c = d

Statuses == {"DRAFT", "AWAITING_APPROVAL", "SUBMITTED", "INELIGIBLE", "PART_FILLED"}
ReliefRows == [status : Statuses, pkg : {"none", "P", "D"}, version : Nat]
Decisions == {"reliefrqst_approved", "reliefrqst_ineligible"}
NoticeTypes == Decisions \cup
  {"reliefrqst_submitted", "package_ready_for_approval", "package_dispatched", "package_approved"}
Notices == [user : Users, type : NoticeTypes, r : Reliefs, status : {"unread", "read", "deleted"}]
Lists == {"ODPEM_DIR_PEOD", "ODPEM_DDG", "ODPEM_DG"} \cup {"logistics", "agency", "lm", "lo"}

ReliefTask(k) ==
  k = [op |-> k.op, r |-> k.r, was |-> k.was, step |-> k.step, to |-> k.to]

\* Whom a handler notifies: those who hear of a decision are on one list.
ToSound(k) ==
  /\ k.to \subseteq Lists \X Users
  /\ k.op \in {"eligible", "ineligible"} => \A p, q \in k.to : p[2] = q[2] => p = q

ReliefCopy(k, rows) ==
  /\ k.was.version <= rows[k.r].version
  /\ k.was.version = rows[k.r].version => k.was = rows[k.r]

\* A handler's copy of its relief request; after the flush it is the row.
NoticeTask(c) ==
  LET k == task[c]
  IN  k.op \in Handlers =>
        /\ ReliefTask(k)
        /\ k.r \in Reliefs /\ k.was \in ReliefRows
        /\ k.step \in {"load", "flush"}
        /\ Allowed(k.op, k.was)
        /\ ReliefCopy(k, rel)
        /\ k.step = "flush" => k.was = rel[k.r] /\ ToSound(k)

Flushed(c, r) == task[c].op \in Handlers /\ task[c].step = "flush" /\ task[c].r = r

NInv ==
  /\ rel \in [Reliefs -> ReliefRows]
  /\ \A r \in Reliefs : rel[r].pkg # "none" => rel[r].status \in Packaging
  /\ notes \in Seq(Notices)
  /\ \A c \in Clients : NoticeTask(c)
  /\ \A c, d \in Clients, r \in Reliefs : Flushed(c, r) /\ Flushed(d, r) => c = d
  /\ DecisionAnnouncedOnce

\* What handler h announces to a steady user with this row, and the statuses
\* a request has that it was announced for.
Announcing == {"submit", "eligible", "ineligible"}
Due(u, row, h, r) ==
  /\ row.version > 0 /\ row.active /\ row.version = FirstUsers[u].version
  /\ \/ h = "submit" /\ row.roles \cap {"ODPEM_DIR_PEOD", "ODPEM_DDG", "ODPEM_DG"} # {}
     \/ h = "eligible" /\ row.roles \cap {"LOGISTICS_OFFICER", "LOGISTICS_MANAGER"} # {}
     \/ h = "ineligible" /\ row.org = AgencyOf[r]
Passed(h, status) ==
  \/ h = "submit" /\ status # "DRAFT"
  \/ h = "eligible" /\ status \in Packaging
  \/ h = "ineligible" /\ status = "INELIGIBLE"

\* While notifications are sent, a user row that changes gets a new version.
Original ==
  \A u \in Users :
    /\ users[u].version >= FirstUsers[u].version
    /\ users[u].version = FirstUsers[u].version => users[u] = FirstUsers[u]

\* User u is on one of the lists.
Named(to, u) == \E p \in to : p[2] = u

\* A handler that has flushed will notify every steady user it should.
ToComplete(k, rows) ==
  k.op \in Handlers /\ k.step = "flush" =>
    \A u \in Users : Due(u, rows[u], k.op, k.r) => Named(k.to, u)

AllTold ==
  \A r \in Reliefs, u \in Users, h \in Announcing :
    Due(u, users[u], h, r) /\ Passed(h, rel[r].status) => Told(u, r, TypeOf(h))

TInv == Original /\ (\A c \in Clients : ToComplete(task[c], users)) /\ AllTold

WInv ==
  /\ UInv
  /\ area = "notifications" => NInv /\ TInv
  /\ area # "notifications" => notes = <<>> /\ \A r \in Reliefs : rel[r].status = "DRAFT"

-----------------------------------------------------------------------------
(* Users: the steps *)

\* What a step may do to a user: leave the columns alone, create the row, or
\* raise its version.
UserMoves(row, new) ==
  \/ new.version = row.version /\ new.org = row.org /\ new.active = row.active
  \/ row.version = 0
  \/ new.version > row.version

\* The next version.
LEMMA OneUp == ASSUME NEW a \in Nat PROVE a + 1 \in Nat /\ a + 1 > a
OBVIOUS

\* A copy has been stored, so its row has been too.
LEMMA NotZero == ASSUME NEW a \in Nat, NEW w \in Nat, w >= 1, w <= a PROVE a # 0
OBVIOUS

\* A copy stays one.
LEMMA UserCopyStays ==
  ASSUME NEW rows, NEW new, NEW k, UserCopy(k, rows),
         rows[k.u].version \in Nat, new[k.u].version \in Nat, UserMoves(rows[k.u], new[k.u])
  PROVE  UserCopy(k, new)
<1>1. rows[k.u].version # 0
  BY Zenon, NotZero DEF UserCopy
<1>2. CASE new[k.u].version > rows[k.u].version
  <2> DEFINE a == rows[k.u].version
             b == new[k.u].version
             w == k.was.version
  <2>1. w \in Nat /\ w <= a /\ k.u \in Users /\ w >= 1
    BY Zenon DEF UserCopy
  <2>2. a \in Nat /\ b \in Nat /\ b > a
    BY Zenon, <1>2
  <2> HIDE DEF a, b, w
  <2>3. w <= b /\ w # b
    BY <2>1, <2>2
  <2> QED
    BY Zenon, <2>1, <2>3 DEF UserCopy, a, b, w
<1>3. CASE /\ new[k.u].version = rows[k.u].version /\ new[k.u].org = rows[k.u].org
           /\ new[k.u].active = rows[k.u].active
  BY Zenon, <1>3 DEF UserCopy
<1> QED
  BY Zenon, <1>1, <1>2, <1>3 DEF UserMoves

\* A task as it was, but for the assignments it will remove.
SameTask(k, new) ==
  \/ new = k
  \/ /\ k.op = "edit" /\ EditTask(new)
     /\ new.u = k.u /\ new.form = k.form /\ new.was = k.was /\ new.step = k.step

\* A step of client c that keeps the rows others have updated.
LEMMA UserStep ==
  ASSUME UInv, NEW c \in Clients,
         DOMAIN users' = Users, DOMAIN task' = Clients,
         \A v \in Users : UserRow(users'[v]) /\ UserMoves(users[v], users'[v]),
         \A d \in Clients \ {c} : SameTask(task[d], task'[d]),
         \A d \in Clients \ {c}, v \in Users :
           HasRow(d, v) => users'[v].version = users[v].version,
         UserTask(c)',
         \A v \in Users : HasRow(c, v)' => HasRow(c, v) \/ RowFree(v)
  PROVE  UInv'
<1>1. ASSUME NEW d \in Clients \ {c} PROVE UserTask(d)'
  <2> DEFINE k == task[d]
             new == task'[d]
  <2>1. UserTask(d) /\ SameTask(k, new)
    BY Zenon DEF UInv
  <2>2. new.op = k.op
    BY <2>1 DEF SameTask, EditTask
  <2>3. ASSUME new.op \in {"edit", "active"} PROVE UserCopy(new, users')
    <3>1. UserCopy(k, users) /\ k.u \in Users
      BY Zenon, <2>1, <2>2, <2>3 DEF UserTask, UserCopy
    <3>2. users[k.u].version \in Nat /\ users'[k.u].version \in Nat
      BY Zenon, <3>1 DEF UInv, UserRow
    <3>3. UserCopy(k, users')
      BY Zenon, <3>1, <3>2, UserCopyStays
    <3> QED
      BY Zenon, <2>1, <3>3 DEF SameTask, UserCopy
  <2>4. ASSUME new.op = "edit" PROVE EditTask(new)
    BY Zenon, <2>1, <2>2, <2>4 DEF UserTask, SameTask
  <2>5. ASSUME new.op = "edit", HasRow(d, task[d].u)'
        PROVE  users'[new.u].version = new.was.version
    <3>1. new.u = k.u /\ new.was = k.was /\ new.form = k.form /\ new.step = k.step
      BY Zenon, <2>1 DEF SameTask
    <3>2. HasRow(d, k.u)
      BY Zenon, <2>2, <2>5, <3>1 DEF HasRow, Differs
    <3>3. k.u \in Users /\ users[k.u].version = k.was.version
      BY Zenon, <2>1, <2>2, <2>5, <3>2 DEF UserTask, UserCopy
    <3> QED
      BY Zenon, <3>1, <3>2, <3>3
  <2> QED
    BY Zenon, <2>3, <2>4, <2>5 DEF UserTask
<1>2. ASSUME NEW d \in Clients \ {c}, NEW v \in Users, HasRow(d, v)'
      PROVE  HasRow(d, v)
  <2>1. SameTask(task[d], task'[d])
    BY Zenon
  <2>2. CASE task'[d] = task[d]
    BY Zenon, <1>2, <2>2 DEF HasRow
  <2>3. CASE task'[d] # task[d]
    BY Zenon, <1>2, <2>1, <2>3 DEF HasRow, Differs, SameTask
  <2> QED
    BY Zenon, <2>2, <2>3
<1>3. ASSUME NEW a \in Clients, NEW b \in Clients, NEW v \in Users,
             HasRow(a, v)', HasRow(b, v)'
      PROVE  a = b
  BY Zenon, <1>2, <1>3 DEF UInv, RowFree
<1> QED
  BY Zenon, <1>1, <1>3 DEF UInv

\* A step that leaves the users alone and gives client c a task without a
\* copy of a user, or with a fresh one.
LEMMA UserReads ==
  ASSUME UInv, NEW c \in Clients, UNCHANGED users, NEW k,
         task' = [task EXCEPT ![c] = k],
         k.op \in {"edit", "active"} =>
           k.u \in Users /\ Known(k.u) /\ k.was = users[k.u],
         k.op = "edit" => EditTask(k) /\ k.step = "load"
  PROVE  UInv'
<1>1. task'[c] = k /\ DOMAIN task' = Clients /\ \A d \in Clients \ {c} : task'[d] = task[d]
  BY Zenon DEF UInv
<1>2. \A v \in Users : ~ HasRow(c, v)'
  BY Zenon, <1>1 DEF HasRow
<1>3. k.op \in {"edit", "active"} => UserCopy(k, users)
  BY DEF UserCopy, Known, UInv, UserRow
<1>4. UserTask(c)'
  <2>1. k.op = "edit" => k.u \in Users
    BY Zenon
  <2> QED
    BY Zenon, <1>1, <1>2, <1>3, <2>1 DEF UserTask
<1>5. \A v \in Users : UserRow(users'[v]) /\ UserMoves(users[v], users'[v])
  BY Zenon DEF UInv, UserMoves
<1>6. \A d \in Clients \ {c} : SameTask(task[d], task'[d])
  BY Zenon, <1>1 DEF SameTask
<1>7. DOMAIN users' = Users
  BY Zenon DEF UInv
<1> QED
  BY Zenon, <1>1, <1>2, <1>4, <1>5, <1>6, <1>7, UserStep

\* An edit that has deleted the roles, or the warehouses, and one whose
\* deletions leave out what another has inserted.
RolesGone(k, roles) == [k EXCEPT !.step = "roles", !.roles = roles]
WarehousesGone(k, whs) == [k EXCEPT !.step = "warehouses", !.warehouses = whs]
Spared(k, roles, whs) == [k EXCEPT !.roles = roles, !.warehouses = whs]

\* They differ from the edit in those fields.
LEMMA EditFields ==
  ASSUME NEW k, EditTask(k), NEW roles, NEW whs
  PROVE  /\ RolesGone(k, roles) = [op |-> "edit", u |-> k.u, form |-> k.form, was |-> k.was,
              step |-> "roles", roles |-> roles, warehouses |-> k.warehouses]
         /\ WarehousesGone(k, whs) = [op |-> "edit", u |-> k.u, form |-> k.form, was |-> k.was,
              step |-> "warehouses", roles |-> k.roles, warehouses |-> whs]
         /\ Spared(k, roles, whs) = [op |-> "edit", u |-> k.u, form |-> k.form, was |-> k.was,
              step |-> k.step, roles |-> roles, warehouses |-> whs]
<1>1. k = [op |-> "edit", u |-> k.u, form |-> k.form, was |-> k.was,
           step |-> k.step, roles |-> k.roles, warehouses |-> k.warehouses]
  BY Zenon DEF EditTask
<1>2. ASSUME NEW x, NEW st,
             x = [op |-> "edit", u |-> k.u, form |-> k.form, was |-> k.was,
                  step |-> st, roles |-> k.roles, warehouses |-> k.warehouses]
      PROVE  /\ [x EXCEPT !.roles = roles] =
                  [op |-> "edit", u |-> k.u, form |-> k.form, was |-> k.was,
                   step |-> st, roles |-> roles, warehouses |-> k.warehouses]
             /\ [x EXCEPT !.warehouses = whs] =
                  [op |-> "edit", u |-> k.u, form |-> k.form, was |-> k.was,
                   step |-> st, roles |-> k.roles, warehouses |-> whs]
  BY <1>2
<1>3. ASSUME NEW st
      PROVE  [k EXCEPT !.step = st] =
               [op |-> "edit", u |-> k.u, form |-> k.form, was |-> k.was,
                step |-> st, roles |-> k.roles, warehouses |-> k.warehouses]
  BY <1>1
<1>4. RolesGone(k, roles) = [op |-> "edit", u |-> k.u, form |-> k.form, was |-> k.was,
        step |-> "roles", roles |-> roles, warehouses |-> k.warehouses]
  <2> DEFINE x == [k EXCEPT !.step = "roles"]
  <2>1. RolesGone(k, roles) = [x EXCEPT !.roles = roles]
    BY DEF RolesGone
  <2>2. x = [op |-> "edit", u |-> k.u, form |-> k.form, was |-> k.was,
             step |-> "roles", roles |-> k.roles, warehouses |-> k.warehouses]
    BY Zenon, <1>3
  <2> HIDE DEF x
  <2> QED
    BY Zenon, <2>1, <2>2
<1>5. WarehousesGone(k, whs) = [op |-> "edit", u |-> k.u, form |-> k.form, was |-> k.was,
        step |-> "warehouses", roles |-> k.roles, warehouses |-> whs]
  <2> DEFINE x == [k EXCEPT !.step = "warehouses"]
  <2>1. WarehousesGone(k, whs) = [x EXCEPT !.warehouses = whs]
    BY DEF WarehousesGone
  <2>2. x = [op |-> "edit", u |-> k.u, form |-> k.form, was |-> k.was,
             step |-> "warehouses", roles |-> k.roles, warehouses |-> k.warehouses]
    BY Zenon, <1>3
  <2> HIDE DEF x
  <2> QED
    BY Zenon, <2>1, <2>2
<1>6. Spared(k, roles, whs) = [op |-> "edit", u |-> k.u, form |-> k.form, was |-> k.was,
        step |-> k.step, roles |-> roles, warehouses |-> whs]
  <2> DEFINE x == [k EXCEPT !.roles = roles]
  <2>1. Spared(k, roles, whs) = [x EXCEPT !.warehouses = whs]
    BY DEF Spared
  <2>2. x = [op |-> "edit", u |-> k.u, form |-> k.form, was |-> k.was,
             step |-> k.step, roles |-> roles, warehouses |-> k.warehouses]
    BY <1>1
  <2> HIDE DEF x
  <2> QED
    BY Zenon, <2>1, <2>2
<1> QED
  BY Zenon, <1>4, <1>5, <1>6

\* The row of a user who is switched on or off.
Switched(row, to) == [row EXCEPT !.active = to, !.version = @ + 1]

\* It differs in the status and the version.
LEMMA SwitchedFields ==
  ASSUME NEW row, UserRow(row), NEW to
  PROVE  Switched(row, to) = [email |-> row.email, org |-> row.org, active |-> to,
           roles |-> row.roles, warehouses |-> row.warehouses, version |-> row.version + 1]
<1> DEFINE x == [row EXCEPT !.active = to]
<1>1. row = [email |-> row.email, org |-> row.org, active |-> row.active,
             roles |-> row.roles, warehouses |-> row.warehouses, version |-> row.version]
  BY Zenon DEF UserRow
<1>2. x = [email |-> row.email, org |-> row.org, active |-> to,
           roles |-> row.roles, warehouses |-> row.warehouses, version |-> row.version]
  BY <1>1
<1>3. x.version = row.version
  BY Zenon, <1>2
<1>4. Switched(row, to) = [x EXCEPT !.version = row.version + 1]
  BY <1>3 DEF Switched
<1> HIDE DEF x
<1> QED
  BY Zenon, <1>2, <1>4

\* The status of a user changes only by a task that had loaded it.
StatusSeen ==
  \A u \in Users : Known(u) /\ users'[u].active # users[u].active =>
    \E c \in Clients :
      /\ task[c] # Idle /\ task'[c] = Idle /\ task[c].u = u
      /\ task[c].was.active = users[u].active
      /\ task[c].was.org = users[u].org

\* A user is created.
LEMMA InsertStep ==
  ASSUME UInv, NEW c \in Clients, insert_user(c)
  PROVE  UInv' /\ StatusSeen
<1> DEFINE k == task[c]
           row == [email |-> k.email, org |-> k.form.org, active |-> k.form.active,
                   roles |-> k.form.roles, warehouses |-> k.form.warehouses, version |-> 1]
<1>1. /\ k.op = "create" /\ ~ Known(k.u)
      /\ users' = [users EXCEPT ![k.u] = row]
      /\ task' = [task EXCEPT ![c] = Idle]
  BY Zenon DEF insert_user
<1>2. UserRow(row) /\ row.version = 1
  BY Zenon DEF UserRow
<1> HIDE DEF row
<1>3. /\ DOMAIN users' = Users /\ DOMAIN task' = Clients
      /\ task'[c] = Idle
      /\ \A d \in Clients \ {c} : task'[d] = task[d]
      /\ \A v \in Users : users'[v] = IF v = k.u THEN row ELSE users[v]
  BY Zenon, <1>1 DEF UInv
<1>4. \A v \in Users : UserRow(users'[v]) /\ UserMoves(users[v], users'[v])
  BY <1>1, <1>2, <1>3 DEF UInv, UserMoves, UserRow, Known
<1>5. ASSUME NEW d \in Clients \ {c}, NEW v \in Users, HasRow(d, v)
      PROVE  users'[v].version = users[v].version
  <2>1. UserCopy(task[d], users) /\ task[d].u = v
    BY Zenon, <1>5 DEF UInv, UserTask, HasRow
  <2>2. Known(v)
    BY <2>1 DEF UserCopy, Known, UInv, UserRow
  <2> QED
    BY Zenon, <1>1, <1>3, <2>2
<1>6. UserTask(c)' /\ \A v \in Users : ~ HasRow(c, v)'
  BY <1>3 DEF UserTask, HasRow, Idle
<1>7. \A d \in Clients \ {c} : SameTask(task[d], task'[d])
  BY Zenon, <1>3 DEF SameTask
<1>8. UInv'
  BY Zenon, <1>3, <1>4, <1>5, <1>6, <1>7, UserStep
<1>9. StatusSeen
  BY Zenon, <1>1, <1>3 DEF StatusSeen
<1> QED
  BY <1>8, <1>9

\* An edit sends its UPDATE and deletes roles, or deletes warehouses.
LEMMA ReplaceStep ==
  ASSUME UInv, NEW c \in Clients, replace_roles(c) \/ replace_warehouses(c)
  PROVE  UInv' /\ UNCHANGED users
<1> DEFINE k == task[c]
<1>1. k.op = "edit" /\ UNCHANGED users
  BY Zenon DEF replace_roles, replace_warehouses
<1>2. EditTask(k) /\ UserCopy(k, users)
  BY Zenon, <1>1 DEF UInv, UserTask
<1>3. PICK roles, whs : \/ /\ k.step = "load" /\ (Differs(k) => RowFree(k.u) /\ SameUser(k))
                           /\ task' = [task EXCEPT ![c] = RolesGone(k, roles)]
                        \/ /\ k.step = "roles"
                           /\ task' = [task EXCEPT ![c] = WarehousesGone(k, whs)]
  <2>1. CASE replace_roles(c)
    <3>1. /\ k.step = "load" /\ (Differs(k) => RowFree(k.u) /\ SameUser(k))
          /\ task' = [task EXCEPT ![c] = RolesGone(k, users[k.u].roles)]
      BY Zenon, <2>1 DEF replace_roles, RolesGone
    <3> QED
      BY Zenon, <3>1
  <2>2. CASE replace_warehouses(c)
    <3>1. /\ k.step = "roles"
          /\ task' = [task EXCEPT ![c] = WarehousesGone(k, users[k.u].warehouses)]
      BY Zenon, <2>2 DEF replace_warehouses, WarehousesGone
    <3> QED
      BY Zenon, <3>1
  <2> QED
    BY Zenon, <2>1, <2>2
<1>4. PICK new : /\ task' = [task EXCEPT ![c] = new]
                 /\ EditTask(new) /\ new.op = "edit"
                 /\ new.u = k.u /\ new.form = k.form /\ new.was = k.was /\ new.step # "load"
  <2>1. ASSUME NEW x, NEW st, NEW r, NEW w, st # "load",
               x = [op |-> "edit", u |-> k.u, form |-> k.form, was |-> k.was, step |-> st,
                    roles |-> r, warehouses |-> w]
        PROVE  /\ EditTask(x) /\ x.op = "edit"
               /\ x.u = k.u /\ x.form = k.form /\ x.was = k.was /\ x.step # "load"
    BY Zenon, <2>1 DEF EditTask
  <2>2. CASE task' = [task EXCEPT ![c] = RolesGone(k, roles)]
    <3> DEFINE x == RolesGone(k, roles)
    <3>1. x = [op |-> "edit", u |-> k.u, form |-> k.form, was |-> k.was, step |-> "roles",
               roles |-> roles, warehouses |-> k.warehouses]
      BY Zenon, <1>2, EditFields
    <3>2. task' = [task EXCEPT ![c] = x]
      BY Zenon, <2>2
    <3> HIDE DEF x
    <3>3. /\ EditTask(x) /\ x.op = "edit"
          /\ x.u = k.u /\ x.form = k.form /\ x.was = k.was /\ x.step # "load"
      BY Zenon, <2>1, <3>1
    <3> QED
      BY Zenon, <3>2, <3>3
  <2>3. CASE task' = [task EXCEPT ![c] = WarehousesGone(k, whs)]
    <3> DEFINE x == WarehousesGone(k, whs)
    <3>1. x = [op |-> "edit", u |-> k.u, form |-> k.form, was |-> k.was, step |-> "warehouses",
               roles |-> k.roles, warehouses |-> whs]
      BY Zenon, <1>2, EditFields
    <3>2. task' = [task EXCEPT ![c] = x]
      BY <2>3
    <3> HIDE DEF x
    <3>3. /\ EditTask(x) /\ x.op = "edit"
          /\ x.u = k.u /\ x.form = k.form /\ x.was = k.was /\ x.step # "load"
      BY Zenon, <2>1, <3>1
    <3> QED
      BY Zenon, <3>2, <3>3
  <2> QED
    BY Zenon, <1>3, <2>2, <2>3
<1>5. /\ DOMAIN task' = Clients /\ task'[c] = new
      /\ \A d \in Clients \ {c} : task'[d] = task[d]
  BY Zenon, <1>4 DEF UInv
<1>6. Differs(new) <=> Differs(k)
  BY Zenon, <1>4 DEF Differs
<1>7. \A v \in Users : HasRow(c, v)' => v = k.u /\ Differs(k)
  BY Zenon, <1>4, <1>5, <1>6 DEF HasRow, Differs
<1>8. Differs(k) => (HasRow(c, k.u) \/ RowFree(k.u)) /\ users[k.u].version = k.was.version
  BY Zenon, <1>1, <1>2, <1>3 DEF UInv, UserTask, HasRow, SameUser
<1>9. UserTask(c)'
  <2>1. UserCopy(new, users)
    BY Zenon, <1>2, <1>4 DEF UserCopy
  <2>2. HasRow(c, task[c].u)' => users'[new.u].version = new.was.version
    BY Zenon, <1>1, <1>4, <1>5, <1>6, <1>8 DEF HasRow, Differs
  <2> QED
    BY Zenon, <1>1, <1>4, <1>5, <2>1, <2>2 DEF UserTask
<1>10. \A v \in Users : UserRow(users'[v]) /\ UserMoves(users[v], users'[v])
  BY Zenon, <1>1 DEF UInv, UserMoves
<1>11. \A d \in Clients \ {c} : SameTask(task[d], task'[d])
  BY Zenon, <1>5 DEF SameTask
<1>12. DOMAIN users' = Users
  BY Zenon, <1>1 DEF UInv
<1>13. UInv'
  BY Zenon, <1>1, <1>5, <1>7, <1>8, <1>9, <1>10, <1>11, <1>12, UserStep
<1> QED
  BY Zenon, <1>1, <1>13

\* What another edit inserts leaves the rest of a task alone.
LEMMA OutsideSame ==
  ASSUME UInv, NEW d \in Clients, NEW k
  PROVE  SameTask(task[d], Outside(task[d], k))
<1> DEFINE t == task[d]
           roles == IF t.step # "load" THEN t.roles \ k.form.roles ELSE t.roles
           whs == IF t.step = "warehouses" THEN t.warehouses \ k.form.warehouses ELSE t.warehouses
<1>1. CASE t.op = "edit" /\ t.u = k.u
  <2>1. EditTask(t)
    BY Zenon, <1>1 DEF UInv, UserTask
  <2>2. Outside(t, k) = Spared(t, roles, whs)
    <3>1. t = [op |-> "edit", u |-> t.u, form |-> t.form, was |-> t.was, step |-> t.step,
               roles |-> t.roles, warehouses |-> t.warehouses]
      BY Zenon, <2>1 DEF EditTask
    <3> DEFINE x == [t EXCEPT !.roles = roles]
    <3>2. x.warehouses = t.warehouses
      BY Zenon, <3>1
    <3> QED
      BY Zenon, <1>1, <3>2 DEF Outside, Spared
  <2> HIDE DEF roles, whs
  <2>3. Spared(t, roles, whs) = [op |-> "edit", u |-> t.u, form |-> t.form, was |-> t.was,
          step |-> t.step, roles |-> roles, warehouses |-> whs]
    BY <2>1, EditFields
  <2> DEFINE x == Outside(t, k)
  <2>4. x = [op |-> "edit", u |-> t.u, form |-> t.form, was |-> t.was,
             step |-> t.step, roles |-> roles, warehouses |-> whs]
    BY Zenon, <2>2, <2>3
  <2> HIDE DEF x
  <2>5. EditTask(x) /\ x.u = t.u /\ x.form = t.form /\ x.was = t.was /\ x.step = t.step
    BY Zenon, <2>4 DEF EditTask
  <2> QED
    BY Zenon, <1>1, <2>5 DEF SameTask, x
<1>2. CASE ~ (t.op = "edit" /\ t.u = k.u)
  BY Zenon, <1>2 DEF Outside, SameTask
<1> QED
  BY Zenon, <1>1, <1>2

\* An edit commits: it holds the row when it changes columns.
LEMMA CommitEditStep ==
  ASSUME UInv, NEW c \in Clients, commit_edit(c)
  PROVE  UInv' /\ StatusSeen
<1> DEFINE k == task[c]
           old == users[k.u]
<1>1. k.op = "edit" /\ k.step = "warehouses"
  BY Zenon DEF commit_edit
<1>2. UserCopy(k, users) /\ (HasRow(c, k.u) => old.version = k.was.version)
  BY Zenon, <1>1 DEF UInv, UserTask
<1>3. k.u \in Users /\ UserRow(old)
  BY Zenon, <1>2 DEF UserCopy, UInv
<1>4. PICK row : /\ users' = [users EXCEPT ![k.u] = row]
                 /\ UserRow(row)
                 /\ Differs(k) => row.version = old.version + 1
                 /\ ~ Differs(k) => row.version = old.version /\ row.org = old.org
                                    /\ row.active = old.active
  <2> DEFINE roles == (old.roles \ k.roles) \cup k.form.roles
             whs == (old.warehouses \ k.warehouses) \cup k.form.warehouses
             row == [email |-> old.email,
                     org |-> IF Differs(k) THEN k.form.org ELSE old.org,
                     active |-> IF Differs(k) THEN k.form.active ELSE old.active,
                     roles |-> roles, warehouses |-> whs,
                     version |-> IF Differs(k) THEN old.version + 1 ELSE old.version]
  <2>1. users' = [users EXCEPT ![k.u] = row]
    BY Zenon, <1>3 DEF commit_edit, UInv
  <2>2. UserRow(row)
    <3> DEFINE email == old.email
               org == row.org
               active == row.active
               was == old.version
               version == row.version
    <3>1. was \in Nat
      BY Zenon, <1>3 DEF UserRow
    <3>2. version = IF Differs(k) THEN was + 1 ELSE was
      BY Zenon
    <3>3. row = [email |-> email, org |-> org, active |-> active, roles |-> roles,
                 warehouses |-> whs, version |-> version]
      BY Zenon
    <3> HIDE DEF email, org, active, was, version, roles, whs, row
    <3>4. version \in Nat
      BY <3>1, <3>2
    <3> QED
      BY Zenon, <3>3, <3>4 DEF UserRow
  <2> HIDE DEF roles, whs
  <2>3. /\ Differs(k) => row.version = old.version + 1
        /\ ~ Differs(k) => row.version = old.version /\ row.org = old.org
                           /\ row.active = old.active
    BY Zenon
  <2> HIDE DEF row
  <2> QED
    BY Zenon, <2>1, <2>2, <2>3
<1>5. /\ DOMAIN users' = Users
      /\ \A v \in Users : users'[v] = IF v = k.u THEN row ELSE users[v]
  BY Zenon, <1>4 DEF UInv
<1>6. /\ DOMAIN task' = Clients /\ task'[c] = Idle
      /\ \A d \in Clients \ {c} : task'[d] = Outside(task[d], k)
  BY Zenon DEF commit_edit
<1>7. Differs(k) => HasRow(c, k.u) /\ k.was.version = old.version
  BY Zenon, <1>1, <1>2 DEF HasRow
<1>8. \A v \in Users : UserRow(users'[v]) /\ UserMoves(users[v], users'[v])
  <2> SUFFICES ASSUME NEW v \in Users
               PROVE  UserRow(users'[v]) /\ UserMoves(users[v], users'[v])
    BY Zenon
  <2>1. CASE v # k.u
    BY Zenon, <1>5, <2>1 DEF UInv, UserMoves
  <2>2. CASE v = k.u /\ Differs(k)
    <3>1. old.version + 1 > old.version
      BY Zenon, <1>3, OneUp DEF UserRow
    <3> QED
      BY Zenon, <1>4, <1>5, <2>2, <3>1 DEF UserMoves
  <2>3. CASE v = k.u /\ ~ Differs(k)
    BY Zenon, <1>4, <1>5, <2>3 DEF UserMoves
  <2> QED
    BY Zenon, <2>1, <2>2, <2>3
<1>9. \A d \in Clients \ {c} : SameTask(task[d], task'[d])
  BY Zenon, <1>6, OutsideSame
<1>10. ASSUME NEW d \in Clients \ {c}, NEW v \in Users, HasRow(d, v)
       PROVE  users'[v].version = users[v].version
  <2>1. CASE v = k.u /\ Differs(k)
    BY Zenon, <1>3, <1>7, <1>10, <2>1 DEF UInv
  <2>2. CASE ~ (v = k.u /\ Differs(k))
    BY Zenon, <1>4, <1>5, <2>2
  <2> QED
    BY Zenon, <2>1, <2>2
<1>11. UserTask(c)' /\ \A v \in Users : ~ HasRow(c, v)'
  BY <1>6 DEF UserTask, HasRow, Idle
<1>12. UInv'
  BY Zenon, <1>5, <1>6, <1>8, <1>9, <1>10, <1>11, UserStep
<1>13. StatusSeen
  <2> SUFFICES ASSUME NEW u \in Users, users'[u].active # users[u].active
               PROVE  /\ task[c] # Idle /\ task'[c] = Idle /\ task[c].u = u
                      /\ task[c].was.active = users[u].active
                      /\ task[c].was.org = users[u].org
    BY Zenon DEF StatusSeen
  <2>1. u = k.u /\ Differs(k)
    BY Zenon, <1>4, <1>5
  <2>2. k.was.org = old.org /\ k.was.active = old.active
    BY Zenon, <1>2, <1>7, <2>1 DEF UserCopy
  <2>3. task[c] # Idle
    BY <1>1 DEF Idle
  <2> QED
    BY Zenon, <1>6, <2>1, <2>2, <2>3
<1> QED
  BY <1>12, <1>13

\* A user is switched on or off: nobody has the row.
LEMMA CommitActiveStep ==
  ASSUME UInv, NEW c \in Clients, commit_active(c)
  PROVE  UInv' /\ StatusSeen
<1> DEFINE k == task[c]
           old == users[k.u]
           row == Switched(old, k.to)
           changed == k.was.active # k.to
<1>1. k.op = "active"
  BY Zenon DEF commit_active
<1>2. UserCopy(k, users)
  BY Zenon, <1>1 DEF UInv, UserTask
<1>3. k.u \in Users /\ UserRow(old)
  BY Zenon, <1>2 DEF UserCopy, UInv
<1>4. /\ changed => RowFree(k.u) /\ old.version = k.was.version
      /\ changed => users' = [users EXCEPT ![k.u] = row]
      /\ ~ changed => users' = users
      /\ task' = [task EXCEPT ![c] = Idle]
  <2>1. DOMAIN users = Users
    BY Zenon DEF UInv
  <2>2. changed => RowFree(k.u) /\ old.version = k.was.version
    BY Zenon DEF commit_active, SameUser
  <2>3. changed => users' = [users EXCEPT ![k.u].active = k.to, ![k.u].version = @ + 1]
    BY Zenon DEF commit_active
  <2>4. [users EXCEPT ![k.u].active = k.to, ![k.u].version = @ + 1]
          = [users EXCEPT ![k.u] = row]
    BY Zenon, <1>3, <2>1 DEF Switched
  <2> QED
    BY Zenon, <2>2, <2>3, <2>4 DEF commit_active
<1>5. row = [email |-> old.email, org |-> old.org, active |-> k.to,
             roles |-> old.roles, warehouses |-> old.warehouses, version |-> old.version + 1]
  BY Zenon, <1>3, SwitchedFields
<1> HIDE DEF row
<1>6. UserRow(row) /\ row.version = old.version + 1 /\ row.version > old.version
  <2>1. old.version + 1 \in Nat /\ old.version + 1 > old.version
    BY Zenon, <1>3, OneUp DEF UserRow
  <2> QED
    BY Zenon, <1>5, <2>1 DEF UserRow
<1>7. /\ DOMAIN users' = Users /\ DOMAIN task' = Clients /\ task'[c] = Idle
      /\ \A d \in Clients \ {c} : task'[d] = task[d]
      /\ \A v \in Users : users'[v] = IF v = k.u /\ changed THEN row ELSE users[v]
  BY Zenon, <1>4 DEF UInv
<1>8. \A v \in Users : UserRow(users'[v]) /\ UserMoves(users[v], users'[v])
  BY Zenon, <1>6, <1>7 DEF UInv, UserMoves
<1>9. \A d \in Clients \ {c} : SameTask(task[d], task'[d])
  BY Zenon, <1>7 DEF SameTask
<1>10. \A d \in Clients \ {c}, v \in Users : HasRow(d, v) => users'[v].version = users[v].version
  BY <1>4, <1>7 DEF RowFree
<1>11. UserTask(c)' /\ \A v \in Users : ~ HasRow(c, v)'
  BY <1>7 DEF UserTask, HasRow, Idle
<1>12. UInv'
  BY Zenon, <1>7, <1>8, <1>9, <1>10, <1>11, UserStep
<1>13. StatusSeen
  <2> SUFFICES ASSUME NEW u \in Users, users'[u].active # users[u].active
               PROVE  /\ task[c] # Idle /\ task'[c] = Idle /\ task[c].u = u
                      /\ task[c].was.active = users[u].active
                      /\ task[c].was.org = users[u].org
    BY Zenon DEF StatusSeen
  <2>1. u = k.u /\ changed
    BY Zenon, <1>7
  <2>2. k.was.org = old.org /\ k.was.active = old.active
    BY Zenon, <1>2, <1>4, <2>1 DEF UserCopy
  <2>3. task[c] # Idle
    BY <1>1 DEF Idle
  <2> QED
    BY Zenon, <1>7, <2>1, <2>2, <2>3
<1> QED
  BY <1>12, <1>13

\* A handler begins or gives up.
LEMMA UserTaskStep ==
  ASSUME UInv, NEW c \in Clients,
         \/ \E a, u \in Users, f \in UserForms :
              edit_user(c, a, u, f) \/ \E e \in Emails : create_user(c, a, u, e, f)
         \/ \E a, u \in Users : deactivate(c, a, u) \/ activate(c, a, u)
         \/ rollback_user(c)
  PROVE  UInv' /\ UNCHANGED users
<1>1. CASE \E a, u \in Users, f \in UserForms : edit_user(c, a, u, f)
  <2>1. PICK a \in Users, u \in Users, f \in UserForms : edit_user(c, a, u, f)
    BY Zenon, <1>1
  <2> DEFINE k == [op |-> "edit", u |-> u, form |-> f, was |-> users[u],
                   step |-> "load", roles |-> {}, warehouses |-> {}]
  <2>2. Known(u) /\ task' = [task EXCEPT ![c] = k] /\ UNCHANGED users
    BY Zenon, <2>1 DEF edit_user
  <2>3. EditTask(k) /\ k.u = u /\ k.was = users[u] /\ k.step = "load"
    BY Zenon DEF EditTask
  <2> HIDE DEF k
  <2> QED
    BY Zenon, <2>2, <2>3, UserReads
<1>2. CASE \E a, u \in Users, f \in UserForms, e \in Emails : create_user(c, a, u, e, f)
  <2>1. PICK a \in Users, u \in Users, f \in UserForms, e \in Emails : create_user(c, a, u, e, f)
    BY Zenon, <1>2
  <2> DEFINE k == [op |-> "create", u |-> u, email |-> e, form |-> f]
  <2>2. task' = [task EXCEPT ![c] = k] /\ UNCHANGED users
    BY Zenon, <2>1 DEF create_user
  <2>3. k.op = "create"
    BY Zenon
  <2> HIDE DEF k
  <2> QED
    BY Zenon, <2>2, <2>3, UserReads
<1>3. CASE \E a, u \in Users : deactivate(c, a, u) \/ activate(c, a, u)
  <2>1. PICK u \in Users, to \in BOOLEAN : SetActive(c, u, to)
    BY Zenon, <1>3 DEF deactivate, activate
  <2> DEFINE k == [op |-> "active", u |-> u, was |-> users[u], to |-> to]
  <2>2. Known(u) /\ task' = [task EXCEPT ![c] = k] /\ UNCHANGED users
    BY Zenon, <2>1 DEF SetActive
  <2>3. k.op = "active" /\ k.u = u /\ k.was = users[u]
    BY Zenon
  <2> HIDE DEF k
  <2> QED
    BY Zenon, <2>2, <2>3, UserReads
<1>4. CASE rollback_user(c)
  <2>1. task' = [task EXCEPT ![c] = Idle] /\ UNCHANGED users
    BY Zenon, <1>4 DEF rollback_user
  <2>2. Idle.op = "idle"
    BY Zenon DEF Idle
  <2> QED
    BY Zenon, <2>1, <2>2, UserReads
<1> QED
  BY Zenon, <1>1, <1>2, <1>3, <1>4

\* Every handler of user administration preserves the invariant.
LEMMA UInvNext ==
  ASSUME UInv, \/ UNext
               \/ \E c \in Clients : StatusHandlers(c) \/ rollback_user(c)
  PROVE  UInv' /\ StatusSeen
<1>1. UNCHANGED users => StatusSeen
  BY Zenon DEF StatusSeen
<1>2. PICK c \in Clients :
        \/ \E a, u \in Users, f \in UserForms :
             edit_user(c, a, u, f) \/ \E e \in Emails : create_user(c, a, u, e, f)
        \/ insert_user(c) \/ replace_roles(c) \/ replace_warehouses(c) \/ commit_edit(c)
        \/ StatusHandlers(c)
        \/ rollback_user(c)
  BY Zenon DEF UNext
<1> QED
  BY Zenon, <1>1, <1>2, InsertStep, ReplaceStep, CommitEditStep, CommitActiveStep, UserTaskStep
     DEF StatusHandlers

-----------------------------------------------------------------------------
(* Notifications: recipients *)

\* Whom a handler notifies, whatever users there are.
LEMMA RecipientsSound ==
  ASSUME NEW h \in Handlers, NEW r, NEW row
  PROVE  /\ Recipients(h, r, row) \subseteq Lists \X Users
         /\ h \in {"eligible", "ineligible"} =>
              \A p, q \in Recipients(h, r, row) : p[2] = q[2] => p = q
<1>1. ASSUME NEW codes PROVE get_active_users_by_role_codes(codes) \subseteq Users
  BY Zenon DEF get_active_users_by_role_codes
<1>2. get_agency_active_users(AgencyOf[r]) \subseteq Users
  BY Zenon DEF get_agency_active_users
<1>3. /\ _create_odpem_notifications(r) \subseteq Lists \X Users
      /\ ready_for_approval(r, row.pkg) \subseteq Lists \X Users
      /\ package_dispatched(r) \subseteq Lists \X Users
  BY Zenon, <1>1, <1>2 DEF _create_odpem_notifications, ready_for_approval, package_dispatched, Lists
<1>4. ASSUME NEW codes PROVE package_approved(r, codes) \subseteq Lists \X Users
  BY Zenon, <1>1, <1>2 DEF package_approved, Lists
<1>5. /\ _create_eligible_notification(r) \subseteq Lists \X Users
      /\ \A p, q \in _create_eligible_notification(r) : p[2] = q[2] => p = q
  <2> DEFINE S == get_active_users_by_role_codes({"LOGISTICS_OFFICER", "LOGISTICS_MANAGER"})
  <2>1. S \subseteq Users /\ _create_eligible_notification(r) = {"logistics"} \X S
    BY <1>1 DEF _create_eligible_notification
  <2> HIDE DEF S
  <2> QED
    BY <2>1 DEF Lists
<1>6. /\ _create_ineligible_notification(r) \subseteq Lists \X Users
      /\ \A p, q \in _create_ineligible_notification(r) : p[2] = q[2] => p = q
  <2> DEFINE S == get_agency_active_users(AgencyOf[r])
  <2>1. S \subseteq Users /\ _create_ineligible_notification(r) = {"agency"} \X S
    BY <1>2 DEF _create_ineligible_notification
  <2> HIDE DEF S
  <2> QED
    BY <2>1 DEF Lists
<1>7. CASE h = "eligible"
  BY Zenon, <1>5, <1>7 DEF Recipients
<1>8. CASE h = "ineligible"
  BY Zenon, <1>6, <1>8 DEF Recipients
<1>9. CASE h \notin {"eligible", "ineligible"}
  <2>1. Recipients(h, r, row) \subseteq Lists \X Users
    BY Zenon, <1>3, <1>4, <1>9 DEF Recipients, Handlers
  <2> QED
    BY Zenon, <1>9, <2>1
<1> QED
  BY Zenon, <1>7, <1>8, <1>9

-----------------------------------------------------------------------------
(* Notifications: the steps *)

\* Notices that agree in everything but their status.
LEMMA SameNotice ==
  ASSUME NEW a \in Notices, NEW b \in Notices
  PROVE  [a EXCEPT !.status = "x"] = [b EXCEPT !.status = "x"] <=>
           a.user = b.user /\ a.type = b.type /\ a.r = b.r
<1>1. /\ a = [user |-> a.user, type |-> a.type, r |-> a.r, status |-> a.status]
      /\ b = [user |-> b.user, type |-> b.type, r |-> b.r, status |-> b.status]
  BY Zenon DEF Notices
<1>2. [a EXCEPT !.status = "x"] = [user |-> a.user, type |-> a.type, r |-> a.r, status |-> "x"]
  BY <1>1
<1>3. [b EXCEPT !.status = "x"] = [user |-> b.user, type |-> b.type, r |-> b.r, status |-> "x"]
  BY <1>1
<1> QED
  BY Zenon, <1>2, <1>3

\* A step of client c that changes the rows nobody else has flushed.
LEMMA NoticeStep ==
  ASSUME NInv, NEW c \in Clients,
         rel' \in [Reliefs -> ReliefRows], notes' \in Seq(Notices),
         \A r \in Reliefs : rel'[r].pkg # "none" => rel'[r].status \in Packaging,
         \A d \in Clients \ {c} : task'[d] = task[d],
         \A r \in Reliefs : \/ rel'[r] = rel[r]
                            \/ /\ rel'[r].version > rel[r].version
                               /\ \A d \in Clients \ {c} : ~ Flushed(d, r),
         NoticeTask(c)',
         \A r \in Reliefs : Flushed(c, r)' =>
           Flushed(c, r) \/ \A d \in Clients \ {c} : ~ Flushed(d, r),
         DecisionAnnouncedOnce'
  PROVE  NInv'
<1>1. ASSUME NEW d \in Clients \ {c} PROVE NoticeTask(d)'
  <2> DEFINE k == task[d]
  <2>1. NoticeTask(d) /\ task'[d] = k
    BY Zenon DEF NInv
  <2> SUFFICES ASSUME k.op \in Handlers
               PROVE  ReliefCopy(k, rel') /\ (k.step = "flush" => k.was = rel'[k.r])
    BY Zenon, <2>1 DEF NoticeTask
  <2>2. /\ k.r \in Reliefs /\ k.was \in ReliefRows
        /\ ReliefCopy(k, rel) /\ (k.step = "flush" => k.was = rel[k.r])
    BY Zenon, <2>1 DEF NoticeTask
  <2>3. k.was.version \in Nat /\ rel[k.r].version \in Nat /\ rel'[k.r].version \in Nat
    BY Zenon, <2>2 DEF NInv, ReliefRows
  <2>4. CASE rel'[k.r] = rel[k.r]
    BY Zenon, <2>2, <2>4 DEF ReliefCopy
  <2>5. CASE rel'[k.r].version > rel[k.r].version /\ ~ Flushed(d, k.r)
    <3> DEFINE a == rel[k.r].version
               b == rel'[k.r].version
               w == k.was.version
    <3>1. w \in Nat /\ a \in Nat /\ b \in Nat /\ w <= a /\ b > a
      BY Zenon, <2>2, <2>3, <2>5 DEF ReliefCopy
    <3> HIDE DEF a, b, w
    <3>2. w <= b /\ w # b
      BY <3>1
    <3> QED
      BY Zenon, <2>5, <3>2 DEF ReliefCopy, Flushed, a, b, w
  <2> QED
    BY Zenon, <2>2, <2>4, <2>5
<1>2. \A d \in Clients \ {c}, r \in Reliefs : Flushed(d, r)' => Flushed(d, r)
  BY Zenon DEF Flushed
<1>3. ASSUME NEW a \in Clients, NEW b \in Clients, NEW r \in Reliefs,
             Flushed(a, r)', Flushed(b, r)'
      PROVE  a = b
  BY Zenon, <1>2, <1>3 DEF NInv
<1> QED
  BY Zenon, <1>1, <1>3 DEF NInv

\* A step that leaves requests and notices alone and gives client c a task
\* that has just loaded its request, or none.
LEMMA NoticeReads ==
  ASSUME NInv, DOMAIN task = Clients, NEW c \in Clients, UNCHANGED <<rel, notes>>, NEW k,
         task' = [task EXCEPT ![c] = k],
         k.op \in Handlers => /\ ReliefTask(k) /\ k.step = "load"
                              /\ k.r \in Reliefs /\ k.was = rel[k.r] /\ Allowed(k.op, k.was)
  PROVE  NInv'
<1>1. task'[c] = k /\ \A d \in Clients \ {c} : task'[d] = task[d]
  BY Zenon
<1>2. NoticeTask(c)'
  <2> SUFFICES ASSUME k.op \in Handlers
               PROVE  k.was \in ReliefRows /\ ReliefCopy(k, rel)
    BY Zenon, <1>1 DEF NoticeTask
  <2>1. k.was \in ReliefRows /\ k.was = rel[k.r]
    BY Zenon DEF NInv
  <2>2. k.was.version \in Nat
    BY Zenon, <2>1 DEF ReliefRows
  <2> QED
    BY <2>1, <2>2 DEF ReliefCopy
<1>3. \A r \in Reliefs : ~ Flushed(c, r)'
  BY Zenon, <1>1 DEF Flushed
<1>4. DecisionAnnouncedOnce'
  BY Zenon DEF NInv, DecisionAnnouncedOnce
<1>5. /\ rel' \in [Reliefs -> ReliefRows] /\ notes' \in Seq(Notices)
      /\ \A r \in Reliefs : rel'[r].pkg # "none" => rel'[r].status \in Packaging
      /\ \A r \in Reliefs : rel'[r] = rel[r]
  BY Zenon DEF NInv
<1> QED
  BY Zenon, <1>1, <1>2, <1>3, <1>4, <1>5, NoticeStep

\* The task of a handler whose UPDATE is sent and whose recipients are known.
FlushedTask(k, to) == [k EXCEPT !.step = "flush", !.to = to]

\* The UPDATE waits for the row and checks the version.
LEMMA FlushStep ==
  ASSUME UInv, NInv, NEW c \in Clients, flush_relief(c)
  PROVE  UInv' /\ NInv' /\ UNCHANGED <<users, notes>>
<1> DEFINE k == task[c]
           to == Recipients(k.op, k.r, k.was)
           new == FlushedTask(k, to)
<1>1. /\ k.op \in Handlers /\ k.step = "load" /\ SameRelief(k)
      /\ \A d \in Clients : task[d].op \in Handlers => task[d].r # k.r \/ task[d].step = "load"
      /\ task' = [task EXCEPT ![c] = new]
      /\ UNCHANGED <<users, rel, notes>>
  BY Zenon DEF flush_relief, FlushedTask
<1>2. /\ ReliefTask(k) /\ k.r \in Reliefs /\ k.was \in ReliefRows /\ Allowed(k.op, k.was)
      /\ ReliefCopy(k, rel)
  BY Zenon, <1>1 DEF NInv, NoticeTask
<1>3. k.was = rel[k.r]
  BY Zenon, <1>1, <1>2 DEF ReliefCopy, SameRelief
<1>4. to \subseteq Lists \X Users
      /\ (k.op \in {"eligible", "ineligible"} => \A p, q \in to : p[2] = q[2] => p = q)
  BY Zenon, <1>1, RecipientsSound
<1> HIDE DEF to
<1>5. new = [op |-> k.op, r |-> k.r, was |-> k.was, step |-> "flush", to |-> to]
  <2>1. k = [op |-> k.op, r |-> k.r, was |-> k.was, step |-> k.step, to |-> k.to]
    BY Zenon, <1>2 DEF ReliefTask
  <2> DEFINE x == [k EXCEPT !.step = "flush"]
  <2>2. x = [op |-> k.op, r |-> k.r, was |-> k.was, step |-> "flush", to |-> k.to]
    BY <2>1
  <2>3. new = [x EXCEPT !.to = to]
    BY DEF FlushedTask
  <2> HIDE DEF x, new
  <2> QED
    BY Zenon, <2>2, <2>3
<1> HIDE DEF new
<1>6. /\ ReliefTask(new) /\ new.op = k.op /\ new.r = k.r /\ new.was = k.was
      /\ new.step = "flush" /\ new.to = to
  BY Zenon, <1>5 DEF ReliefTask
<1>7. DOMAIN task = Clients /\ task'[c] = new /\ \A d \in Clients \ {c} : task'[d] = task[d]
  BY Zenon, <1>1 DEF UInv
<1>8. NoticeTask(c)'
  <2>1. ToSound(new)
    BY Zenon, <1>4, <1>6 DEF ToSound
  <2>2. ReliefCopy(new, rel)
    BY Zenon, <1>2, <1>6 DEF ReliefCopy
  <2> QED
    BY Zenon, <1>1, <1>2, <1>3, <1>6, <1>7, <2>1, <2>2 DEF NoticeTask
<1>9. \A r \in Reliefs : Flushed(c, r)' => \A d \in Clients \ {c} : ~ Flushed(d, r)
  BY <1>1, <1>6, <1>7 DEF Flushed
<1>10. DecisionAnnouncedOnce'
  BY Zenon, <1>1 DEF NInv, DecisionAnnouncedOnce
<1>11. NInv'
  <2>1. /\ rel' \in [Reliefs -> ReliefRows] /\ notes' \in Seq(Notices)
        /\ \A r \in Reliefs : rel'[r].pkg # "none" => rel'[r].status \in Packaging
        /\ \A r \in Reliefs : rel'[r] = rel[r]
    BY Zenon, <1>1 DEF NInv
  <2> QED
    BY Zenon, <1>7, <1>8, <1>9, <1>10, <2>1, NoticeStep
<1>12. UInv'
  <2>1. new.op \notin {"edit", "active"}
    BY Zenon, <1>1, <1>6 DEF Handlers
  <2> QED
    BY Zenon, <1>1, <2>1, UserReads
<1> QED
  BY Zenon, <1>1, <1>11, <1>12

\* Every notice stays, with what it says; deleted ones keep their place.
NoticesKept ==
  \A n \in DOMAIN notes :
    /\ n \in DOMAIN notes'
    /\ notes'[n].user = notes[n].user /\ notes'[n].type = notes[n].type
    /\ notes'[n].r = notes[n].r

\* Everyone on the lists of k has a notice.
Announces(k) ==
  \A p \in k.to : \E n \in DOMAIN notes' :
    notes'[n].user = p[2] /\ notes'[n].type = TypeOf(k.op) /\ notes'[n].r = k.r

\* The lists are finite.
LEMMA ListsFinite == ASSUME NEW S \in SUBSET (Lists \X Users) PROVE IsFiniteSet(S)
<1> DEFINE A == ({} \cup {"ODPEM_DIR_PEOD"}) \cup {"ODPEM_DDG"}
           B == (A \cup {"ODPEM_DG"}) \cup {"logistics"}
           C == ((B \cup {"agency"}) \cup {"lm"}) \cup {"lo"}
<1>1. IsFiniteSet(A)
  BY Zenon, FS_EmptySet, FS_AddElement
<1>2. Lists = C
  BY DEF Lists
<1> HIDE DEF A
<1>3. IsFiniteSet(B)
  BY Zenon, <1>1, FS_AddElement
<1> HIDE DEF B
<1>4. IsFiniteSet(C)
  BY Zenon, <1>3, FS_AddElement
<1>5. IsFiniteSet(Lists \X Users)
  BY Zenon, <1>2, <1>4, FS_Product, UsersAssumption
<1> QED
  BY Zenon, <1>5, FS_Subset

\* An order of a finite set names each of its elements.
LEMMA OrderNamesAll ==
  ASSUME NEW S, IsFiniteSet(S), NEW s \in Orders(S), Cardinality(S) \in Nat, NEW x \in S
  PROVE  \E i \in DOMAIN s : s[i] = x
<1> DEFINE n == Cardinality(S)
           D == 1 .. n
<1>1. s \in [D -> S] /\ \A i, j \in DOMAIN s : s[i] = s[j] => i = j
  BY Zenon DEF Orders
<1>2. Cardinality(D) = n
  <2> HIDE DEF n
  <2>1. n \in Nat
    BY DEF n
  <2> QED
    BY <2>1, FS_Interval
<1>3. s \in Injection(D, S)
  BY Zenon, <1>1 DEF Injection, IsInjective
<1> HIDE DEF D, n
<1>4. s \in Surjection(D, S)
  BY Zenon, <1>2, <1>3, FS_Injection DEF n
<1> QED
  BY Zenon, <1>1, <1>4 DEF Surjection

\* Where a request stands after a decision was announced.
LEMMA AfterDecision ==
  ASSUME NInv, NEW h \in Handlers, NEW r \in Reliefs, Allowed(h, rel[r])
  PROVE  /\ rel[r].status \in Packaging => StatusAfter(h) \in Packaging
         /\ rel[r].status # "INELIGIBLE"
         /\ h \in {"eligible", "ineligible"} => rel[r].status \notin Packaging
         /\ PkgAfter(h, rel[r]) \in {"none", "P", "D"} /\ StatusAfter(h) \in Statuses
         /\ PkgAfter(h, rel[r]) # "none" => StatusAfter(h) \in Packaging
         /\ TypeOf(h) \in NoticeTypes
         /\ TypeOf(h) = "reliefrqst_approved" => h = "eligible" /\ StatusAfter(h) \in Packaging
         /\ TypeOf(h) = "reliefrqst_ineligible" => h = "ineligible" /\ StatusAfter(h) = "INELIGIBLE"
<1>1. rel[r] \in ReliefRows /\ (rel[r].pkg # "none" => rel[r].status \in Packaging)
  BY Zenon DEF NInv
<1> DEFINE row == rel[r]
<1>2. row.pkg \in {"none", "P", "D"} /\ row.status \in Statuses
  BY Zenon, <1>1 DEF ReliefRows
<1> HIDE DEF row
<1>3. Allowed(h, row) /\ (row.pkg # "none" => row.status \in Packaging)
  BY Zenon, <1>1 DEF row
<1>4. CASE h = "submit"
  BY Zenon, <1>2, <1>3, <1>4 DEF Allowed, StatusAfter, PkgAfter, TypeOf, Packaging, Statuses,
     NoticeTypes, Decisions, row
<1>5. CASE h \in {"eligible", "ineligible"}
  BY Zenon, <1>2, <1>3, <1>5 DEF Allowed, StatusAfter, PkgAfter, TypeOf, Packaging, Statuses,
     NoticeTypes, Decisions, row
<1>6. CASE h \in {"review_approval", "approve_and_dispatch"}
  BY Zenon, <1>2, <1>3, <1>6 DEF Allowed, StatusAfter, PkgAfter, TypeOf, Packaging, Statuses,
     NoticeTypes, Decisions, row
<1>7. CASE h \in {"save_draft", "submit_for_approval", "send_for_dispatch"}
  BY Zenon, <1>2, <1>3, <1>7 DEF Allowed, StatusAfter, PkgAfter, TypeOf, Packaging, Statuses,
     NoticeTypes, Decisions, row
<1> QED
  BY Zenon, <1>4, <1>5, <1>6, <1>7 DEF Handlers

\* A handler commits its change and its notices.
LEMMA CommitReliefStep ==
  ASSUME UInv, NInv, NEW c \in Clients, commit_relief(c)
  PROVE  UInv' /\ NInv' /\ NoticesKept /\ Announces(task[c]) /\ UNCHANGED users
<1> DEFINE k == task[c]
<1>0. PICK to \in Orders(k.to) :
      notes' = notes \o [i \in DOMAIN to |-> create_notification(k.op, k.r, to[i][2])]
  BY Zenon DEF commit_relief
<1> DEFINE more == [i \in DOMAIN to |-> create_notification(k.op, k.r, to[i][2])]
           row == [status |-> StatusAfter(k.op), pkg |-> PkgAfter(k.op, k.was),
                   version |-> k.was.version + 1]
<1>1. /\ k.op \in Handlers /\ k.step = "flush"
      /\ rel' = [rel EXCEPT ![k.r] = row]
      /\ notes' = notes \o more
      /\ task' = [task EXCEPT ![c] = Idle]
      /\ UNCHANGED users
      /\ Cardinality(k.to) \in 0 .. (MaxNotices - Len(notes))
  BY Zenon, <1>0 DEF commit_relief
<1>2. /\ k.r \in Reliefs /\ k.was \in ReliefRows /\ Allowed(k.op, k.was)
      /\ k.was = rel[k.r] /\ ToSound(k)
  BY Zenon, <1>1 DEF NInv, NoticeTask
<1> HIDE DEF k, more, row
<1>3. /\ rel[k.r].status \in Packaging => StatusAfter(k.op) \in Packaging
      /\ rel[k.r].status # "INELIGIBLE"
      /\ k.op \in {"eligible", "ineligible"} => rel[k.r].status \notin Packaging
      /\ PkgAfter(k.op, k.was) \in {"none", "P", "D"} /\ StatusAfter(k.op) \in Statuses
      /\ PkgAfter(k.op, k.was) # "none" => StatusAfter(k.op) \in Packaging
      /\ TypeOf(k.op) \in NoticeTypes
      /\ TypeOf(k.op) = "reliefrqst_approved" =>
           k.op = "eligible" /\ StatusAfter(k.op) \in Packaging
      /\ TypeOf(k.op) = "reliefrqst_ineligible" =>
           k.op = "ineligible" /\ StatusAfter(k.op) = "INELIGIBLE"
  <2>1. Allowed(k.op, rel[k.r]) /\ PkgAfter(k.op, k.was) = PkgAfter(k.op, rel[k.r])
    BY Zenon, <1>2
  <2> HIDE DEF k
  <2>2. /\ rel[k.r].status \in Packaging => StatusAfter(k.op) \in Packaging
        /\ rel[k.r].status # "INELIGIBLE"
        /\ k.op \in {"eligible", "ineligible"} => rel[k.r].status \notin Packaging
        /\ PkgAfter(k.op, rel[k.r]) \in {"none", "P", "D"} /\ StatusAfter(k.op) \in Statuses
        /\ PkgAfter(k.op, rel[k.r]) # "none" => StatusAfter(k.op) \in Packaging
        /\ TypeOf(k.op) \in NoticeTypes
        /\ TypeOf(k.op) = "reliefrqst_approved" =>
             k.op = "eligible" /\ StatusAfter(k.op) \in Packaging
        /\ TypeOf(k.op) = "reliefrqst_ineligible" =>
             k.op = "ineligible" /\ StatusAfter(k.op) = "INELIGIBLE"
    BY Zenon, <1>1, <1>2, <2>1, AfterDecision
  <2> QED
    BY Zenon, <2>1, <2>2
<1>4. /\ to \in Seq(k.to) /\ Len(to) \in Nat /\ DOMAIN to = 1 .. Len(to)
      /\ \A i, j \in 1 .. Len(to) : to[i] = to[j] => i = j
      /\ \A i \in 1 .. Len(to) : to[i] \in k.to
  <2> DEFINE size == Cardinality(k.to)
  <2>1. to \in [1 .. size -> k.to] /\ \A i, j \in DOMAIN to : to[i] = to[j] => i = j
    BY Zenon, <1>0 DEF Orders
  <2>2. size \in 0 .. (MaxNotices - Len(notes))
    BY Zenon, <1>1
  <2> HIDE DEF size
  <2>3. size \in Nat
    BY <2>2
  <2> QED
    BY Zenon, <2>1, <2>3, SeqOfFunction
<1> DEFINE n == Len(to)
           m == Len(notes)
<1>5. ASSUME NEW i \in 1 .. n
      PROVE  /\ more[i] \in Notices /\ more[i].user = to[i][2]
             /\ more[i].type = TypeOf(k.op) /\ more[i].r = k.r
  <2> DEFINE p == to[i]
             u == p[2]
             type == TypeOf(k.op)
             note == [user |-> u, type |-> type, r |-> k.r, status |-> "unread"]
  <2>1. p \in Lists \X Users
    BY Zenon, <1>2, <1>4 DEF ToSound
  <2>2. more[i] = note
    BY Zenon, <1>4 DEF create_notification, more
  <2> HIDE DEF p
  <2>3. u \in Users
    BY Zenon, <2>1
  <2>4. type \in NoticeTypes /\ k.r \in Reliefs
    BY Zenon, <1>2, <1>3
  <2> HIDE DEF u, type
  <2>5. note \in Notices /\ note.user = u /\ note.type = type /\ note.r = k.r
    BY Zenon, <2>3, <2>4 DEF Notices
  <2> QED
    BY Zenon, <2>2, <2>5 DEF p, u, type
<1>6. more \in Seq(Notices) /\ Len(more) = n
  <2>1. more \in [1 .. n -> Notices]
    BY Zenon, <1>4, <1>5 DEF more
  <2> QED
    BY Zenon, <1>4, <2>1, SeqOfFunction
<1> HIDE DEF n
<1>7. /\ notes \in Seq(Notices) /\ m \in Nat /\ n \in Nat
      /\ DOMAIN notes = 1 .. m /\ \A i \in 1 .. m : notes[i] \in Notices
  BY Zenon, <1>4, SeqElements DEF NInv, n
<1>8. /\ notes' \in Seq(Notices) /\ DOMAIN notes' = 1 .. m + n
      /\ \A i \in 1 .. m : notes'[i] = notes[i]
      /\ \A i \in 1 .. n : notes'[m + i] = more[i]
      /\ \A i \in DOMAIN notes' : notes'[i] \in Notices
  <2>1. /\ notes' \in Seq(Notices) /\ Len(notes') = m + n
        /\ \A i \in 1 .. m + n : notes'[i] = IF i <= m THEN notes[i] ELSE more[i - m]
    BY Zenon, <1>1, <1>6, <1>7, SeqJoined
  <2>2. DOMAIN notes' = 1 .. m + n
    BY Zenon, <2>1, SeqElements
  <2>3. \A i \in DOMAIN notes' : notes'[i] \in Notices
    BY Zenon, <2>1, <2>2, SeqElements
  <2>4. \A i \in 1 .. m : i \in 1 .. m + n /\ i <= m
    BY <1>7
  <2> HIDE DEF m
  <2>5. \A i \in 1 .. m : notes'[i] = notes[i]
    BY Zenon, <2>1, <2>4
  <2>6. ASSUME NEW i \in 1 .. n PROVE notes'[m + i] = more[i]
    <3> DEFINE j == m + i
    <3>1. j \in 1 .. m + n /\ ~ j <= m /\ j - m = i
      BY <1>7
    <3> HIDE DEF j
    <3>2. notes'[j] = more[j - m]
      BY Zenon, <2>1, <3>1
    <3> QED
      BY Zenon, <3>1, <3>2 DEF j
  <2> QED
    BY Zenon, <2>1, <2>2, <2>3, <2>5, <2>6
<1>9. row \in ReliefRows /\ row.version = k.was.version + 1 /\ row.status = StatusAfter(k.op)
      /\ row.pkg = PkgAfter(k.op, k.was) /\ k.was.version \in Nat
  <2> DEFINE status == StatusAfter(k.op)
             pkg == PkgAfter(k.op, k.was)
             old == k.was.version
  <2>1. old \in Nat /\ status \in Statuses /\ pkg \in {"none", "P", "D"}
    BY Zenon, <1>2, <1>3 DEF ReliefRows
  <2>2. row = [status |-> status, pkg |-> pkg, version |-> old + 1]
    BY Zenon DEF row
  <2> HIDE DEF status, pkg, old
  <2>3. row \in ReliefRows /\ row.version = old + 1 /\ row.status = status /\ row.pkg = pkg
    BY <2>1, <2>2 DEF ReliefRows
  <2> QED
    BY Zenon, <2>1, <2>3 DEF status, pkg, old
<1> HIDE DEF m
<1>10. /\ rel \in [Reliefs -> ReliefRows] /\ rel' \in [Reliefs -> ReliefRows]
       /\ \A r \in Reliefs : rel'[r] = IF r = k.r THEN row ELSE rel[r]
  BY Zenon, <1>1, <1>2, <1>9 DEF NInv
<1>11. ASSUME NEW i \in 1 .. m + n
       PROVE  \/ i \in 1 .. m /\ notes'[i] = notes[i]
              \/ \E j \in 1 .. n : i = m + j /\ notes'[i] = more[j]
  <2>1. CASE i <= m
    <3>1. i \in 1 .. m
      BY <1>7, <2>1
    <3> QED
      BY Zenon, <1>8, <3>1
  <2>2. CASE i > m
    <3>1. i - m \in 1 .. n /\ i = m + (i - m)
      BY <1>7, <2>2
    <3> QED
      BY Zenon, <1>8, <3>1
  <2> QED
    BY <1>7, <2>1, <2>2
<1>12. ASSUME NEW i \in 1 .. m
       PROVE  /\ notes[i].type = "reliefrqst_approved" => rel[notes[i].r].status \in Packaging
              /\ notes[i].type = "reliefrqst_ineligible" => rel[notes[i].r].status = "INELIGIBLE"
              /\ notes[i].r \in Reliefs
  BY Zenon, <1>7 DEF NInv, DecisionAnnouncedOnce, Notices
<1>13. ASSUME NEW i \in DOMAIN notes'
       PROVE  /\ notes'[i].type = "reliefrqst_approved" => rel'[notes'[i].r].status \in Packaging
              /\ notes'[i].type = "reliefrqst_ineligible" =>
                   rel'[notes'[i].r].status = "INELIGIBLE"
  <2>1. CASE i \in 1 .. m /\ notes'[i] = notes[i]
    <3>1. /\ notes[i].type = "reliefrqst_approved" => rel[notes[i].r].status \in Packaging
          /\ notes[i].type = "reliefrqst_ineligible" => rel[notes[i].r].status = "INELIGIBLE"
          /\ notes[i].r \in Reliefs
      BY Zenon, <1>12, <2>1
    <3>2. CASE notes[i].r = k.r
      BY Zenon, <1>3, <1>9, <1>10, <2>1, <3>1, <3>2
    <3>3. CASE notes[i].r # k.r
      BY Zenon, <1>10, <2>1, <3>1, <3>3
    <3> QED
      BY Zenon, <3>2, <3>3
  <2>2. CASE \E j \in 1 .. n : i = m + j /\ notes'[i] = more[j]
    <3>1. notes'[i].type = TypeOf(k.op) /\ notes'[i].r = k.r
      BY Zenon, <1>5, <2>2
    <3> QED
      BY Zenon, <1>2, <1>3, <1>9, <1>10, <3>1
  <2> QED
    BY Zenon, <1>8, <1>11, <2>1, <2>2
<1>14. ASSUME NEW i \in 1 .. m, NEW j \in 1 .. n, notes[i].type \in Decisions,
              notes[i].type = more[j].type, notes[i].r = more[j].r
       PROVE  FALSE
  <2>1. notes[i].type = TypeOf(k.op) /\ notes[i].r = k.r
    BY Zenon, <1>5, <1>14
  <2>2. CASE notes[i].type = "reliefrqst_approved"
    BY Zenon, <1>3, <1>12, <2>1, <2>2
  <2>3. CASE notes[i].type = "reliefrqst_ineligible"
    BY Zenon, <1>3, <1>12, <2>1, <2>3
  <2> QED
    BY Zenon, <1>14, <2>2, <2>3 DEF Decisions
<1>15. ASSUME NEW i \in 1 .. n, NEW j \in 1 .. n, more[i].type \in Decisions,
              more[i].user = more[j].user
       PROVE  i = j
  <2>1. k.op \in {"eligible", "ineligible"}
    BY Zenon, <1>3, <1>5, <1>15 DEF Decisions
  <2>2. to[i] \in k.to /\ to[j] \in k.to /\ to[i][2] = to[j][2]
    BY Zenon, <1>4, <1>5, <1>15 DEF n
  <2>3. to[i] = to[j]
    BY Zenon, <1>2, <2>1, <2>2 DEF ToSound
  <2> QED
    BY Zenon, <1>4, <2>3 DEF n
<1>16. ASSUME NEW i \in DOMAIN notes', NEW j \in DOMAIN notes', notes'[i].type \in Decisions,
              notes'[i].user = notes'[j].user, notes'[i].type = notes'[j].type,
              notes'[i].r = notes'[j].r
       PROVE  i = j
  <2>1. i \in 1 .. m + n /\ j \in 1 .. m + n
    BY Zenon, <1>8
  <2>2. CASE i \in 1 .. m /\ notes'[i] = notes[i] /\ j \in 1 .. m /\ notes'[j] = notes[j]
    <3>1. [notes[i] EXCEPT !.status = "x"] = [notes[j] EXCEPT !.status = "x"]
      <4>1. /\ notes[i] \in Notices /\ notes[j] \in Notices
            /\ notes[i].user = notes[j].user /\ notes[i].type = notes[j].type
            /\ notes[i].r = notes[j].r
        BY Zenon, <1>7, <1>16, <2>2
      <4> DEFINE a == notes[i]
                 b == notes[j]
      <4> HIDE DEF a, b
      <4>2. a \in Notices /\ b \in Notices /\ a.user = b.user /\ a.type = b.type /\ a.r = b.r
        BY Zenon, <4>1 DEF a, b
      <4>3. [a EXCEPT !.status = "x"] = [b EXCEPT !.status = "x"]
        BY Zenon, <4>2, SameNotice
      <4> QED
        BY Zenon, <4>3 DEF a, b
    <3> QED
      BY Zenon, <1>7, <1>16, <2>2, <3>1 DEF NInv, DecisionAnnouncedOnce, Decisions
  <2>3. ASSUME NEW a \in 1 .. n, NEW b \in 1 .. n, i = m + a, notes'[i] = more[a],
               j = m + b, notes'[j] = more[b]
        PROVE  i = j
    BY Zenon, <1>15, <1>16, <2>3
  <2>4. ASSUME NEW a \in 1 .. n, i \in 1 .. m, notes'[i] = notes[i], notes'[j] = more[a]
        PROVE  FALSE
    BY Zenon, <1>14, <1>16, <2>4
  <2>5. ASSUME NEW a \in 1 .. n, j \in 1 .. m, notes'[j] = notes[j], notes'[i] = more[a]
        PROVE  FALSE
    BY Zenon, <1>14, <1>16, <2>5
  <2> QED
    BY Zenon, <1>11, <2>1, <2>2, <2>3, <2>4, <2>5
<1>17. DecisionAnnouncedOnce'
  <2>1. \A i \in DOMAIN notes' : notes'[i] \in Notices
    BY Zenon, <1>8
  <2>2. ASSUME NEW i \in DOMAIN notes', NEW j \in DOMAIN notes',
               notes'[i].type \in {"reliefrqst_approved", "reliefrqst_ineligible"},
               [notes'[i] EXCEPT !.status = "x"] = [notes'[j] EXCEPT !.status = "x"]
        PROVE  i = j
    <3>1. notes'[i].user = notes'[j].user /\ notes'[i].type = notes'[j].type
          /\ notes'[i].r = notes'[j].r
      BY Zenon, <2>1, <2>2, SameNotice
    <3> QED
      BY Zenon, <1>16, <2>2, <3>1 DEF Decisions
  <2> QED
    BY Zenon, <1>13, <2>2 DEF DecisionAnnouncedOnce
<1>18. task'[c] = Idle /\ \A d \in Clients \ {c} : task'[d] = task[d]
  BY Zenon, <1>1 DEF UInv
<1>19. NInv'
  <2>1. NoticeTask(c)' /\ \A r \in Reliefs : ~ Flushed(c, r)'
    BY <1>18 DEF NoticeTask, Flushed, Idle, Handlers
  <2>2. \A r \in Reliefs : rel'[r].pkg # "none" => rel'[r].status \in Packaging
    BY Zenon, <1>3, <1>9, <1>10 DEF NInv
  <2>3. \A d \in Clients \ {c} : ~ Flushed(d, k.r)
    BY Zenon, <1>1, <1>2 DEF NInv, Flushed, k
  <2>4. row.version > rel[k.r].version
    <3> DEFINE old == k.was.version
    <3>1. old \in Nat /\ row.version = old + 1 /\ rel[k.r].version = old
      BY Zenon, <1>2, <1>9
    <3> HIDE DEF old
    <3>2. old + 1 > old
      BY <3>1
    <3> QED
      BY Zenon, <3>1, <3>2
  <2>5. \A r \in Reliefs : \/ rel'[r] = rel[r]
                           \/ /\ rel'[r].version > rel[r].version
                              /\ \A d \in Clients \ {c} : ~ Flushed(d, r)
    BY Zenon, <1>10, <2>3, <2>4
  <2> QED
    BY Zenon, <1>8, <1>10, <1>17, <1>18, <2>1, <2>2, <2>5, NoticeStep
<1>20. UInv'
  BY Zenon, <1>1, UserReads DEF Idle
<1>21. NoticesKept
  <2> SUFFICES ASSUME NEW i \in 1 .. m PROVE i \in DOMAIN notes' /\ notes'[i] = notes[i]
    BY Zenon, <1>7 DEF NoticesKept
  <2>1. i \in 1 .. m + n
    BY <1>7
  <2> QED
    BY Zenon, <1>8, <2>1
<1>22. Announces(k)
  <2> SUFFICES ASSUME NEW p \in k.to
               PROVE  \E i \in DOMAIN notes' : /\ notes'[i].user = p[2]
                                               /\ notes'[i].type = TypeOf(k.op) /\ notes'[i].r = k.r
    BY Zenon DEF Announces
  <2>1. IsFiniteSet(k.to)
    BY Zenon, <1>2, ListsFinite DEF ToSound
  <2>2. Cardinality(k.to) \in Nat
    BY Zenon, <2>1, FS_CardinalityType
  <2>3. PICK j \in DOMAIN to : to[j] = p
    BY Zenon, <1>0, <2>1, <2>2, OrderNamesAll
  <2>4. j \in 1 .. n
    BY Zenon, <1>4, <2>3 DEF n
  <2>5. m + j \in 1 .. m + n
    BY <1>7, <2>4
  <2>6. notes'[m + j] = more[j] /\ m + j \in DOMAIN notes'
    BY Zenon, <1>8, <2>4, <2>5
  <2>7. more[j].user = p[2] /\ more[j].type = TypeOf(k.op) /\ more[j].r = k.r
    BY Zenon, <1>5, <2>3, <2>4
  <2> QED
    BY Zenon, <2>6, <2>7
<1> QED
  BY Zenon, <1>1, <1>19, <1>20, <1>21, <1>22 DEF k

\* The owner's changes: a notice keeps what it says.
LEMMA OwnerStep ==
  ASSUME UInv, NInv, NEW c \in Clients, NEW new \in {"read", "deleted"},
         notes' = [n \in DOMAIN notes |->
                     IF n \in task[c].ns THEN [notes[n] EXCEPT !.status = new] ELSE notes[n]],
         task' = [task EXCEPT ![c] = Idle],
         UNCHANGED <<users, rel>>
  PROVE  UInv' /\ NInv' /\ NoticesKept
<1>1. /\ notes \in Seq(Notices) /\ Len(notes) \in Nat /\ DOMAIN notes = 1 .. Len(notes)
      /\ \A n \in DOMAIN notes : notes[n] \in Notices
  BY Zenon, SeqElements DEF NInv
<1>2. ASSUME NEW n \in DOMAIN notes
      PROVE  /\ notes'[n] \in Notices
             /\ notes'[n].user = notes[n].user /\ notes'[n].type = notes[n].type
             /\ notes'[n].r = notes[n].r
             /\ notes[n].status \in {"unread", "read", "deleted"}
             /\ \/ notes'[n].status = notes[n].status
                \/ n \in task[c].ns /\ notes'[n].status = new
  <2> DEFINE a == notes[n]
  <2>1. a \in Notices
    BY Zenon, <1>1
  <2>2. notes'[n] = IF n \in task[c].ns THEN [a EXCEPT !.status = new] ELSE a
    BY Zenon
  <2> HIDE DEF a
  <2>3. /\ [a EXCEPT !.status = new] \in Notices
        /\ [a EXCEPT !.status = new].user = a.user /\ [a EXCEPT !.status = new].type = a.type
        /\ [a EXCEPT !.status = new].r = a.r /\ [a EXCEPT !.status = new].status = new
        /\ a.status \in {"unread", "read", "deleted"}
    BY Zenon, <2>1 DEF Notices
  <2> DEFINE b == notes'[n]
             in == n \in task[c].ns
  <2>4. b = IF in THEN [a EXCEPT !.status = new] ELSE a
    BY Zenon, <2>2
  <2> HIDE DEF b, in
  <2>5. /\ b \in Notices /\ b.user = a.user /\ b.type = a.type /\ b.r = a.r
        /\ a.status \in {"unread", "read", "deleted"}
        /\ b.status = a.status \/ (in /\ b.status = new)
    <3>1. CASE in
      BY Zenon, <2>3, <2>4, <3>1
    <3>2. CASE ~ in
      BY Zenon, <2>1, <2>3, <2>4, <3>2
    <3> QED
      BY Zenon, <3>1, <3>2
  <2> QED
    BY Zenon, <2>5 DEF a, b, in
<1>3. DOMAIN notes' = DOMAIN notes /\ notes' \in Seq(Notices)
  <2>1. notes' \in [1 .. Len(notes) -> Notices]
    BY Zenon, <1>1, <1>2
  <2> QED
    BY Zenon, <1>1, <2>1, SeqOfFunction
<1>4. NoticesKept
  BY Zenon, <1>2, <1>3 DEF NoticesKept
<1>5. DecisionAnnouncedOnce'
  <2>1. ASSUME NEW i \in DOMAIN notes, NEW j \in DOMAIN notes,
               notes'[i].type \in {"reliefrqst_approved", "reliefrqst_ineligible"},
               [notes'[i] EXCEPT !.status = "x"] = [notes'[j] EXCEPT !.status = "x"]
        PROVE  i = j
    <3> DEFINE a == notes'[i]
               b == notes'[j]
    <3>1. a.user = b.user /\ a.type = b.type /\ a.r = b.r
      <4>1. a \in Notices /\ b \in Notices
        BY Zenon, <1>2
      <4>2. [a EXCEPT !.status = "x"] = [b EXCEPT !.status = "x"]
        BY Zenon, <2>1
      <4> HIDE DEF a, b
      <4> QED
        BY Zenon, <4>1, <4>2, SameNotice
    <3>2. notes[i].user = notes[j].user /\ notes[i].type = notes[j].type
          /\ notes[i].r = notes[j].r
      BY Zenon, <1>2, <3>1
    <3>3. [notes[i] EXCEPT !.status = "x"] = [notes[j] EXCEPT !.status = "x"]
      BY Zenon, <1>1, <3>2, SameNotice
    <3> QED
      BY Zenon, <1>2, <2>1, <3>3 DEF NInv, DecisionAnnouncedOnce
  <2>2. \A n \in DOMAIN notes :
          /\ notes'[n].type = "reliefrqst_approved" => rel'[notes'[n].r].status \in Packaging
          /\ notes'[n].type = "reliefrqst_ineligible" => rel'[notes'[n].r].status = "INELIGIBLE"
    BY <1>2 DEF NInv, DecisionAnnouncedOnce
  <2> QED
    BY Zenon, <1>3, <2>1, <2>2 DEF DecisionAnnouncedOnce
<1>6. NInv'
  <2>1. task'[c] = Idle /\ \A d \in Clients \ {c} : task'[d] = task[d]
    BY Zenon DEF UInv
  <2>2. NoticeTask(c)' /\ \A r \in Reliefs : ~ Flushed(c, r)'
    BY <2>1 DEF NoticeTask, Flushed, Idle, Handlers
  <2>3. /\ rel' \in [Reliefs -> ReliefRows]
        /\ \A r \in Reliefs : rel'[r].pkg # "none" => rel'[r].status \in Packaging
    BY Zenon DEF NInv
  <2>4. \A r \in Reliefs : rel'[r] = rel[r]
    BY Zenon
  <2> QED
    BY Zenon, <1>3, <1>5, <2>1, <2>2, <2>3, <2>4, NoticeStep
<1>7. UInv'
  BY Zenon, UserReads DEF Idle
<1> QED
  BY Zenon, <1>4, <1>6, <1>7

\* Steps that only load rows or give up.
LEMMA NoticeTaskStep ==
  ASSUME UInv, NInv, NEW c \in Clients,
         \/ \E h \in Handlers, r \in Reliefs : load_relief(c, h, r)
         \/ \E u \in Users :
              \/ \E n \in DOMAIN notes : mark_as_read(c, u, n) \/ delete_notification(c, u, n)
              \/ clear_all_notifications(c, u)
         \/ rollback_notes(c)
  PROVE  UInv' /\ NInv' /\ UNCHANGED users
<1>1. ASSUME NEW h \in Handlers, NEW r \in Reliefs, load_relief(c, h, r)
      PROVE  UInv' /\ NInv' /\ UNCHANGED <<users, notes>>
  <2> DEFINE k == [op |-> h, r |-> r, was |-> rel[r], step |-> "load", to |-> {}]
  <2>1. /\ task' = [task EXCEPT ![c] = k] /\ UNCHANGED <<users, rel, notes>>
        /\ Allowed(h, rel[r])
    BY Zenon, <1>1 DEF load_relief
  <2>2. k.op = h /\ k.r = r /\ k.was = rel[r] /\ k.step = "load" /\ ReliefTask(k)
    BY Zenon DEF ReliefTask
  <2>3. h \notin {"edit", "active"}
    BY Zenon DEF Handlers
  <2> HIDE DEF k
  <2>4. UInv'
    BY Zenon, <2>1, <2>2, <2>3, UserReads
  <2>5. NInv'
    BY Zenon, <2>1, <2>2, NoticeReads DEF UInv
  <2> QED
    BY Zenon, <2>1, <2>4, <2>5
<1>2. ASSUME NEW op \in {"mark", "delete"}, NEW u, NEW ns, load_notes(c, op, u, ns)
      PROVE  UInv' /\ NInv' /\ UNCHANGED <<users, notes>>
  <2> DEFINE k == [op |-> op, u |-> u, ns |-> ns]
  <2>1. task' = [task EXCEPT ![c] = k] /\ UNCHANGED <<users, rel, notes>>
    BY Zenon, <1>2 DEF load_notes
  <2>2. k.op \notin {"edit", "active"} /\ k.op \notin Handlers
    BY Zenon DEF Handlers
  <2> HIDE DEF k
  <2>3. UInv'
    BY Zenon, <2>1, <2>2, UserReads
  <2>4. NInv'
    BY Zenon, <2>1, <2>2, NoticeReads DEF UInv
  <2> QED
    BY Zenon, <2>1, <2>3, <2>4
<1>3. ASSUME rollback_notes(c)
      PROVE  UInv' /\ NInv' /\ UNCHANGED <<users, notes>>
  <2>1. task' = [task EXCEPT ![c] = Idle] /\ UNCHANGED <<users, rel, notes>>
    BY Zenon, <1>3 DEF rollback_notes
  <2>2. Idle.op \notin {"edit", "active"} /\ Idle.op \notin Handlers
    BY Zenon DEF Idle, Handlers
  <2>3. UInv'
    BY Zenon, <2>1, <2>2, UserReads
  <2>4. NInv'
    BY Zenon, <2>1, <2>2, NoticeReads DEF UInv
  <2> QED
    BY Zenon, <2>1, <2>3, <2>4
<1>4. UInv' /\ NInv' /\ UNCHANGED <<users, notes>>
  BY Zenon, <1>1, <1>2, <1>3 DEF mark_as_read, delete_notification, clear_all_notifications
<1> QED
  BY Zenon, <1>4

\* The steps of the area "notifications" that are not user administration.
LEMMA NInvNext == UInv /\ NInv /\ NNext => UInv' /\ NInv' /\ UNCHANGED users
<1> SUFFICES ASSUME UInv, NInv, NNext
             PROVE  UInv' /\ NInv' /\ UNCHANGED users
  OBVIOUS
<1>1. PICK c \in Clients :
        \/ \E h \in Handlers, r \in Reliefs : load_relief(c, h, r)
        \/ flush_relief(c) \/ commit_relief(c)
        \/ \E u \in Users :
             \/ \E n \in DOMAIN notes : mark_as_read(c, u, n) \/ delete_notification(c, u, n)
             \/ clear_all_notifications(c, u)
        \/ commit_mark(c) \/ commit_delete(c)
        \/ rollback_notes(c)
  BY Zenon DEF NNext
<1>2. CASE flush_relief(c)
  BY <1>2, FlushStep
<1>3. CASE commit_relief(c)
  BY <1>3, CommitReliefStep
<1>4. CASE commit_mark(c)
  BY Zenon, <1>4, OwnerStep DEF commit_mark
<1>5. CASE commit_delete(c)
  BY Zenon, <1>5, OwnerStep DEF commit_delete
<1> QED
  BY Zenon, <1>1, <1>2, <1>3, <1>4, <1>5, NoticeTaskStep

\* Users switched on and off while the recipients are looked up: the handlers'
\* copies of relief requests are not touched.
LEMMA SwitchKeepsNotices ==
  ASSUME UInv, NInv, NEW c \in Clients, StatusHandlers(c) \/ rollback_user(c),
         UNCHANGED <<rel, notes>>
  PROVE  NInv'
<1>1. \/ task' = [task EXCEPT ![c] = Idle]
      \/ \E k : k.op = "active" /\ task' = [task EXCEPT ![c] = k]
  BY Zenon DEF StatusHandlers, activate, deactivate, SetActive, commit_active, rollback_user
<1>2. CASE task' = [task EXCEPT ![c] = Idle]
  <2>1. Idle.op \notin Handlers
    BY Zenon DEF Idle, Handlers
  <2> QED
    BY Zenon, <1>2, <2>1, NoticeReads DEF UInv
<1>3. ASSUME NEW k, k.op = "active", task' = [task EXCEPT ![c] = k]
      PROVE  NInv'
  <2>1. k.op \notin Handlers
    BY Zenon, <1>3 DEF Handlers
  <2> QED
    BY Zenon, <1>3, <2>1, NoticeReads DEF UInv
<1> QED
  BY Zenon, <1>1, <1>2, <1>3

-----------------------------------------------------------------------------
(* Notifications: nobody is left out *)

\* Whoever should hear of a change and is steady is on a list.
LEMMA RecipientsComplete ==
  ASSUME NEW h \in Handlers, NEW r, NEW row
  PROVE  \A u \in Users : Due(u, users[u], h, r) => Named(Recipients(h, r, row), u)
<1> SUFFICES ASSUME NEW u \in Users, Due(u, users[u], h, r)
             PROVE  \E p \in Recipients(h, r, row) : p[2] = u
  BY Zenon DEF Named
<1>1. Known(u) /\ users[u].active
  BY Zenon DEF Due, Known
<1>2. CASE h = "submit"
  <2>1. PICK code \in {"ODPEM_DIR_PEOD", "ODPEM_DDG", "ODPEM_DG"} : code \in users[u].roles
    BY Zenon, <1>2 DEF Due
  <2>2. u \in get_active_users_by_role_codes({code})
    BY Zenon, <1>1, <2>1 DEF get_active_users_by_role_codes
  <2> DEFINE to == <<code, u>>
  <2>3. to \in {"ODPEM_DIR_PEOD", "ODPEM_DDG", "ODPEM_DG"} \X Users /\ to[1] = code /\ to[2] = u
    BY Zenon, <2>1
  <2> HIDE DEF to
  <2>4. to \in _create_odpem_notifications(r)
    BY Zenon, <2>2, <2>3 DEF _create_odpem_notifications
  <2> QED
    BY Zenon, <1>2, <2>3, <2>4 DEF Recipients
<1>3. CASE h = "eligible"
  <2>1. u \in get_active_users_by_role_codes({"LOGISTICS_OFFICER", "LOGISTICS_MANAGER"})
    BY Zenon, <1>1, <1>3 DEF Due, get_active_users_by_role_codes
  <2> DEFINE to == <<"logistics", u>>
  <2>2. to \in _create_eligible_notification(r) /\ to[2] = u
    BY Zenon, <2>1 DEF _create_eligible_notification
  <2> QED
    BY Zenon, <1>3, <2>2 DEF Recipients
<1>4. CASE h = "ineligible"
  <2>1. u \in get_agency_active_users(AgencyOf[r])
    BY Zenon, <1>1, <1>4 DEF Due, get_agency_active_users
  <2> DEFINE to == <<"agency", u>>
  <2>2. to \in _create_ineligible_notification(r) /\ to[2] = u
    BY Zenon, <2>1 DEF _create_ineligible_notification
  <2> QED
    BY Zenon, <1>4, <2>2 DEF Recipients
<1> QED
  BY Zenon, <1>2, <1>3, <1>4 DEF Due

\* What was told stays told.
LEMMA ToldStays ==
  ASSUME NoticesKept, NEW u, NEW r, NEW type, Told(u, r, type)
  PROVE  Told(u, r, type)'
BY Zenon DEF NoticesKept, Told

\* A step of client c that changes no user and no request.
LEMMA QuietStep ==
  ASSUME TInv, NEW c \in Clients, UNCHANGED <<users, rel>>, NoticesKept,
         \A d \in Clients \ {c} : task'[d] = task[d],
         ToComplete(task'[c], users)
  PROVE  TInv'
<1>1. Original'
  BY Zenon DEF TInv, Original
<1>2. \A d \in Clients : ToComplete(task'[d], users')
  BY Zenon DEF TInv
<1>3. AllTold'
  BY Zenon, ToldStays DEF TInv, AllTold
<1> QED
  BY Zenon, <1>1, <1>2, <1>3 DEF TInv

\* A request passes a status by the handler that announces it.
LEMMA PassedBy ==
  ASSUME NInv, NEW h \in Handlers, NEW r \in Reliefs, Allowed(h, rel[r]),
         NEW g \in Announcing, Passed(g, StatusAfter(h)), ~ Passed(g, rel[r].status)
  PROVE  g = h
<1>1. rel[r] \in ReliefRows /\ (rel[r].pkg # "none" => rel[r].status \in Packaging)
  BY Zenon DEF NInv
<1> DEFINE row == rel[r]
<1>2. Allowed(h, row) /\ (row.pkg # "none" => row.status \in Packaging) /\ ~ Passed(g, row.status)
  BY Zenon, <1>1
<1> HIDE DEF row
<1>3. CASE h \in Announcing
  BY Zenon, <1>2, <1>3 DEF Announcing, Allowed, StatusAfter, Passed, Packaging
<1>4. CASE h \notin Announcing
  <2>1. row.status \in Packaging
    BY Zenon, <1>2, <1>4 DEF Announcing, Allowed, Handlers
  <2>2. StatusAfter(h) = "PART_FILLED"
    BY Zenon, <1>4 DEF Announcing, StatusAfter
  <2> QED
    BY Zenon, <1>2, <2>1, <2>2 DEF Announcing, Passed, Packaging
<1> QED
  BY Zenon, <1>3, <1>4

\* The commit of a handler tells everyone its change concerns.
LEMMA CommitTells ==
  ASSUME UInv, NInv, TInv, NEW c \in Clients, commit_relief(c)
  PROVE  TInv'
<1> DEFINE k == task[c]
<1>1. NoticesKept /\ Announces(k) /\ UNCHANGED users
  BY Zenon, CommitReliefStep
<1>2. /\ k.op \in Handlers /\ k.step = "flush"
      /\ rel' = [rel EXCEPT ![k.r] = [status |-> StatusAfter(k.op), pkg |-> PkgAfter(k.op, k.was),
                                      version |-> k.was.version + 1]]
      /\ task' = [task EXCEPT ![c] = Idle]
  BY Zenon DEF commit_relief
<1>3. k.r \in Reliefs /\ Allowed(k.op, rel[k.r])
  BY Zenon, <1>2 DEF NInv, NoticeTask
<1>4. \A r \in Reliefs : rel'[r].status = IF r = k.r THEN StatusAfter(k.op) ELSE rel[r].status
  BY Zenon, <1>2, <1>3 DEF NInv
<1>5. task'[c] = Idle /\ \A d \in Clients \ {c} : task'[d] = task[d]
  BY Zenon, <1>2 DEF UInv
<1>6. Original'
  BY Zenon, <1>1 DEF TInv, Original
<1>7. ASSUME NEW d \in Clients PROVE ToComplete(task'[d], users')
  <2>1. CASE d = c
    <3>1. Idle.op \notin Handlers
      BY Zenon DEF Idle, Handlers
    <3> QED
      BY Zenon, <1>5, <2>1, <3>1 DEF ToComplete
  <2>2. CASE d # c
    BY Zenon, <1>1, <1>5, <2>2 DEF TInv
  <2> QED
    BY Zenon, <2>1, <2>2
<1>8. AllTold'
  <2> SUFFICES ASSUME NEW r \in Reliefs, NEW u \in Users, NEW h \in Announcing,
                      Due(u, users[u], h, r), Passed(h, rel'[r].status)
               PROVE  Told(u, r, TypeOf(h))'
    BY Zenon, <1>1 DEF AllTold
  <2>1. CASE Passed(h, rel[r].status)
    BY Zenon, <1>1, <2>1, ToldStays DEF TInv, AllTold
  <2>2. CASE ~ Passed(h, rel[r].status)
    <3>1. r = k.r /\ Passed(h, StatusAfter(k.op))
      BY Zenon, <1>4, <2>2
    <3>2. h = k.op
      BY Zenon, <1>2, <1>3, <2>2, <3>1, PassedBy
    <3>3. PICK p \in k.to : p[2] = u
      BY Zenon, <1>2, <3>1, <3>2 DEF TInv, ToComplete, Named
    <3> QED
      BY Zenon, <1>1, <3>1, <3>2, <3>3 DEF Announces, Told
  <2> QED
    BY Zenon, <2>1, <2>2
<1> QED
  BY Zenon, <1>6, <1>7, <1>8 DEF TInv

\* The steps of the area "notifications" that are not user administration.
LEMMA TInvNext == UInv /\ NInv /\ TInv /\ NNext => TInv'
<1> SUFFICES ASSUME UInv, NInv, TInv, NNext PROVE TInv'
  OBVIOUS
<1>1. PICK c \in Clients :
        \/ \E h \in Handlers, r \in Reliefs : load_relief(c, h, r)
        \/ flush_relief(c) \/ commit_relief(c)
        \/ \E u \in Users :
             \/ \E n \in DOMAIN notes : mark_as_read(c, u, n) \/ delete_notification(c, u, n)
             \/ clear_all_notifications(c, u)
        \/ commit_mark(c) \/ commit_delete(c)
        \/ rollback_notes(c)
  BY Zenon DEF NNext
<1>2. UNCHANGED notes => NoticesKept
  BY Zenon DEF NoticesKept
<1>3. ASSUME NEW k, task' = [task EXCEPT ![c] = k], UNCHANGED <<users, rel>>, NoticesKept,
             k.op \notin Handlers \/ k.step = "load"
      PROVE  TInv'
  <2>1. task'[c] = k /\ \A d \in Clients \ {c} : task'[d] = task[d]
    BY Zenon, <1>3 DEF UInv
  <2>2. ToComplete(task'[c], users)
    BY Zenon, <1>3, <2>1 DEF ToComplete
  <2> QED
    BY Zenon, <1>3, <2>1, <2>2, QuietStep
<1>4. ASSUME NEW h \in Handlers, NEW r \in Reliefs, load_relief(c, h, r) PROVE TInv'
  <2> DEFINE k == [op |-> h, r |-> r, was |-> rel[r], step |-> "load", to |-> {}]
  <2>1. task' = [task EXCEPT ![c] = k] /\ UNCHANGED <<users, rel, notes>>
    BY Zenon, <1>4 DEF load_relief
  <2>2. k.step = "load"
    BY Zenon
  <2> HIDE DEF k
  <2> QED
    BY Zenon, <1>2, <1>3, <2>1, <2>2
<1>5. ASSUME NEW op \in {"mark", "delete"}, NEW u, NEW ns, load_notes(c, op, u, ns) PROVE TInv'
  <2> DEFINE k == [op |-> op, u |-> u, ns |-> ns]
  <2>1. task' = [task EXCEPT ![c] = k] /\ UNCHANGED <<users, rel, notes>>
    BY Zenon, <1>5 DEF load_notes
  <2>2. k.op \notin Handlers
    BY Zenon DEF Handlers
  <2> HIDE DEF k
  <2> QED
    BY Zenon, <1>2, <1>3, <2>1, <2>2
<1>6. Idle.op \notin Handlers
  BY Zenon DEF Idle, Handlers
<1>7. CASE commit_mark(c) \/ commit_delete(c)
  <2>1. task' = [task EXCEPT ![c] = Idle] /\ UNCHANGED <<users, rel>>
    BY Zenon, <1>7 DEF commit_mark, commit_delete
  <2>2. NoticesKept
    BY Zenon, <1>7, OwnerStep DEF commit_mark, commit_delete
  <2> QED
    BY Zenon, <1>3, <1>6, <2>1, <2>2
<1>8. CASE rollback_notes(c)
  BY Zenon, <1>2, <1>3, <1>6, <1>8 DEF rollback_notes
<1>9. CASE flush_relief(c)
  <2> DEFINE k == task[c]
             to == Recipients(k.op, k.r, k.was)
             new == FlushedTask(k, to)
  <2>1. /\ k.op \in Handlers /\ task' = [task EXCEPT ![c] = new]
        /\ UNCHANGED <<users, rel, notes>>
    BY Zenon, <1>9 DEF flush_relief, FlushedTask
  <2>2. new.op = k.op /\ new.r = k.r /\ new.to = to
    <3>1. k = [op |-> k.op, r |-> k.r, was |-> k.was, step |-> k.step, to |-> k.to]
      BY Zenon, <2>1 DEF NInv, NoticeTask, ReliefTask
    <3> HIDE DEF to
    <3> QED
      BY <3>1 DEF FlushedTask
  <2>3. task'[c] = new /\ \A d \in Clients \ {c} : task'[d] = task[d]
    BY Zenon, <2>1 DEF UInv
  <2>4. \A u \in Users : Due(u, users[u], k.op, k.r) => Named(to, u)
    <3>1. k.op \in Handlers
      BY Zenon, <2>1
    <3> QED
      BY Zenon, <3>1, RecipientsComplete
  <2> HIDE DEF new, to
  <2>5. ToComplete(task'[c], users)
    BY Zenon, <2>2, <2>3, <2>4 DEF ToComplete
  <2> QED
    BY Zenon, <1>2, <2>1, <2>3, <2>5, QuietStep
<1>10. CASE commit_relief(c)
  BY Zenon, <1>10, CommitTells
<1> QED
  BY Zenon, <1>1, <1>4, <1>5, <1>7, <1>8, <1>9, <1>10
     DEF mark_as_read, delete_notification, clear_all_notifications

\* A user who is switched on or off is steady no more.
LEMMA SwitchTells ==
  ASSUME UInv, TInv, NEW c \in Clients, StatusHandlers(c) \/ rollback_user(c),
         UNCHANGED <<rel, notes>>
  PROVE  TInv'
<1>1. NoticesKept
  BY Zenon DEF NoticesKept
<1>2. Idle.op \notin Handlers
  BY Zenon DEF Idle, Handlers
<1>3. ASSUME NEW k, task' = [task EXCEPT ![c] = k], k.op \notin Handlers
      PROVE  /\ \A d \in Clients \ {c} : task'[d] = task[d]
             /\ ToComplete(task'[c], users')
  BY Zenon, <1>3 DEF UInv, ToComplete
<1>4. CASE UNCHANGED users
  <2>1. \/ task' = [task EXCEPT ![c] = Idle]
        \/ \E k : k.op = "active" /\ task' = [task EXCEPT ![c] = k]
    BY Zenon DEF StatusHandlers, activate, deactivate, SetActive, commit_active, rollback_user
  <2>2. \E k : task' = [task EXCEPT ![c] = k] /\ k.op \notin Handlers
    BY Zenon, <1>2, <2>1 DEF Handlers
  <2> QED
    BY Zenon, <1>1, <1>3, <1>4, <2>2, QuietStep
<1>5. CASE users' # users
  <2> DEFINE k == task[c]
             w == k.u
             row == [users[w] EXCEPT !.active = k.to, !.version = @ + 1]
  <2>1. /\ k.op = "active" /\ users' = [users EXCEPT ![w] = row]
        /\ task' = [task EXCEPT ![c] = Idle]
    BY Zenon, <1>5 DEF StatusHandlers, activate, deactivate, SetActive, commit_active, rollback_user
  <2>2. w \in Users
    BY Zenon, <2>1 DEF UInv, UserTask, UserCopy
  <2>3. row.version = users[w].version + 1 /\ users[w].version \in Nat
    BY <2>2 DEF UInv, UserRow
  <2>4. FirstUsers[w].version \in Nat
    BY Zenon, <2>2, FirstUsersAssumption
  <2> HIDE DEF row
  <2>5. /\ \A u \in Users : u # w => users'[u] = users[u]
        /\ users'[w] = row
    BY Zenon, <2>1, <2>2 DEF UInv
  <2>6. row.version >= FirstUsers[w].version /\ row.version # FirstUsers[w].version
    <3> DEFINE a == users[w].version
               f == FirstUsers[w].version
               b == row.version
    <3>1. a \in Nat /\ f \in Nat /\ b = a + 1 /\ a >= f
      BY Zenon, <2>2, <2>3, <2>4 DEF TInv, Original
    <3> HIDE DEF a, f, b
    <3>2. b >= f /\ b # f
      BY <3>1
    <3> QED
      BY Zenon, <3>2 DEF b, f
  <2>7. Original'
    BY Zenon, <2>2, <2>5, <2>6 DEF TInv, Original
  <2>8. \A u \in Users : \A h, r : Due(u, users'[u], h, r) => users'[u] = users[u]
    BY Zenon, <2>2, <2>5, <2>6 DEF Due
  <2>9. ToComplete(task'[c], users') /\ \A d \in Clients \ {c} : task'[d] = task[d]
    BY Zenon, <1>2, <1>3, <2>1
  <2>10. ASSUME NEW d \in Clients \ {c} PROVE ToComplete(task'[d], users')
    <3>1. ToComplete(task[d], users) /\ task'[d] = task[d]
      BY Zenon, <2>9 DEF TInv
    <3> QED
      BY Zenon, <2>8, <3>1 DEF ToComplete
  <2>11. AllTold'
    BY Zenon, <1>1, <2>8, ToldStays DEF TInv, AllTold
  <2> QED
    BY Zenon, <2>7, <2>9, <2>10, <2>11 DEF TInv
<1> QED
  BY Zenon, <1>4, <1>5

-----------------------------------------------------------------------------
(* Users and notifications: the theorems *)

\* The invariant holds at the start.
LEMMA WInvInit == Init => WInv
<1> SUFFICES ASSUME Init PROVE WInv
  OBVIOUS
<1>1. /\ users = FirstUsers /\ task = [c \in Clients |-> Idle]
      /\ rel = [r \in Reliefs |-> [status |-> "DRAFT", pkg |-> "none", version |-> 1]]
      /\ notes = <<>>
  BY Zenon DEF Init, UInit, NInit
<1>2. \A c \in Clients : task[c].op = "idle"
  BY Zenon, <1>1 DEF Idle
<1>3. UInv
  <2>1. DOMAIN users = Users /\ \A u \in Users : UserRow(users[u])
    BY Zenon, <1>1, FirstUsersAssumption DEF UserRow
  <2> QED
    BY Zenon, <1>1, <1>2, <2>1 DEF UInv, UserTask, HasRow
<1>4. NInv
  <2>1. rel \in [Reliefs -> ReliefRows] /\ \A r \in Reliefs : rel[r].pkg = "none"
    BY Zenon, <1>1 DEF ReliefRows, Statuses
  <2>2. notes \in Seq(Notices) /\ DOMAIN notes = {}
    BY <1>1
  <2>3. \A c \in Clients : NoticeTask(c) /\ \A r \in Reliefs : ~ Flushed(c, r)
    BY Zenon, <1>2 DEF NoticeTask, Flushed, Handlers
  <2> QED
    BY Zenon, <2>1, <2>2, <2>3 DEF NInv, DecisionAnnouncedOnce
<1>5. \A r \in Reliefs : rel[r].status = "DRAFT"
  BY Zenon, <1>1
<1>6. TInv
  <2>1. Original
    <3>1. \A u \in Users : users[u] = FirstUsers[u] /\ FirstUsers[u].version \in Nat
      BY Zenon, <1>1, FirstUsersAssumption
    <3>2. \A n \in Nat : n >= n
      OBVIOUS
    <3> QED
      BY Zenon, <3>1, <3>2 DEF Original
  <2>2. \A c \in Clients : ToComplete(task[c], users)
    BY Zenon, <1>2 DEF ToComplete, Handlers
  <2>3. AllTold
    BY Zenon, <1>5 DEF AllTold, Passed, Packaging
  <2> QED
    BY Zenon, <2>1, <2>2, <2>3 DEF TInv
<1> QED
  BY Zenon, <1>1, <1>3, <1>4, <1>5, <1>6 DEF WInv

\* What a step may do that leaves users, relief requests and notices alone.
LEMMA WInvSame ==
  ASSUME WInv, UNCHANGED <<users, task, rel, notes, area>>
  PROVE  WInv' /\ StatusSeen
<1>1. UInv'
  <2>1. \A d \in Clients, v \in Users : HasRow(d, v)' <=> HasRow(d, v)
    BY Zenon DEF HasRow
  <2>2. ASSUME NEW d \in Clients, UserTask(d) PROVE UserTask(d)'
    <3>1. UserCopy(task[d], users) => task[d].u \in Users
      BY Zenon DEF UserCopy
    <3> QED
      BY Zenon, <2>1, <2>2, <3>1 DEF UserTask
  <2> QED
    BY Zenon, <2>1, <2>2 DEF WInv, UInv
<1>2. NInv => NInv'
  BY Zenon DEF NInv, NoticeTask, Flushed, ReliefCopy, DecisionAnnouncedOnce
<1>3. ASSUME TInv PROVE TInv'
  <2>1. Original'
    BY Zenon, <1>3 DEF TInv, Original
  <2>2. \A d \in Clients : ToComplete(task'[d], users')
    BY Zenon, <1>3 DEF TInv
  <2>3. NoticesKept
    BY Zenon DEF NoticesKept
  <2>4. AllTold'
    BY Zenon, <1>3, <2>3, ToldStays DEF TInv, AllTold
  <2> QED
    BY Zenon, <2>1, <2>2, <2>4 DEF TInv
<1> QED
  BY Zenon, <1>1, <1>2, <1>3 DEF WInv, StatusSeen

\* Every step of every area preserves it and replaces a status that was seen.
LEMMA WInvNext == WInv /\ [Next]_vars => WInv' /\ StatusSeen
<1> SUFFICES ASSUME WInv, [Next]_vars
             PROVE  WInv' /\ StatusSeen
  OBVIOUS
<1>1. CASE UNCHANGED vars
  BY Zenon, <1>1, WInvSame DEF vars
<1>2. CASE /\ UNCHANGED <<area, nvars>>
  BY <1>2, WInvSame DEF nvars
<1>3. CASE area = "users" /\ UNext /\ UNCHANGED <<area, rel, notes>>
  <2>1. UInv' /\ StatusSeen
    BY Zenon, <1>3, UInvNext DEF WInv
  <2> QED
    BY Zenon, <1>3, <2>1 DEF WInv
<1>4. CASE area = "notifications" /\ NNext /\ UNCHANGED area
  <2>1. UInv' /\ NInv' /\ UNCHANGED users
    BY <1>4, NInvNext DEF WInv
  <2>2. TInv'
    BY Zenon, <1>4, TInvNext DEF WInv
  <2> QED
    BY Zenon, <1>4, <2>1, <2>2 DEF WInv, StatusSeen
<1>5. CASE /\ area = "notifications" /\ UNCHANGED <<area, rel, notes>>
           /\ \E c \in Clients : StatusHandlers(c) \/ rollback_user(c)
  <2>1. UInv' /\ StatusSeen
    BY Zenon, <1>5, UInvNext DEF WInv
  <2>2. NInv' /\ TInv'
    BY Zenon, <1>5, SwitchKeepsNotices, SwitchTells DEF WInv
  <2> QED
    BY Zenon, <1>5, <2>1, <2>2 DEF WInv
<1> QED
  BY Zenon, <1>1, <1>2, <1>3, <1>4, <1>5 DEF Next

\* Whoever switches a user on or off, in user_admin's deactivate, activate or
\* edit, had loaded the status that the commit replaces: the version counter
\* turns an edit that began before a deactivation away.
THEOREM StatusReplacedWasSeen == Spec => StatusChangeWasSeen
<1>1. WInv /\ [Next]_vars => [StatusSeen]_uvars
  BY WInvNext
<1>2. Spec => [][StatusSeen]_uvars
  BY <1>1, WInvInit, WInvNext, PTL DEF Spec
<1> QED
  BY <1>2 DEF StatusChangeWasSeen, StatusSeen

\* A director's decision on a relief request is announced by the handler whose
\* commit stands, once to each user: the notices of the other one, added to
\* its session after the flush, are rolled back with it.
THEOREM DecisionHeardOnce == Spec => []DecisionAnnouncedOnce
<1>1. WInv => DecisionAnnouncedOnce
  <2> SUFFICES ASSUME WInv PROVE DecisionAnnouncedOnce
    OBVIOUS
  <2>1. CASE area = "notifications"
    BY Zenon, <2>1 DEF WInv, NInv
  <2>2. CASE area # "notifications"
    <3>1. DOMAIN notes = {}
      BY <2>2 DEF WInv
    <3> QED
      BY Zenon, <3>1 DEF DecisionAnnouncedOnce
  <2> QED
    BY Zenon, <2>1, <2>2
<1> QED
  BY <1>1, WInvInit, WInvNext, PTL DEF Spec

\* No request passes a status without the users it concerns being told: the
\* notifications are in the transaction that changes the request, so a
\* handler that fails or loses a race changes nothing, and one that commits
\* tells every director, logistics user or agency user whose row did not
\* change meanwhile.
THEOREM EveryoneIsTold == Spec => []StatusAnnounced
<1>1. WInv => StatusAnnounced
  <2> SUFFICES ASSUME WInv PROVE StatusAnnounced
    OBVIOUS
  <2>1. CASE area = "notifications"
    <3>1. AllTold
      BY Zenon, <2>1 DEF WInv, TInv
    <3>2. /\ TypeOf("submit") = "reliefrqst_submitted" /\ TypeOf("eligible") = "reliefrqst_approved"
          /\ TypeOf("ineligible") = "reliefrqst_ineligible"
      BY Zenon DEF TypeOf
    <3> QED
      BY Zenon, <3>1, <3>2 DEF AllTold, StatusAnnounced, Steady, Known, Announcing, Due, Passed
  <2>2. CASE area # "notifications"
    <3>1. \A r \in Reliefs : rel[r].status = "DRAFT"
      BY Zenon, <2>2 DEF WInv
    <3> QED
      BY Zenon, <3>1 DEF StatusAnnounced, Packaging
  <2> QED
    BY Zenon, <2>1, <2>2
<1> QED
  BY <1>1, WInvInit, WInvNext, PTL DEF Spec

=============================================================================
