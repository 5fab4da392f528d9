----------------------------- MODULE Notifications -----------------------------
(***************************************************************************)
(* In-app notifications (app/services/notification_service.py and          *)
(* app/features/notifications.py) and the handlers that send them.  A      *)
(* notification is added to the session of the handler that changes a      *)
(* relief request, after the flush of that change, and commits with it.    *)
(* What else those handlers do is in modules ReliefRequest and Fulfilment. *)
(***************************************************************************)
EXTENDS UserAdmin, FiniteSets, Sequences

CONSTANTS Reliefs,     \* relief requests
          AgencyOf,    \* AgencyOf[r]: the agency of relief request r
          MaxRelief,   \* versions of a relief request
          MaxNotices   \* notifications

ASSUME UsersAssumption == IsFiniteSet(Users)

VARIABLES
  rel,   \* rel[r]: status of relief request r, of its package, and version
  notes  \* the notifications; a deleted one keeps its place

nvars == <<users, task, changes, rel, notes>>

NInit ==
  /\ rel = [r \in Reliefs |-> [status |-> "DRAFT", pkg |-> "none", version |-> 1]]
  /\ notes = <<>>

-----------------------------------------------------------------------------
(* Recipients *)

get_active_users_by_role_codes(codes) ==
  {u \in Users : Known(u) /\ users[u].active /\ users[u].roles \cap codes # {}}

get_agency_active_users(a) == {u \in Users : Known(u) /\ users[u].active /\ users[u].org = a}

\* Each operator gives <<list, user>> pairs, one notification each: a user
\* who is on two lists is notified twice.  The directors are one list per
\* role, the logistics users of _create_eligible_notification one list.
_create_odpem_notifications(r) ==
  {to \in {"ODPEM_DIR_PEOD", "ODPEM_DDG", "ODPEM_DG"} \X Users :
     to[2] \in get_active_users_by_role_codes({to[1]})}

_create_eligible_notification(r) ==
  {"logistics"} \X get_active_users_by_role_codes({"LOGISTICS_OFFICER", "LOGISTICS_MANAGER"})

_create_ineligible_notification(r) == {"agency"} \X get_agency_active_users(AgencyOf[r])

\* Only when there was no pending package; a draft is one.
ready_for_approval(r, pkg) ==
  IF pkg = "P" THEN {} ELSE {"lm"} \X get_active_users_by_role_codes({"LM"})

package_approved(r, codes) ==
  ({"lo"} \X get_active_users_by_role_codes(codes))
  \cup ({"agency"} \X get_agency_active_users(AgencyOf[r]))

package_dispatched(r) ==
  ({"agency"} \X get_agency_active_users(AgencyOf[r]))
  \cup ({"lm"} \X get_active_users_by_role_codes({"LOGISTICS_MANAGER"}))

\* What each handler needs of the request and its package, what it sets, and
\* whom it notifies of what; who may run it is in module Fulfilment.
Packaging == {"SUBMITTED", "PART_FILLED"}
Handlers ==
  {"submit", "eligible", "ineligible", "save_draft", "submit_for_approval",
   "review_approval", "approve_and_dispatch", "send_for_dispatch"}

Allowed(h, row) ==
  CASE h = "submit" -> row.status = "DRAFT"
    [] h \in {"eligible", "ineligible"} -> row.status = "AWAITING_APPROVAL"
    [] h \in {"review_approval", "approve_and_dispatch"} -> row.pkg = "P"
    [] h = "submit_for_approval" -> row.status \in Packaging /\ row.pkg # "D"
    [] OTHER -> row.status \in Packaging

StatusAfter(h) ==
  CASE h = "submit" -> "AWAITING_APPROVAL"
    [] h = "eligible" -> "SUBMITTED"
    [] h = "ineligible" -> "INELIGIBLE"
    [] OTHER -> "PART_FILLED"

PkgAfter(h, row) ==
  CASE h \in {"submit", "eligible", "ineligible"} -> row.pkg
    [] h = "save_draft" -> IF row.pkg = "none" THEN "P" ELSE row.pkg
    [] h = "submit_for_approval" -> "P"
    [] OTHER -> "D"

TypeOf(h) ==
  CASE h = "submit" -> "reliefrqst_submitted"
    [] h = "eligible" -> "reliefrqst_approved"
    [] h = "ineligible" -> "reliefrqst_ineligible"
    [] h = "submit_for_approval" -> "package_ready_for_approval"
    [] h = "send_for_dispatch" -> "package_dispatched"
    [] OTHER -> "package_approved"

Recipients(h, r, row) ==
  CASE h = "submit" -> _create_odpem_notifications(r)
    [] h = "eligible" -> _create_eligible_notification(r)
    [] h = "ineligible" -> _create_ineligible_notification(r)
    [] h = "submit_for_approval" -> ready_for_approval(r, row.pkg)
    [] h = "review_approval" -> package_approved(r, {"LOGISTICS_OFFICER"})
    [] h = "approve_and_dispatch" ->
         package_approved(r, {"LOGISTICS_OFFICER", "INVENTORY_CLERK"})
    [] h = "send_for_dispatch" -> package_dispatched(r)
    [] OTHER -> {}

-----------------------------------------------------------------------------
(* Handlers that notify *)

load_relief(c, h, r) ==
  /\ task[c] = Idle
  /\ Allowed(h, rel[r])
  /\ task' = [task EXCEPT ![c] = [op |-> h, r |-> r, was |-> rel[r], step |-> "load", to |-> {}]]
  /\ UNCHANGED <<users, changes, rel, notes>>

\* Faulty variant: the UPDATE finds the row by its key alone.
SameReliefUnchecked(k) == TRUE

\* WHERE version_nbr = the version loaded
SameRelief(k) == rel[k.r].version = k.was.version

\* Faulty variant: an exception while the recipients are notified is caught,
\* and the handler goes on to its commit.
flush_relief_catching(c) ==
  LET k == task[c]
  IN  /\ k.op \in Handlers /\ k.step = "load"
      /\ \A d \in Clients : task[d].op \in Handlers => task[d].r # k.r \/ task[d].step = "load"
      /\ SameRelief(k)
      /\ \E to \in {Recipients(k.op, k.r, k.was), {}} :
           task' = [task EXCEPT ![c].step = "flush", ![c].to = to]
      /\ UNCHANGED <<users, changes, rel, notes>>

\* The UPDATE, which locks the row, and then the query of the recipients.
flush_relief(c) ==
  LET k == task[c]
  IN  /\ k.op \in Handlers /\ k.step = "load"
      /\ \A d \in Clients : task[d].op \in Handlers => task[d].r # k.r \/ task[d].step = "load"
      /\ SameRelief(k)
      /\ task' = [task EXCEPT ![c].step = "flush", ![c].to = Recipients(k.op, k.r, k.was)]
      /\ UNCHANGED <<users, changes, rel, notes>>

create_notification(h, r, u) == [user |-> u, type |-> TypeOf(h), r |-> r, status |-> "unread"]

\* The orders in which the rows may be inserted: the queries name none.
Orders(S) == {s \in [1 .. Cardinality(S) -> S] : \A i, j \in DOMAIN s : s[i] = s[j] => i = j}

commit_relief(c) ==
  LET k == task[c]
  IN  /\ k.op \in Handlers /\ k.step = "flush"
      /\ k.was.version < MaxRelief /\ Cardinality(k.to) \in 0 .. (MaxNotices - Len(notes))
      /\ rel' = [rel EXCEPT ![k.r] = [status |-> StatusAfter(k.op), pkg |-> PkgAfter(k.op, k.was),
                                      version |-> k.was.version + 1]]
      /\ \E to \in Orders(k.to) :
           notes' = notes \o [i \in DOMAIN to |-> create_notification(k.op, k.r, to[i][2])]
      /\ task' = [task EXCEPT ![c] = Idle]
      /\ UNCHANGED <<users, changes>>

-----------------------------------------------------------------------------
(* What a user does with notifications *)

Present(n) == notes[n].status # "deleted"
Mine(u) == {n \in DOMAIN notes : notes[n].user = u /\ Present(n)}

load_notes(c, op, u, ns) ==
  /\ task[c] = Idle
  /\ users[u].active
  /\ task' = [task EXCEPT ![c] = [op |-> op, u |-> u, ns |-> ns]]
  /\ UNCHANGED <<users, changes, rel, notes>>

\* The row belongs to the user and is not read yet; otherwise nothing is
\* written.
mark_as_read(c, u, n) ==
  n \in Mine(u) /\ notes[n].status = "unread" /\ load_notes(c, "mark", u, {n})

delete_notification(c, u, n) == n \in Mine(u) /\ load_notes(c, "delete", u, {n})

clear_all_notifications(c, u) == load_notes(c, "delete", u, Mine(u))

\* An UPDATE that finds no row is a StaleDataError.
commit_mark(c) ==
  /\ task[c].op = "mark"
  /\ \A n \in task[c].ns : Present(n)
  /\ notes' = [n \in DOMAIN notes |->
                 IF n \in task[c].ns THEN [notes[n] EXCEPT !.status = "read"] ELSE notes[n]]
  /\ task' = [task EXCEPT ![c] = Idle]
  /\ UNCHANGED <<users, changes, rel>>

\* A DELETE by key for each row loaded; one that is gone is no error.
commit_delete(c) ==
  /\ task[c].op = "delete"
  /\ notes' = [n \in DOMAIN notes |->
                 IF n \in task[c].ns THEN [notes[n] EXCEPT !.status = "deleted"] ELSE notes[n]]
  /\ task' = [task EXCEPT ![c] = Idle]
  /\ UNCHANGED <<users, changes, rel>>

rollback_notes(c) ==
  /\ task[c].op \in Handlers \cup {"mark", "delete"}
  /\ task' = [task EXCEPT ![c] = Idle]
  /\ UNCHANGED <<users, changes, rel, notes>>

-----------------------------------------------------------------------------
(* Specification *)

NNext ==
  \E c \in Clients :
    \/ \E h \in Handlers, r \in Reliefs : load_relief(c, h, r)
    \/ flush_relief(c) \/ commit_relief(c)
    \/ \E u \in Users :
         \/ \E n \in DOMAIN notes : mark_as_read(c, u, n) \/ delete_notification(c, u, n)
         \/ clear_all_notifications(c, u)
    \/ commit_mark(c) \/ commit_delete(c)
    \/ rollback_notes(c)

-----------------------------------------------------------------------------
(* Properties *)

\* Only the decision that stands is announced, once to each user: of two
\* directors who decide at once, the loser's notifications are rolled back.
DecisionAnnouncedOnce ==
  /\ \A n \in DOMAIN notes :
       /\ notes[n].type = "reliefrqst_approved" => rel[notes[n].r].status \in Packaging
       /\ notes[n].type = "reliefrqst_ineligible" => rel[notes[n].r].status = "INELIGIBLE"
  /\ \A m, n \in DOMAIN notes :
       notes[m].type \in {"reliefrqst_approved", "reliefrqst_ineligible"}
         /\ [notes[m] EXCEPT !.status = "x"] = [notes[n] EXCEPT !.status = "x"] => m = n

\* An active user whose row has not changed since the start.
Steady(u) == Known(u) /\ users[u].active /\ users[u].version = FirstUsers[u].version

Told(u, r, type) ==
  \E n \in DOMAIN notes : notes[n].user = u /\ notes[n].r = r /\ notes[n].type = type

\* Whoever has to act on a request hears of it: no request waits for a
\* decision that a director was not told of, or for packages that a
\* logistics user was not told of, and none is refused without the agency
\* hearing it, whether handlers fail, race, or users delete what they got.
\* Users that were switched on or off meanwhile may miss it.
StatusAnnounced ==
  \A r \in Reliefs, u \in Users :
    Steady(u) =>
      /\ /\ rel[r].status # "DRAFT"
         /\ users[u].roles \cap {"ODPEM_DIR_PEOD", "ODPEM_DDG", "ODPEM_DG"} # {}
         => Told(u, r, "reliefrqst_submitted")
      /\ /\ rel[r].status \in Packaging
         /\ users[u].roles \cap {"LOGISTICS_OFFICER", "LOGISTICS_MANAGER"} # {}
         => Told(u, r, "reliefrqst_approved")
      /\ rel[r].status = "INELIGIBLE" /\ users[u].org = AgencyOf[r]
         => Told(u, r, "reliefrqst_ineligible")

=============================================================================
