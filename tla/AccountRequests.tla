---------------------------- MODULE AccountRequests ----------------------------
(***************************************************************************)
(* Requests of agencies for an account (app/features/account_requests.py). *)
(* A handler loads the request, checks its status, and commits the new     *)
(* status together with an audit row; another administrator may commit in  *)
(* between.  provision_account changes nothing yet.                        *)
(***************************************************************************)
EXTENDS Naturals, Sequences

CONSTANTS Requests,  \* request_ids
          Contacts,  \* contact e-mail addresses, in lower case as stored
          Sessions   \* browser sessions: applicants and administrators

VARIABLES
  areq,   \* areq[r]: the row of request r
  audit,  \* audit[r]: the event_types of its audit rows, oldest first
  atask   \* atask[s]: the handler of session s that is about to flush

avars == <<areq, audit, atask>>

NotSubmitted == [status |-> "none", email |-> "none", version |-> 0]
NoTask == [op |-> "idle"]

AInit ==
  /\ areq = [r \in Requests |-> NotSubmitted]
  /\ audit = [r \in Requests |-> <<>>]
  /\ atask = [s \in Sessions |-> NoTask]

-----------------------------------------------------------------------------
(* Handlers up to the flush *)

Open(r) == areq[r].status \in {"S", "R"}

create_request(s, r, e) ==
  /\ atask[s] = NoTask
  /\ areq[r] = NotSubmitted
  /\ \A q \in Requests : Open(q) => areq[q].email # e
  /\ atask' = [atask EXCEPT ![s] = [op |-> "create", r |-> r, email |-> e]]
  /\ UNCHANGED <<areq, audit>>

Decide(s, r, status, event) ==
  /\ atask[s] = NoTask
  /\ atask' = [atask EXCEPT ![s] = [op |-> "set", r |-> r, was |-> areq[r],
                                    status |-> status, event |-> event]]
  /\ UNCHANGED <<areq, audit>>

start_review(s, r) == areq[r].status = "S" /\ Decide(s, r, "R", "moved_to_review")

approve_request(s, r) == Open(r) /\ Decide(s, r, "A", "approved")

\* The reason is required and not modelled.
deny_request(s, r) == Open(r) /\ Decide(s, r, "D", "denied")

-----------------------------------------------------------------------------
(* Flush and commit *)

\* uk_aar_active_email: the open requests have different addresses.
AddressFree(r, e) == \A q \in Requests \ {r} : Open(q) => areq[q].email # e

insert_request(s) ==
  LET k == atask[s]
  IN  /\ k.op = "create"
      /\ areq[k.r] = NotSubmitted
      /\ AddressFree(k.r, k.email)
      /\ areq' = [areq EXCEPT ![k.r] = [status |-> "S", email |-> k.email, version |-> 1]]
      /\ audit' = [audit EXCEPT ![k.r] = <<"submitted">>]
      /\ atask' = [atask EXCEPT ![s] = NoTask]

\* Faulty variant: the UPDATE finds the row by its key alone.
SameVersionUnchecked(k) == TRUE

\* WHERE version_nbr = the version loaded
SameVersion(k) == areq[k.r].version = k.was.version

update_request(s) ==
  LET k == atask[s]
  IN  /\ k.op = "set"
      /\ SameVersion(k)
      /\ areq' = [areq EXCEPT ![k.r] = [status |-> k.status, email |-> k.was.email,
                                        version |-> k.was.version + 1]]
      /\ audit' = [audit EXCEPT ![k.r] = Append(@, k.event)]
      /\ atask' = [atask EXCEPT ![s] = NoTask]

\* StaleDataError, IntegrityError or any other exception.
rollback_request(s) ==
  /\ atask[s] # NoTask
  /\ atask' = [atask EXCEPT ![s] = NoTask]
  /\ UNCHANGED <<areq, audit>>

-----------------------------------------------------------------------------
(* Specification *)

ANext ==
  \E s \in Sessions :
    \/ \E r \in Requests, e \in Contacts : create_request(s, r, e)
    \/ \E r \in Requests : start_review(s, r) \/ approve_request(s, r) \/ deny_request(s, r)
    \/ insert_request(s) \/ update_request(s) \/ rollback_request(s)

-----------------------------------------------------------------------------
(* Properties *)

\* The courses a request can take.
Courses ==
  [none |-> {<<>>},
   S |-> {<<"submitted">>},
   R |-> {<<"submitted", "moved_to_review">>},
   A |-> {<<"submitted", "approved">>, <<"submitted", "moved_to_review", "approved">>},
   D |-> {<<"submitted", "denied">>, <<"submitted", "moved_to_review", "denied">>}]

\* The audit log ("Immutable audit log", models.py) tells how a request got
\* to its status: each row follows from the one before, whatever
\* administrators do at the same time, and one decision is ever recorded.
AuditTellsStatus == \A r \in Requests : audit[r] \in Courses[areq[r].status]

=============================================================================
