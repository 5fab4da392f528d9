------------------------------- MODULE UserAdmin -------------------------------
(***************************************************************************)
(* User administration (app/features/user_admin.py).  A handler reads the  *)
(* user it changes, issues its statements one by one, and commits.  The    *)
(* ORM sends an UPDATE of the user only when a column changed; role and    *)
(* warehouse assignments are rows of their own, which edit deletes and     *)
(* inserts anew whatever the user's version is.                            *)
(***************************************************************************)
EXTENDS Naturals

CONSTANTS Users,       \* user_ids
          Emails,      \* e-mail addresses, in lower case as stored
          Orgs,        \* agencies and custodians a user may belong to
          Roles,       \* role codes
          Clients,     \* browser sessions
          UserForms,   \* what the create and edit forms ask for
          MaxChanges,  \* changes to users that are committed
          FirstUsers   \* the users at the start

\* Version 0 stands for no row.
ASSUME FirstUsersAssumption ==
  /\ DOMAIN FirstUsers = Users
  /\ \A u \in Users :
       LET row == FirstUsers[u]
       IN  /\ row = [email |-> row.email, org |-> row.org, active |-> row.active,
                     roles |-> row.roles, warehouses |-> row.warehouses, version |-> row.version]
           /\ row.version \in Nat

VARIABLES users,  \* users[u]: the row of user u with its roles and warehouses
          task,   \* task[c]: the handler of client c
          changes \* how many changes to users were committed

uvars == <<users, task, changes>>

Idle == [op |-> "idle"]
Known(u) == users[u].version > 0
Change == changes < MaxChanges /\ changes' = changes + 1

-----------------------------------------------------------------------------
(* Who may administer, and what *)

\* role_required; a user who is not active is not authenticated.
Administers(a) ==
  Known(a) /\ users[a].active /\ users[a].roles \cap {"SYSTEM_ADMINISTRATOR", "CUSTODIAN"} # {}

get_assignable_roles(a) ==
  IF "SYSTEM_ADMINISTRATOR" \in users[a].roles THEN Roles
  ELSE IF "CUSTODIAN" \in users[a].roles THEN Roles \ {"SYSTEM_ADMINISTRATOR"} ELSE {}

validate_role_assignment(a, roles) == roles \subseteq get_assignable_roles(a)

\* "AGENCY:id" of an active agency or "CUSTODIAN:id", or no organisation.
SelectedOrganization(f) == f.org \in Orgs

-----------------------------------------------------------------------------
(* Creating a user *)

create_user(c, a, u, e, f) ==
  /\ task[c] = Idle /\ Administers(a)
  /\ ~ Known(u)
  /\ \A v \in Users : Known(v) => users[v].email # e
  /\ SelectedOrganization(f)
  /\ validate_role_assignment(a, f.roles)
  /\ task' = [task EXCEPT ![c] = [op |-> "create", u |-> u, email |-> e, form |-> f]]
  /\ UNCHANGED <<users, changes>>

\* The unique constraint on user.email.
EmailFree(e) == \A v \in Users : Known(v) => users[v].email # e

insert_user(c) ==
  LET k == task[c]
  IN  /\ k.op = "create"
      /\ ~ Known(k.u)
      /\ EmailFree(k.email)
      /\ users' = [users EXCEPT ![k.u] =
                     [email |-> k.email, org |-> k.form.org, active |-> k.form.active,
                      roles |-> k.form.roles, warehouses |-> k.form.warehouses, version |-> 1]]
      /\ Change
      /\ task' = [task EXCEPT ![c] = Idle]

-----------------------------------------------------------------------------
(* Editing a user *)

\* The roles of the administrator are those read when the request began.
edit_user(c, a, u, f) ==
  /\ task[c] = Idle /\ Administers(a)
  /\ Known(u)
  /\ SelectedOrganization(f)
  /\ validate_role_assignment(a, f.roles)
  /\ task' = [task EXCEPT ![c] = [op |-> "edit", u |-> u, form |-> f, was |-> users[u],
                                  step |-> "load", roles |-> {}, warehouses |-> {}]]
  /\ UNCHANGED <<users, changes>>

\* A column of the user differs from what was loaded.
Differs(k) == k.form.org # k.was.org \/ k.form.active # k.was.active

\* The session of client c has updated the row of user u.
HasRow(c, u) ==
  task[c].op = "edit" /\ task[c].u = u /\ task[c].step # "load" /\ Differs(task[c])
RowFree(u) == \A c \in Clients : ~ HasRow(c, u)

\* Faulty variant: the UPDATE finds the row by its key alone.
SameUserUnchecked(k) == TRUE

\* WHERE version_nbr = the version loaded
SameUser(k) == users[k.u].version = k.was.version

\* The autoflush sends the UPDATE, which waits for another's UPDATE to end;
\* then the DELETE of the role assignments that are committed now.
replace_roles(c) ==
  LET k == task[c]
  IN  /\ k.op = "edit" /\ k.step = "load"
      /\ Differs(k) => RowFree(k.u) /\ SameUser(k)
      /\ task' = [task EXCEPT ![c].step = "roles", ![c].roles = users[k.u].roles]
      /\ UNCHANGED <<users, changes>>

replace_warehouses(c) ==
  LET k == task[c]
  IN  /\ k.op = "edit" /\ k.step = "roles"
      /\ task' = [task EXCEPT ![c].step = "warehouses",
                              ![c].warehouses = users[k.u].warehouses]
      /\ UNCHANGED <<users, changes>>

\* A row inserted now is not one that an earlier DELETE of client d removes.
Outside(d, k) ==
  IF d.op = "edit" /\ d.u = k.u
  THEN [d EXCEPT !.roles = IF d.step # "load" THEN @ \ k.form.roles ELSE @,
                 !.warehouses = IF d.step = "warehouses" THEN @ \ k.form.warehouses ELSE @]
  ELSE d

\* An assignment that another session has inserted meanwhile violates the
\* primary key.
commit_edit(c) ==
  LET k == task[c]
      roles == users[k.u].roles \ k.roles
      warehouses == users[k.u].warehouses \ k.warehouses
  IN  /\ k.op = "edit" /\ k.step = "warehouses"
      /\ roles \cap k.form.roles = {} /\ warehouses \cap k.form.warehouses = {}
      /\ Change
      /\ users' = [users EXCEPT ![k.u] =
           [email |-> @.email,
            org |-> IF Differs(k) THEN k.form.org ELSE @.org,
            active |-> IF Differs(k) THEN k.form.active ELSE @.active,
            roles |-> roles \cup k.form.roles,
            warehouses |-> warehouses \cup k.form.warehouses,
            version |-> IF Differs(k) THEN @.version + 1 ELSE @.version]]
      /\ task' = [d \in Clients |-> IF d = c THEN Idle ELSE Outside(task[d], k)]

-----------------------------------------------------------------------------
(* Deactivating and activating *)

SetActive(c, u, to) ==
  /\ Known(u)
  /\ task' = [task EXCEPT ![c] = [op |-> "active", u |-> u, was |-> users[u], to |-> to]]
  /\ UNCHANGED <<users, changes>>

deactivate(c, a, u) ==
  task[c] = Idle /\ Administers(a) /\ u # a /\ SetActive(c, u, FALSE)

activate(c, a, u) ==
  task[c] = Idle /\ Administers(a) /\ SetActive(c, u, TRUE)

commit_active(c) ==
  LET k == task[c]
  IN  /\ k.op = "active"
      /\ k.was.active # k.to => RowFree(k.u) /\ SameUser(k)
      /\ Change
      /\ users' = IF k.was.active = k.to THEN users
                  ELSE [users EXCEPT ![k.u].active = k.to, ![k.u].version = @ + 1]
      /\ task' = [task EXCEPT ![c] = Idle]

rollback_user(c) ==
  /\ task[c].op \in {"create", "edit", "active"}
  /\ task' = [task EXCEPT ![c] = Idle]
  /\ UNCHANGED <<users, changes>>

-----------------------------------------------------------------------------
(* Specification *)

UInit ==
  /\ users = FirstUsers
  /\ task = [c \in Clients |-> Idle]
  /\ changes = 0

StatusHandlers(c) ==
  \/ \E a, u \in Users : deactivate(c, a, u) \/ activate(c, a, u)
  \/ commit_active(c)

UNext ==
  \E c \in Clients :
    \/ \E a, u \in Users, f \in UserForms :
         edit_user(c, a, u, f) \/ \E e \in Emails : create_user(c, a, u, e, f)
    \/ insert_user(c) \/ replace_roles(c) \/ replace_warehouses(c) \/ commit_edit(c)
    \/ StatusHandlers(c)
    \/ rollback_user(c)

-----------------------------------------------------------------------------
(* Properties *)

\* Whoever switches a user on or off had loaded the status that is replaced:
\* an edit that began before a deactivation does not undo it, neither when
\* it changes other columns nor when it changes none.
StatusChangeWasSeen ==
  [][\A u \in Users : Known(u) /\ users'[u].active # users[u].active =>
       \E c \in Clients :
         /\ task[c] # Idle /\ task'[c] = Idle /\ task[c].u = u
         /\ task[c].was.active = users[u].active
         /\ task[c].was.org = users[u].org]_uvars

=============================================================================
