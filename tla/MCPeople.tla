------------------------------- MODULE MCPeople -------------------------------
(***************************************************************************)
(* Instances of People.  u1 is an administrator and a director; u2 holds   *)
(* the logistics roles and belongs to the agency; u3 and u4 can be         *)
(* created.  Desk d1 is an officer's; the user at d2 has both logistics    *)
(* roles.                                                                  *)
(***************************************************************************)
EXTENDS People, TLC

CONSTANTS u1, u2, u3, u4, e1, e2, e3, a1, o1, w1, r1, r2, s1, s2, m1, m2, c1, c2, d1, d2, b1

Symmetry == Permutations(Clients)

MCRoles ==
  {"SYSTEM_ADMINISTRATOR", "CUSTODIAN", "LOGISTICS_OFFICER", "LOGISTICS_MANAGER",
   "INVENTORY_CLERK", "ODPEM_DG"}

MCFirstUsers ==
  [u \in Users |->
     [email |-> IF u = u1 THEN e1 ELSE e2, org |-> IF u = u2 THEN a1 ELSE o1,
      active |-> u \in {u1, u2},
      roles |-> CASE u = u1 -> {"SYSTEM_ADMINISTRATOR", "ODPEM_DG"}
                  [] u = u2 -> {"CUSTODIAN", "LOGISTICS_OFFICER", "LOGISTICS_MANAGER"}
                  [] OTHER -> {},
      warehouses |-> {}, version |-> IF u \in {u1, u2} THEN 1 ELSE 0]]

MCAgencyOf == [r \in Reliefs |-> a1]

\* Forms that change columns of u2 and forms that change none, with roles
\* that only an administrator may give and roles a custodian may give.
MCUserForms ==
  {[org |-> a1, active |-> TRUE, roles |-> {"CUSTODIAN"}, warehouses |-> {w1}],
   [org |-> o1, active |-> TRUE, roles |-> {"LOGISTICS_OFFICER"}, warehouses |-> {w1}],
   [org |-> a1, active |-> FALSE, roles |-> {"SYSTEM_ADMINISTRATOR"}, warehouses |-> {}]}

=============================================================================
