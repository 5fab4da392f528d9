SPECIFICATION Spec
CONSTANTS
  u1 = u1
  u2 = u2
  u3 = u3
  u4 = u4
  e1 = e1
  e2 = e2
  e3 = e3
  a1 = a1
  o1 = o1
  w1 = w1
  r1 = r1
  r2 = r2
  s1 = s1
  s2 = s2
  m1 = m1
  m2 = m2
  c1 = c1
  c2 = c2
  d1 = d1
  d2 = d2
  b1 = b1
  Requests = {r1, r2}
  Contacts = {m1, m2}
  Sessions = {s1, s2}
  Users = {u1, u2, u3, u4}
  Emails = {e2, e3}
  Orgs = {a1, o1}
  Roles <- MCRoles
  Clients = {c1, c2}
  UserForms <- MCUserForms
  MaxChanges = 2
  FirstUsers <- MCFirstUsers
  Reliefs = {r1}
  AgencyOf <- MCAgencyOf
  MaxRelief = 5
  MaxNotices = 4
  MaxSwitches = 1
  Desks = {d1, d2}
  Officers = {d1, d2}
  Managers = {d2}
  Batches = {b1}
  MaxSaves = 2
  Areas = {"account_requests", "users", "notifications", "packages"}
SYMMETRY Symmetry
CHECK_DEADLOCK FALSE
INVARIANTS AuditTellsStatus DecisionAnnouncedOnce StatusAnnounced OnePackage
PROPERTIES StatusChangeWasSeen SaveReplacesShown SavedAsEntered
