\* What the handlers do not keep (check one at a time; not among the
\* regular runs): the last administrator when the legacy member route is used, an
\* answer after a committed update, no session after a deactivation.
SPECIFICATION Spec
CONSTANTS
  o1 = o1
  o2 = o2
  w1 = w1
  w2 = w2
  u1 = u1
  u2 = u2
  NoOne = NoOne
  Users = {u1, u2}
  Orgs = {o1}
  Workspaces = {w1}
  OrgOf <- AllInO1
  Tokens = {t1, t2}
  Requests = {r1}
  Updates <- AllUpdates
  Routes = {"signup", "org_members", "put_member"}

INVARIANT AdminRetained
PROPERTIES CommittedUpdateAnswered DeactivationEndsSessions
