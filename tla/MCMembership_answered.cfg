\* Two members of one organization with one workspace: fair requests that create
\* it, assign and deactivate.
SPECIFICATION FairAssignmentsSpec
CONSTANTS
  o1 = o1
  o2 = o2
  w1 = w1
  w2 = w2
  u1 = u1
  u2 = u2
  NoOne = NoOne
  Users = {u1, u2}
  Orgs = {o1}
  Workspaces = {w1}
  OrgOf <- AllInO1
  Tokens = {t1}
  Requests = {r1, r2}
  Updates <- Deactivation
  Routes = {"put_member", "ws_members", "workspaces"}
INVARIANT AdminRetained
PROPERTIES RegistrySpec DeactivationComplete RequestsAnswered
