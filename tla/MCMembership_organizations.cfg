\* Two users and two organizations, two requests at a time, every route (not among
\* the regular runs: MCInvitations_links.cfg has these routes next to invitations).
SPECIFICATION Spec
CONSTANTS
  o1 = o1
  o2 = o2
  w1 = w1
  w2 = w2
  u1 = u1
  u2 = u2
  NoOne = NoOne
  Users = {u1, u2}
  Orgs = {o1, o2}
  Workspaces = {}
  OrgOf <- NoWorkspaces
  Tokens = {t1}
  Requests = {r1, r2}
  Updates <- RoleUpdates
  Routes = {"signup", "organization_signup", "organizations", "org_members", "put_member"}
SYMMETRY UserSymmetry
INVARIANTS TypeOK OneActiveOrganization LockHolderCurrent
