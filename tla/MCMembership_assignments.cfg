\* Two members of one organization with two workspaces, or two users who sign up;
\* two requests at a time.
SPECIFICATION AssignmentsSpec
CONSTANTS
  o1 = o1
  o2 = o2
  w1 = w1
  w2 = w2
  u1 = u1
  u2 = u2
  NoOne = NoOne
  Users = {u1, u2}
  Orgs = {o1}
  Workspaces = {w1, w2}
  OrgOf <- AllInO1
  Tokens = {t1}
  Requests = {r1, r2}
  Updates <- AssignUpdates
  Routes = {"signup", "organization_signup", "organizations", "org_members",
            "put_member"}
SYMMETRY RequestSymmetry
INVARIANTS TypeOK LockHolderCurrent
PROPERTY WorkspaceAdminConfined
