\* Two organizations and every route that makes a member next to two invitation
\* requests and updates that make the member they join active again.
SPECIFICATION InvitationsSpec
CONSTANTS
  o1 = o1
  o2 = o2
  NoOne = NoOne
  NoLink = NoLink
  Users = {u1, u2}
  Orgs = {o1, o2}
  Workspaces = {}
  OrgOf <- NoWorkspaces
  Tokens = {t1}
  Requests = {r1}
  Updates <- Activate
  Routes = {"signup", "put_member", "organization_signup", "organizations", "org_members"}
  Invitations = {i1, i2}
  Links = {l1, l2}
  Jobs = {j1, j2}
  Invites <- MemberInvite
SYMMETRY InvitationSymmetry
INVARIANTS UsedLinkDead OneActiveOrganization
PROPERTY AcceptanceCurrent
