\* An acceptance by the last administrator of an organization.
SPECIFICATION InvitationsSpec
CONSTANTS
  o1 = o1
  o2 = o2
  NoOne = NoOne
  NoLink = NoLink
  Users = {u1, u2}
  Orgs = {o1}
  Workspaces = {}
  OrgOf <- NoWorkspaces
  Tokens = {t1, t2}
  Requests = {r1}
  Updates <- ActiveUpdates
  Routes = {"signup", "put_member"}
  Invitations = {i1}
  Links = {l1}
  Jobs = {j1}
  Invites <- MemberInvite
SYMMETRY InvitationSymmetry
INVARIANT AdminRetained
