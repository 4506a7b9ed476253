\* What requests on invitations do not keep (check one at a time; not among the
\* regular runs): one pending invitation per address, closed invitations
\* stay closed, accepted ones are not revoked.
SPECIFICATION InvitationsSpec
CONSTANTS
  o1 = o1
  o2 = o2
  NoOne = NoOne
  NoLink = NoLink
  Users = {u1, u2}
  Orgs = {o1}
  Workspaces = {}
  OrgOf <- NoWorkspaces
  Tokens = {t1, t2}
  Requests = {}
  Updates <- NoUpdates
  Routes = {"signup"}
  Invitations = {i1, i2}
  Links = {l1, l2, l3}
  Jobs = {j1, j2, j3}
  Invites <- MemberInvite
SYMMETRY InvitationSymmetry
INVARIANT OnePendingInvitation
PROPERTIES ClosedNotReopened AcceptedNotRevoked
