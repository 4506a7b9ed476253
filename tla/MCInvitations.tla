---------------------------- MODULE MCInvitations ----------------------------
(* Instances of Invitations for TLC. *)
EXTENDS Invitations, TLC

CONSTANTS o1, o2

NoWorkspaces == [w \in Workspaces |-> o1]
NoUpdates == {}
OfActive(ac) ==
  [role |-> "keep", active |-> ac, replaces |-> FALSE, assign |-> [w \in Workspaces |-> "omit"]]
Activate == {OfActive("activate")}
ActiveUpdates == {OfActive("activate"), OfActive("deactivate")}
MemberInvite == {Body0}
InvitationSymmetry ==
  Permutations(Users) \cup Permutations(Requests) \cup Permutations(Tokens)
    \cup Permutations(Invitations) \cup Permutations(Links) \cup Permutations(Jobs)
=============================================================================
