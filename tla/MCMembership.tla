---------------------------- MODULE MCMembership ----------------------------
(* Instances of Membership for TLC. *)
EXTENDS Membership, TLC

CONSTANTS o1, o2, w1, w2, u1, u2

Body(role, active, replaces, assign) ==
  [role |-> role, active |-> active, replaces |-> replaces, assign |-> assign]
NoAssign == [w \in Workspaces |-> "omit"]

\* Changes of the organization role and of is_active only.
RoleUpdates ==
  {Body(ro, ac, FALSE, NoAssign) : ro \in {"keep", "member", ORG_ADMIN},
                                   ac \in {"keep", "activate", "deactivate"}}
    \ {NoUpdate}

NoWorkspaces == [w \in Workspaces |-> o1]
AllInO1 == [w \in Workspaces |-> o1]
UserSymmetry == Permutations(Users) \cup Permutations(Requests) \cup Permutations(Tokens)

ActivateUpdates == {Body("keep", ac, FALSE, NoAssign) : ac \in {"activate", "deactivate"}}
Deactivation == {Body("keep", "deactivate", FALSE, NoAssign)}

\* The administration of w1 given away, and a demotion that clears the
\* assignments.
AssignUpdates ==
  {Body("keep", "keep", TRUE, [NoAssign EXCEPT ![w1] = WORKSPACE_ADMIN]),
   Body("member", "keep", TRUE, NoAssign)}

AllUpdates == AssignUpdates \cup Deactivation

\* u1 administers an organization in which u2 has any row that can act: he
\* administers w1 or has no part in it, and is a member of the other workspace.
AssignmentsInit ==
  /\ Init
  /\ accounts = Users
  /\ orgMem[o1][u1] = [role |-> ORG_ADMIN, active |-> TRUE]
  /\ orgMem[o1][u2].role = ORG_ADMIN \/ orgMem[o1][u2].active
  /\ \A w \in Workspaces : ~Exists(wsMem[w][u1])
  /\ wsMem[w1][u2].role # "member"
  /\ \A w \in Workspaces \ {w1} : wsMem[w][u2] = [role |-> "member", active |-> TRUE]

\* Or the two sign up on an empty database.
NoRows ==
  /\ Init
  /\ accounts = {}

AssignmentsSpec == (AssignmentsInit \/ NoRows) /\ [][Next]_vars

\* The same with u2 an administrator, or a member who has administered w1, and
\* fair requests.
FairAssignmentsInit ==
  /\ AssignmentsInit
  /\ orgMem[o1][u2].active
  /\ orgMem[o1][u2].role = ORG_ADMIN <=> ~Exists(wsMem[w1][u2])

FairAssignmentsSpec ==
  FairAssignmentsInit /\ [][Next]_vars /\ \A r \in Requests : SF_vars(Handle(r))

RequestSymmetry == Permutations(Requests)
=============================================================================
