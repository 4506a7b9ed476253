---------------------------- MODULE AdminRegistry ----------------------------
(***************************************************************************)
(* What the membership service promises of the organization memberships:   *)
(* one row changes at a time, a user is active in one organization only,   *)
(* and an organization that has members keeps an active administrator.     *)
(* Requests, locks, snapshots and sessions are not part of this level.     *)
(***************************************************************************)
CONSTANTS Users, Orgs, Roles, Admin, None
VARIABLE members

Row == [role : Roles \cup {"none"}, active : BOOLEAN]
HasMembers(o) == \E u \in Users : members[o][u] # None

Consistent ==
  /\ \A o \in Orgs : HasMembers(o) => \E u \in Users : members[o][u] = Admin
  /\ \A u \in Users, o, p \in Orgs : members[o][u].active /\ members[p][u].active => o = p

Init == members \in [Orgs -> [Users -> Row]] /\ Consistent

\* The first member of an organization is its administrator.
Found(o, u) ==
  /\ ~HasMembers(o)
  /\ \A p \in Orgs \ {o} : ~members[p][u].active
  /\ members' = [members EXCEPT ![o][u] = Admin]

\* Any other change leaves another administrator behind when it takes one away.
Change(o, u, row) ==
  /\ HasMembers(o)
  /\ row # None
  /\ row.active => \A p \in Orgs \ {o} : ~members[p][u].active
  /\ row = Admin \/ \E v \in Users \ {u} : members[o][v] = Admin
  /\ members' = [members EXCEPT ![o][u] = row]

Next == \E o \in Orgs, u \in Users : Found(o, u) \/ \E row \in Row : Change(o, u, row)

Spec == Init /\ [][Next]_members
=============================================================================
