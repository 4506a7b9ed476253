----------------------------- MODULE Membership -----------------------------
(***************************************************************************)
(* Organization and workspace membership of the Lumeward server, as        *)
(* concurrent PostgreSQL READ COMMITTED transactions.                      *)
(*                                                                         *)
(* A request runs in one SQLAlchemy session.  It reads its authority       *)
(* (AdminScope), then the rows it needs, and leaves in the session the     *)
(* values to write; session.commit() writes only the columns whose value   *)
(* differs from the one loaded.  Other requests commit between these       *)
(* steps.  Every handler below inserts an OrganizationAuditEvent whose     *)
(* foreign key takes KEY SHARE on the organization row, so none of them    *)
(* commits while update_member holds that row FOR UPDATE.                  *)
(*                                                                         *)
(* Names, slugs, e-mail texts, passwords and the audit rows' contents are  *)
(* abstracted; a user stands for his e-mail address.                       *)
(***************************************************************************)
EXTENDS FiniteSets

CONSTANTS
  Users,        \* e-mail addresses
  Orgs,         \* organization ids that may be allocated
  Workspaces,   \* workspace ids that may be allocated
  OrgOf,        \* Workspace.organization_id
  Tokens,       \* AuthSession rows that may be live at a time
  Requests,     \* requests that may be in flight at a time
  Updates,      \* AdminMemberUpdate bodies clients send
  Routes,       \* routes clients call
  NoOne

ORG_ADMIN == "organization_admin"
WORKSPACE_ADMIN == "workspace_admin"
OrgRoles == {"member", ORG_ADMIN}
WsRoles == {"member", WORKSPACE_ADMIN}

AllRoutes == {"signup", "organization_signup", "organizations", "org_members",
              "workspaces", "ws_members", "put_member"}

\* AdminMemberUpdate: "keep" and "omit" stand for an absent field or item.
UpdateBody == [role : OrgRoles \cup {"keep"},
               active : {"keep", "activate", "deactivate"},
               replaces : BOOLEAN,
               assign : [Workspaces -> WsRoles \cup {"omit"}]]

ASSUME MembershipAssumption ==
  /\ OrgOf \in [Workspaces -> Orgs]
  /\ Updates \subseteq UpdateBody
  /\ Routes \subseteq AllRoutes
  /\ NoOne \notin Users /\ NoOne \notin Requests /\ NoOne \notin Orgs

VARIABLES
  accounts,   \* User rows
  orgMem,     \* OrganizationMembership rows, Absent where there is none
  wsMem,      \* WorkspaceMembership rows, Absent where there is none
  session,    \* the owner of each live AuthSession, NoOne for a dead one
  orgLock,    \* the request holding the organization row FOR UPDATE
  txn,        \* the requests in flight
  answer      \* the last HTTP answer of each request slot

vars == <<accounts, orgMem, wsMem, session, orgLock, txn, answer>>

-----------------------------------------------------------------------------
Absent == [role |-> "none", active |-> FALSE]
OrgRow == [role : OrgRoles \cup {"none"}, active : BOOLEAN]
WsRow == [role : WsRoles \cup {"none"}, active : BOOLEAN]

NoWsRows == [w \in Workspaces |-> Absent]
NoUpdate == [role |-> "keep", active |-> "keep", replaces |-> FALSE,
             assign |-> [w \in Workspaces |-> "omit"]]

\* A request's session: its authority, the rows it loaded (seen, wsSeen), the
\* values it will flush (row, wsRow) and the AuthSession rows it will revoke.
Txn == [pc : {"idle", "scoped", "ready", "reply"},
        op : Routes \cup {"none"},
        actor : Users \cup {NoOne}, org : Orgs \cup {NoOne}, target : Users \cup {NoOne},
        upd : UpdateBody,
        admin : BOOLEAN, managed : SUBSET Workspaces, selected : SUBSET Workspaces,
        seen : OrgRow, row : OrgRow,
        wsSeen : [Workspaces -> WsRow], wsRow : [Workspaces -> WsRow],
        revoke : SUBSET Tokens]

Idle == [pc |-> "idle", op |-> "none", actor |-> NoOne, org |-> NoOne, target |-> NoOne,
         upd |-> NoUpdate, admin |-> FALSE, managed |-> {}, selected |-> {},
         seen |-> Absent, row |-> Absent, wsSeen |-> NoWsRows, wsRow |-> NoWsRows,
         revoke |-> {}]

TypeOK ==
  /\ accounts \subseteq Users
  /\ orgMem \in [Orgs -> [Users -> OrgRow]]
  /\ wsMem \in [Workspaces -> [Users -> WsRow]]
  /\ session \in [Tokens -> Users \cup {NoOne}]
  /\ orgLock \in [Orgs -> Requests \cup {NoOne}]
  /\ txn \in [Requests -> Txn]
  /\ answer \in [Requests -> {"none", "ok", "error"}]

-----------------------------------------------------------------------------
(* Queries.  Rows are never deleted: deactivation clears is_active.        *)

Exists(row) == row.role # "none"
IsAdmin(row) == row = [role |-> ORG_ADMIN, active |-> TRUE]

OrgCreated(o) == \E u \in Users : Exists(orgMem[o][u])
WsCreated(w) == \E u \in Users : Exists(wsMem[w][u])

\* Mutation: inactive administrators are counted.
OtherAdminRow(o, u) == \E v \in Users \ {u} : orgMem[o][v].role = ORG_ADMIN

OtherActiveAdmin(o, u) == \E v \in Users \ {u} : IsAdmin(orgMem[o][v])
ActiveElsewhere(o, u) == \E p \in Orgs \ {o} : orgMem[p][u].active

Authenticated(u) == \E s \in Tokens : session[s] = u
TokensOf(u) == {s \in Tokens : session[s] = u}
FreeToken(s) == session[s] = NoOne /\ \A r \in Requests : s \notin txn[r].revoke

\* AdminScope.managed_workspace_ids of user u in organization o.
Managed(o, u) ==
  {w \in Workspaces : OrgOf[w] = o /\ wsMem[w][u] = [role |-> WORKSPACE_ADMIN, active |-> TRUE]}

\* get_admin_scope succeeds for user u with organization o.
HasAdminScope(o, u) ==
  /\ orgMem[o][u].active
  /\ ~ActiveElsewhere(o, u)
  /\ orgMem[o][u].role = ORG_ADMIN \/ Managed(o, u) # {}

Requested(u) == {w \in Workspaces : u.assign[w] # "omit"}

\* The assignments of user t inside organization o, as a request loads them.
Assignments(o, t) ==
  [w \in Workspaces |-> IF OrgOf[w] = o THEN wsMem[w][t] ELSE Absent]

-----------------------------------------------------------------------------
(* session.commit(): the dirty columns of loaded rows, and new rows.       *)

Merge(current, seen, new) ==
  [role   |-> IF new.role = seen.role THEN current.role ELSE new.role,
   active |-> IF new.active = seen.active THEN current.active ELSE new.active]

Inserts(seen, new) == ~Exists(seen) /\ Exists(new)

FlushedRow(x) == Merge(orgMem[x.org][x.target], x.seen, x.row)
FlushedWsRow(x, w) == Merge(wsMem[w][x.target], x.wsSeen[w], x.wsRow[w])

\* Mutation: a database without uq_org_membership_one_active_per_user.
ViolatesRowKeys(x) ==
  \/ Inserts(x.seen, x.row) /\ Exists(orgMem[x.org][x.target])
  \/ \E w \in Workspaces : Inserts(x.wsSeen[w], x.wsRow[w]) /\ Exists(wsMem[w][x.target])

\* uq_org_membership, uq_org_membership_one_active_per_user and
\* uq_workspace_membership refuse the flush.
ViolatesUnique(x) ==
  \/ Inserts(x.seen, x.row) /\ Exists(orgMem[x.org][x.target])
  \/ FlushedRow(x).active /\ ActiveElsewhere(x.org, x.target)
  \/ \E w \in Workspaces : Inserts(x.wsSeen[w], x.wsRow[w]) /\ Exists(wsMem[w][x.target])

\* Mutation: only the legacy workspace route writes no audit row.
LegacyNeverWaits(r) == txn[r].op = "ws_members" \/ orgLock[txn[r].org] \in {NoOne, r}

\* The foreign key of the audit row waits for the organization row's lock.
LockAllows(r) == orgLock[txn[r].org] \in {NoOne, r}

Unlocked(r) == [o \in Orgs |-> IF orgLock[o] = r THEN NoOne ELSE orgLock[o]]

Commit(r) ==
  LET x == txn[r] IN
  /\ x.pc = "ready"
  /\ LockAllows(r)
  /\ ~ViolatesUnique(x)
  /\ orgMem' = [orgMem EXCEPT ![x.org][x.target] = FlushedRow(x)]
  /\ wsMem' = [w \in Workspaces |-> [wsMem[w] EXCEPT ![x.target] = FlushedWsRow(x, w)]]
  /\ session' = [s \in Tokens |-> IF s \in x.revoke THEN NoOne ELSE session[s]]
  /\ orgLock' = Unlocked(r)
  /\ IF x.op = "put_member"
     THEN /\ txn' = [txn EXCEPT ![r] =
                       [Idle EXCEPT !.pc = "reply", !.op = x.op, !.actor = x.actor,
                          !.org = x.org, !.target = x.target,
                          !.admin = x.admin, !.managed = x.managed]]
          /\ UNCHANGED answer
     ELSE /\ txn' = [txn EXCEPT ![r] = Idle]
          /\ answer' = [answer EXCEPT ![r] = "ok"]
  /\ UNCHANGED accounts

\* Mutation: a session that is not closed after an error.
LeftOpen(r) ==
  /\ txn' = [txn EXCEPT ![r] = Idle]
  /\ answer' = [answer EXCEPT ![r] = "error"]
  /\ UNCHANGED <<accounts, orgMem, wsMem, session, orgLock>>

\* The session is closed without a commit: nothing is written, locks go.
RolledBack(r) ==
  /\ txn' = [txn EXCEPT ![r] = Idle]
  /\ orgLock' = Unlocked(r)
  /\ answer' = [answer EXCEPT ![r] = "error"]
  /\ UNCHANGED <<accounts, orgMem, wsMem, session>>

IntegrityError(r) ==
  /\ txn[r].pc = "ready"
  /\ LockAllows(r)
  /\ ViolatesUnique(txn[r])
  /\ RolledBack(r)

\* A lost connection, a deadlock victim or a worker killed by its host.
DatabaseFailure(r) ==
  /\ txn[r].pc \in {"scoped", "ready"}
  /\ RolledBack(r)

-----------------------------------------------------------------------------
(* PUT /admin/members/{user_id}: put_member and update_member.             *)

\* get_admin_scope, then for a workspace administrator the router's own
\* checks: the selected workspace is managed, the body names no other, and
\* every field but the assignments is dropped from it.
ScopeUpdate(r, a, t, o, u) ==
  /\ "put_member" \in Routes
  /\ txn[r].pc = "idle"
  /\ Authenticated(a)
  /\ HasAdminScope(o, a)
  /\ LET x == [Idle EXCEPT !.pc = "scoped", !.op = "put_member", !.actor = a, !.org = o,
                 !.target = t, !.managed = Managed(o, a)] IN
     \/ /\ orgMem[o][a].role = ORG_ADMIN
        /\ txn' = [txn EXCEPT ![r] =
             [x EXCEPT !.admin = TRUE, !.upd = u, !.selected = Managed(o, a)]]
     \/ /\ orgMem[o][a].role # ORG_ADMIN
        /\ \E w \in Managed(o, a) :
             /\ u.replaces => Requested(u) \subseteq {w}
             /\ txn' = [txn EXCEPT ![r] =
                  [x EXCEPT !.selected = {w},
                     !.upd = [NoUpdate EXCEPT !.replaces = TRUE,
                        !.assign = IF u.replaces THEN u.assign ELSE NoUpdate.assign]]]
  /\ answer' = [answer EXCEPT ![r] = "none"]
  /\ UNCHANGED <<accounts, orgMem, wsMem, session, orgLock>>

\* _protect_last_admin's removes_admin.
RemovesAdmin(row, u) ==
  IsAdmin(row) /\ (u.active = "deactivate" \/ u.role \notin {"keep", ORG_ADMIN})

\* scope.is_organization_admin reads the role of the actor's membership
\* object, which is the target's own object when the actor updates himself.
AdminAs(x, row) == IF x.target = x.actor THEN row.role = ORG_ADMIN ELSE x.admin

\* Mutation: the role is assigned without looking whether one was sent.
UpdatedRowUnchecked(row, u) == [role |-> u.role, active |-> u.active # "deactivate"]

UpdatedRow(row, u) ==
  [role   |-> IF u.role = "keep" THEN row.role ELSE u.role,
   active |-> CASE u.active = "keep" -> row.active
                [] u.active = "activate" -> TRUE
                [] u.active = "deactivate" -> FALSE]

\* Mutation: every workspace of the organization, whoever asks.
ReplaceAll(x, row) ==
  IF x.upd.replaces THEN {w \in Workspaces : OrgOf[w] = x.org /\ WsCreated(w)} ELSE {}

\* replace_ids: evaluated after the role was assigned.
ReplaceIds(x, row) ==
  IF ~x.upd.replaces THEN {}
  ELSE IF AdminAs(x, row) THEN {w \in Workspaces : OrgOf[w] = x.org /\ WsCreated(w)}
  ELSE x.selected

\* The assignment of workspace w: replaced when listed in replace_ids, then
\* cleared by a deactivation if it existed before the request.
UpdatedWsRow(x, row, seen, w) ==
  LET wanted == x.upd.assign[w]
      replaced == w \in ReplaceIds(x, row)
      assigned == IF ~replaced THEN seen
                  ELSE IF wanted # "omit" THEN [role |-> wanted, active |-> TRUE]
                  ELSE [seen EXCEPT !.active = FALSE]
  IN IF x.upd.active = "deactivate" /\ Exists(seen)
     THEN [assigned EXCEPT !.active = FALSE]
     ELSE assigned

\* The validations of update_member once the target's row is loaded.
UpdateAllowed(x, row) ==
  /\ Exists(orgMem[x.org][x.target])
  /\ x.admin \/ row.active
  /\ x.admin /\ RemovesAdmin(row, x.upd) => OtherActiveAdmin(x.org, x.target)
  /\ x.upd.replaces =>
       \A w \in Requested(x.upd) :
          OrgOf[w] = x.org /\ WsCreated(w) /\ (AdminAs(x, row) \/ w \in x.selected)
  /\ x.upd.active = "activate" /\ ~row.active => ~ActiveElsewhere(x.org, x.target)

Prepared(x, row) ==
  LET new == UpdatedRow(row, x.upd)
      loaded == Assignments(x.org, x.target)
  IN [x EXCEPT !.pc = "ready", !.upd = NoUpdate, !.selected = {},
        !.seen = row, !.row = new, !.wsSeen = loaded,
        !.wsRow = [w \in Workspaces |-> UpdatedWsRow(x, new, loaded[w], w)],
        !.revoke = IF x.upd.active = "deactivate" THEN TokensOf(x.target) ELSE {}]

\* Mutation: the organization row is read without FOR UPDATE.
CheckWithoutLock(r) ==
  LET x == txn[r]
      row == orgMem[x.org][x.target] IN
  /\ x.pc = "scoped" /\ x.admin
  /\ IF UpdateAllowed(x, row)
     THEN /\ txn' = [txn EXCEPT ![r] = Prepared(x, row)]
          /\ UNCHANGED <<accounts, orgMem, wsMem, session, orgLock, answer>>
     ELSE RolledBack(r)

\* An organization administrator locks the organization row first, then
\* refreshes the membership and checks it.
LockAndCheck(r) ==
  LET x == txn[r]
      row == orgMem[x.org][x.target] IN
  /\ x.pc = "scoped" /\ x.admin
  /\ orgLock[x.org] = NoOne
  /\ IF UpdateAllowed(x, row)
     THEN /\ orgLock' = [orgLock EXCEPT ![x.org] = r]
          /\ txn' = [txn EXCEPT ![r] = Prepared(x, row)]
          /\ UNCHANGED <<accounts, orgMem, wsMem, session, answer>>
     ELSE RolledBack(r)

\* Without a refresh a session keeps the object it has: a workspace administrator
\* who updates himself still has the membership that authorized him.
LoadedMembership(x) ==
  IF x.target = x.actor THEN [role |-> "member", active |-> TRUE]
  ELSE orgMem[x.org][x.target]

\* A workspace administrator's update takes no lock and refreshes nothing.
CheckAssignments(r) ==
  LET x == txn[r]
      row == LoadedMembership(x) IN
  /\ x.pc = "scoped" /\ ~x.admin
  /\ IF UpdateAllowed(x, row)
     THEN /\ txn' = [txn EXCEPT ![r] = Prepared(x, row)]
          /\ UNCHANGED <<accounts, orgMem, wsMem, session, orgLock, answer>>
     ELSE RolledBack(r)

\* After the commit the router looks the member up again with list_members
\* (first page of 100) and answers "not found" when he is not listed.
Respond(r) ==
  LET x == txn[r]
      adminNow == AdminAs(x, orgMem[x.org][x.target])
      listed == adminNow \/ \E w \in x.managed : wsMem[w][x.target].active IN
  /\ x.pc = "reply"
  /\ txn' = [txn EXCEPT ![r] = Idle]
  /\ answer' = [answer EXCEPT ![r] = IF listed THEN "ok" ELSE "error"]
  /\ UNCHANGED <<accounts, orgMem, wsMem, session, orgLock>>

-----------------------------------------------------------------------------
(* The other writers of memberships.  Each reads and checks, then commits. *)

Prepare(r, op, a, o, t, seen, row, wsSeen, wsRow) ==
  /\ op \in Routes
  /\ txn[r].pc = "idle"
  /\ Authenticated(a)
  /\ txn' = [txn EXCEPT ![r] =
       [Idle EXCEPT !.pc = "ready", !.op = op, !.actor = a, !.org = o, !.target = t,
          !.seen = seen, !.row = row, !.wsSeen = wsSeen, !.wsRow = wsRow]]
  /\ answer' = [answer EXCEPT ![r] = "none"]
  /\ UNCHANGED <<accounts, orgMem, wsMem, session, orgLock>>

\* POST /auth/organizations/{id}/members (legacy API).
AddOrganizationMember(r, a, o, t, role) ==
  /\ IsAdmin(orgMem[o][a])
  /\ t \in accounts
  /\ ~ActiveElsewhere(o, t)
  /\ Prepare(r, "org_members", a, o, t, orgMem[o][t], [role |-> role, active |-> TRUE],
             NoWsRows, NoWsRows)

\* POST /auth/workspaces/{id}/members (legacy API).
AddWorkspaceMember(r, a, w, t, role) ==
  LET o == OrgOf[w] IN
  /\ WsCreated(w)
  /\ wsMem[w][a] = [role |-> WORKSPACE_ADMIN, active |-> TRUE] \/ IsAdmin(orgMem[o][a])
  /\ t \in accounts
  /\ orgMem[o][t].active
  /\ Prepare(r, "ws_members", a, o, t, orgMem[o][t], orgMem[o][t],
             [NoWsRows EXCEPT ![w] = wsMem[w][t]],
             [NoWsRows EXCEPT ![w] = [role |-> role, active |-> TRUE]])

\* POST /admin/workspaces and POST /auth/workspaces: a new id for each request.
CreateWorkspace(r, a, w) ==
  LET o == OrgOf[w] IN
  /\ IsAdmin(orgMem[o][a])
  /\ ~WsCreated(w)
  /\ \A q \in Requests : ~Exists(txn[q].wsRow[w])
  /\ Prepare(r, "workspaces", a, o, a, orgMem[o][a], orgMem[o][a],
             NoWsRows, [NoWsRows EXCEPT ![w] = [role |-> WORKSPACE_ADMIN, active |-> TRUE]])

\* POST /auth/organizations: refused to a user with any membership row.
CreateOrganization(r, a, o) ==
  /\ \A p \in Orgs : ~Exists(orgMem[p][a])
  /\ ~OrgCreated(o)
  /\ \A q \in Requests : txn[q].org # o
  /\ Prepare(r, "organizations", a, o, a, Absent, [role |-> ORG_ADMIN, active |-> TRUE],
             NoWsRows, NoWsRows)

-----------------------------------------------------------------------------
(* Accounts and sessions.  These transactions read nothing that a unique   *)
(* constraint does not check again, so each is a single step.              *)

Signup(u) ==
  /\ "signup" \in Routes
  /\ u \notin accounts
  /\ accounts' = accounts \cup {u}
  /\ UNCHANGED <<orgMem, wsMem, session, orgLock, txn, answer>>

SignupOrganization(u, o, s) ==
  /\ "organization_signup" \in Routes
  /\ u \notin accounts
  /\ ~OrgCreated(o)
  /\ \A q \in Requests : txn[q].org # o
  /\ FreeToken(s)
  /\ accounts' = accounts \cup {u}
  /\ orgMem' = [orgMem EXCEPT ![o][u] = [role |-> ORG_ADMIN, active |-> TRUE]]
  /\ session' = [session EXCEPT ![s] = u]
  /\ UNCHANGED <<wsMem, orgLock, txn, answer>>

\* login looks at the password only, not at memberships.
Login(u, s) ==
  /\ u \in accounts
  /\ FreeToken(s)
  /\ session' = [session EXCEPT ![s] = u]
  /\ UNCHANGED <<accounts, orgMem, wsMem, orgLock, txn, answer>>

\* revoke_session_token at logout, or expires_at passed.
EndSession(s) ==
  /\ session[s] # NoOne
  /\ session' = [session EXCEPT ![s] = NoOne]
  /\ UNCHANGED <<accounts, orgMem, wsMem, orgLock, txn, answer>>

-----------------------------------------------------------------------------
\* At most one active organization membership per user.
OneActiveOrganization ==
  \A u \in Users, o, p \in Orgs : orgMem[o][u].active /\ orgMem[p][u].active => o = p

\* An organization that has members has an active administrator.
AdminRetained ==
  \A o \in Orgs : OrgCreated(o) => \E u \in Users : IsAdmin(orgMem[o][u])

\* The rows that earlier runs of the server can have left in the database.
ConsistentRows ==
  /\ \A o \in Orgs, u \in Users :
       /\ Exists(orgMem[o][u]) => u \in accounts
       /\ orgMem[o][u].active => Exists(orgMem[o][u])
  /\ \A w \in Workspaces, u \in Users :
       /\ Exists(wsMem[w][u]) => Exists(orgMem[OrgOf[w]][u])
       /\ wsMem[w][u].active => Exists(wsMem[w][u])

\* A server (re)starts on such a database; every session has expired.
Init ==
  /\ accounts \in SUBSET Users
  /\ orgMem \in [Orgs -> [Users -> OrgRow]]
  /\ OneActiveOrganization
  /\ AdminRetained
  /\ wsMem \in [Workspaces -> [Users -> WsRow]]
  /\ ConsistentRows
  /\ session = [s \in Tokens |-> NoOne]
  /\ orgLock = [o \in Orgs |-> NoOne]
  /\ txn = [r \in Requests |-> Idle]
  /\ answer = [r \in Requests |-> "none"]

Handle(r) == Commit(r) \/ IntegrityError(r) \/ LockAndCheck(r) \/ CheckAssignments(r) \/ Respond(r)

Receive(r) ==
  \E a \in Users :
    \/ \E t \in Users, o \in Orgs, u \in Updates : ScopeUpdate(r, a, t, o, u)
    \/ \E t \in Users, o \in Orgs, role \in OrgRoles : AddOrganizationMember(r, a, o, t, role)
    \/ \E t \in Users, w \in Workspaces, role \in WsRoles : AddWorkspaceMember(r, a, w, t, role)
    \/ \E w \in Workspaces : CreateWorkspace(r, a, w)
    \/ \E o \in Orgs : CreateOrganization(r, a, o)

Accounts ==
  \E u \in Users :
    \/ Signup(u)
    \/ \E s \in Tokens : Login(u, s) \/ \E o \in Orgs : SignupOrganization(u, o, s)

Next ==
  \/ \E r \in Requests : Handle(r) \/ DatabaseFailure(r) \/ Receive(r)
  \/ Accounts
  \/ \E s \in Tokens : EndSession(s)

Spec == Init /\ [][Next]_vars

\* A request that was received is run to its end by the server's thread pool;
\* PostgreSQL grants a row lock to its waiters in turn.
FairSpec == Spec /\ \A r \in Requests : SF_vars(Handle(r))
-----------------------------------------------------------------------------
(* Properties.  OneActiveOrganization and AdminRetained are stated above:  *)
(* the first is the rule of docs/security.md that an account has one       *)
(* active organization membership; the second that the final active        *)
(* organization administrator cannot be demoted or deactivated, which      *)
(* update_member protects with the organization row's lock.                *)

\* While update_member holds the organization row, what it loaded is what the
\* database holds: the check of the last administrator cannot go stale, and
\* writing only dirty columns writes the whole intended row.
LockHolderCurrent ==
  \A r \in Requests :
    LET x == txn[r] IN
    x.pc = "ready" /\ x.op = "put_member" /\ x.admin =>
      /\ orgLock[x.org] = r
      /\ x.seen = orgMem[x.org][x.target]
      /\ x.wsSeen = Assignments(x.org, x.target)
      /\ IsAdmin(x.seen) /\ ~IsAdmin(x.row) => OtherActiveAdmin(x.org, x.target)

\* Workspace administrators change assignments only, and only inside the
\* workspaces they administered when the request was authorized.
WorkspaceAdminConfined ==
  [][\A r \in Requests :
       txn[r].pc = "ready" /\ txn'[r].pc = "reply" /\ ~txn[r].admin =>
         /\ UNCHANGED <<orgMem, session>>
         /\ \A w \in Workspaces : wsMem'[w] # wsMem[w] => w \in txn[r].managed]_vars

\* A deactivation leaves none of the member's existing assignments in that
\* organization active, whatever other requests were changing of them meanwhile;
\* one that the same body adds is not an existing one.
DeactivationComplete ==
  [][\A o \in Orgs, u \in Users :
       orgMem[o][u].active /\ ~orgMem'[o][u].active =>
         \A w \in Workspaces :
           OrgOf[w] = o /\ Exists(wsMem[w][u]) => ~wsMem'[w][u].active]_vars

\* docs/security.md: "Deactivating a member revokes that user's active sessions."
DeactivationEndsSessions ==
  [][\A o \in Orgs, u \in Users :
       orgMem[o][u].active /\ ~orgMem'[o][u].active =>
         \A s \in Tokens : session'[s] # u]_vars

\* An update that was committed is not answered with an error, as
\* test_member_update_is_atomic_... takes an error for an unchanged member.
CommittedUpdateAnswered ==
  [][\A r \in Requests : txn[r].pc = "reply" => answer'[r] # "error"]_vars

\* The requests keep the promise of AdminRegistry.
Registry == INSTANCE AdminRegistry WITH
  members <- orgMem, Roles <- OrgRoles, None <- Absent,
  Admin <- [role |-> ORG_ADMIN, active |-> TRUE]
RegistrySpec == Registry!Spec

\* Every request that was received is answered: no one waits for ever on the
\* organization row, or on a request that failed.
RequestsAnswered == \A r \in Requests : txn[r].pc # "idle" ~> txn[r].pc = "idle"

-----------------------------------------------------------------------------
(* The inductive invariant behind OneActiveOrganization, LockHolderCurrent *)
(* and AdminRetained.                                                      *)

\* Memberships belong to accounts; an absent row is not active.
RowsOwned ==
  /\ \A o \in Orgs, u \in Users :
       /\ Exists(orgMem[o][u]) => u \in accounts
       /\ orgMem[o][u].active => Exists(orgMem[o][u])
  /\ \A s \in Tokens : session[s] # NoOne => session[s] \in accounts

\* Rows are loaded and written for one user of one organization, and only
\* update_member by an organization administrator, the legacy member route and
\* the creation of an organization change an organization row.
ReadyShape(x) ==
  /\ x.target \in accounts
  /\ Exists(x.row)
  /\ Exists(x.seen) => Exists(orgMem[x.org][x.target])
  /\ \A w \in Workspaces : OrgOf[w] # x.org => x.wsRow[w] = x.wsSeen[w]
  /\ \/ x.row = x.seen
     \/ x.op = "organizations" /\ x.seen = Absent /\ IsAdmin(x.row)
     \/ x.op = "org_members" /\ x.row.active
     \/ x.op = "put_member" /\ x.admin /\ Exists(x.seen)

ScopedShape(x) ==
  /\ x.op = "put_member"
  /\ \A w \in x.selected : OrgOf[w] = x.org
  /\ ~x.admin => x.upd.role = "keep" /\ x.upd.active = "keep"

InShape(r) ==
  /\ txn[r].pc # "idle" => txn[r].org \in Orgs /\ txn[r].target \in Users
  /\ txn[r].pc = "scoped" => ScopedShape(txn[r])
  /\ txn[r].pc = "ready" => ReadyShape(txn[r])

RequestShape == \A r \in Requests : InShape(r)

\* update_member by a workspace administrator writes assignments of workspaces he
\* manages and nothing else; a deactivation clears every assignment it loaded.
Planned(x) ==
  /\ x.pc = "scoped" /\ ~x.admin => x.selected \subseteq x.managed
  /\ x.pc = "ready" /\ x.op = "put_member" =>
       /\ x.seen.active /\ ~x.row.active =>
            \A w \in Workspaces : Exists(x.wsSeen[w]) => ~x.wsRow[w].active
       /\ ~x.admin =>
            /\ x.row = x.seen /\ x.revoke = {}
            /\ \A w \in Workspaces \ x.managed : x.wsRow[w] = x.wsSeen[w]

UpdatesPlanned == \A r \in Requests : Planned(txn[r])

\* The legacy member route demotes without looking for another administrator.
IInv ==
  /\ TypeOK
  /\ OneActiveOrganization
  /\ RowsOwned
  /\ RequestShape
  /\ LockHolderCurrent
  /\ "org_members" \notin Routes => AdminRetained
=============================================================================
