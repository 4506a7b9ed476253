-------------------------- MODULE MembershipProofs --------------------------
(***************************************************************************)
(* Proofs about Membership, and then about Invitations, which extends it,  *)
(* for every set of users, organizations, workspaces and requests.         *)
(***************************************************************************)
EXTENDS Invitations, TLAPS

(* What Merge, the write of the dirty columns, does.                       *)

\* A flushed organization row is an organization row.
LEMMA OrgMergeType ==
  ASSUME NEW cur \in OrgRow, NEW seen \in OrgRow, NEW new \in OrgRow
  PROVE  Merge(cur, seen, new) \in OrgRow
BY DEF Merge, OrgRow

\* A flushed workspace row is a workspace row.
LEMMA WsMergeType ==
  ASSUME NEW cur \in WsRow, NEW seen \in WsRow, NEW new \in WsRow
  PROVE  Merge(cur, seen, new) \in WsRow
BY DEF Merge, WsRow

\* A value that was not changed is not written.
LEMMA OrgMergeUnchanged ==
  ASSUME NEW cur \in OrgRow, NEW seen \in OrgRow
  PROVE  Merge(cur, seen, seen) = cur
BY DEF Merge, OrgRow

\* The same for a workspace row.
LEMMA WsMergeUnchanged ==
  ASSUME NEW cur \in WsRow, NEW seen \in WsRow
  PROVE  Merge(cur, seen, seen) = cur
BY DEF Merge, WsRow

\* A row that is as it was loaded is written as intended.
LEMMA OrgMergeCurrent ==
  ASSUME NEW cur \in OrgRow, NEW new \in OrgRow
  PROVE  Merge(cur, cur, new) = new
BY DEF Merge, OrgRow

-----------------------------------------------------------------------------
(* Type correctness.                                                       *)

\* A request slot that is free is a transaction with nothing in it.
LEMMA IdleType == Idle \in Txn
BY MembershipAssumption DEF Idle, Txn, NoUpdate, UpdateBody, NoWsRows, Absent, OrgRow, WsRow, WsRoles, OrgRoles

\* Closing a session without a commit keeps the types.
LEMMA RolledBackType ==
  ASSUME TypeOK, NEW r \in Requests, RolledBack(r)
  PROVE  TypeOK'
BY IdleType DEF TypeOK, RolledBack, Unlocked

\* session.commit() keeps the types: it writes merged rows and clears tokens.
LEMMA CommitType ==
  ASSUME TypeOK, NEW r \in Requests, Commit(r)
  PROVE  TypeOK'
<1> DEFINE x == txn[r]
<1>1. x \in Txn /\ x.pc = "ready"
  BY DEF TypeOK, Commit
<1>2. orgMem' \in [Orgs -> [Users -> OrgRow]]
  <2>1. CASE x.org \in Orgs /\ x.target \in Users
    <3>1. FlushedRow(x) \in OrgRow
      <4>1. orgMem[x.org][x.target] \in OrgRow /\ x.seen \in OrgRow /\ x.row \in OrgRow
        BY <1>1, <2>1 DEF TypeOK, Txn
      <4> QED BY <4>1, OrgMergeType DEF FlushedRow
    <3> QED BY <3>1 DEF TypeOK, Commit
  <2>2. CASE ~(x.org \in Orgs /\ x.target \in Users)
    BY <2>2 DEF TypeOK, Commit
  <2> QED BY <2>1, <2>2
<1>3. wsMem' \in [Workspaces -> [Users -> WsRow]]
  <2>1. ASSUME NEW w \in Workspaces
        PROVE  [wsMem[w] EXCEPT ![x.target] = FlushedWsRow(x, w)] \in [Users -> WsRow]
    <3>1. CASE x.target \in Users
      <4>1. FlushedWsRow(x, w) \in WsRow
        <5>1. wsMem[w][x.target] \in WsRow /\ x.wsSeen[w] \in WsRow /\ x.wsRow[w] \in WsRow
          BY <1>1, <3>1 DEF TypeOK, Txn
        <5> QED BY <5>1, WsMergeType DEF FlushedWsRow
      <4> QED BY <4>1 DEF TypeOK
    <3>2. CASE x.target \notin Users
      BY <3>2 DEF TypeOK
    <3> QED BY <3>1, <3>2
  <2> QED BY <2>1 DEF Commit
<1>4. session' \in [Tokens -> Users \cup {NoOne}]
  BY DEF TypeOK, Commit
<1>5. orgLock' \in [Orgs -> Requests \cup {NoOne}]
  BY DEF TypeOK, Commit, Unlocked
<1>6. txn' \in [Requests -> Txn] /\ answer' \in [Requests -> {"none", "ok", "error"}]
  <2>1. [Idle EXCEPT !.pc = "reply", !.op = x.op, !.actor = x.actor, !.org = x.org,
           !.target = x.target, !.admin = x.admin, !.managed = x.managed] \in Txn
    BY <1>1, IdleType DEF Txn
  <2> QED BY <2>1, IdleType DEF TypeOK, Commit
<1> QED BY <1>2, <1>3, <1>4, <1>5, <1>6 DEF TypeOK, Commit

\* update_member assigns only roles and flags that the row can hold.
LEMMA UpdatedRowType ==
  ASSUME NEW row \in OrgRow, NEW u \in UpdateBody
  PROVE  UpdatedRow(row, u) \in OrgRow
BY DEF UpdatedRow, OrgRow, UpdateBody

\* What update_member leaves in its session is a transaction.
LEMMA PreparedType ==
  ASSUME TypeOK, NEW x \in Txn, x.target \in Users, NEW row \in OrgRow
  PROVE  Prepared(x, row) \in Txn
<1> DEFINE new == UpdatedRow(row, x.upd)
           loaded == Assignments(x.org, x.target)
           written == [w \in Workspaces |-> UpdatedWsRow(x, new, loaded[w], w)]
           gone == IF x.upd.active = "deactivate" THEN TokensOf(x.target) ELSE {}
<1>1. new \in OrgRow
  BY UpdatedRowType DEF Txn
<1>2. loaded \in [Workspaces -> WsRow]
  BY DEF TypeOK, Assignments, Absent, WsRow
<1>3. written \in [Workspaces -> WsRow]
  <2>1. ASSUME NEW w \in Workspaces
        PROVE  UpdatedWsRow(x, new, loaded[w], w) \in WsRow
    <3>1. loaded[w] \in WsRow /\ x.upd.assign[w] \in WsRoles \cup {"omit"}
      BY <1>2 DEF Txn, UpdateBody
    <3> QED BY <3>1 DEF UpdatedWsRow, WsRow
  <2> QED BY <2>1
<1>4. gone \subseteq Tokens
  BY DEF TokensOf
<1>5. NoUpdate \in UpdateBody
  BY DEF NoUpdate, UpdateBody
<1>6. Prepared(x, row) =
        [x EXCEPT !.pc = "ready", !.upd = NoUpdate, !.selected = {}, !.seen = row,
           !.row = new, !.wsSeen = loaded, !.wsRow = written, !.revoke = gone]
  BY DEF Prepared
<1> DEFINE y == [x EXCEPT !.pc = "ready", !.upd = NoUpdate, !.selected = {}, !.revoke = gone]
<1>7. Prepared(x, row) =
        [y EXCEPT !.seen = row, !.row = new, !.wsSeen = loaded, !.wsRow = written]
  BY <1>6 DEF Txn
<1> HIDE DEF new, loaded, written, gone
<1>8. y \in Txn
  BY <1>4, <1>5 DEF Txn
<1> HIDE DEF y
<1>9. [y EXCEPT !.seen = row, !.row = new, !.wsSeen = loaded, !.wsRow = written] \in Txn
  BY <1>1, <1>2, <1>3, <1>8 DEF Txn
<1> QED BY <1>7, <1>9

\* The membership a session has kept is a row of a member.
LEMMA LoadedMembershipType ==
  ASSUME TypeOK, NEW x, x.org \in Orgs, x.target \in Users
  PROVE  /\ LoadedMembership(x) \in OrgRow
         /\ Exists(orgMem[x.org][x.target]) => Exists(LoadedMembership(x))
BY DEF TypeOK, LoadedMembership, OrgRow, OrgRoles, ORG_ADMIN, Exists

\* What the other handlers leave in their session is a transaction.
LEMMA PrepareType ==
  ASSUME TypeOK, NEW r \in Requests, NEW op, NEW a \in Users, NEW o \in Orgs, NEW t \in Users,
         NEW seen \in OrgRow, NEW row \in OrgRow,
         NEW wsSeen \in [Workspaces -> WsRow], NEW wsRow \in [Workspaces -> WsRow],
         Prepare(r, op, a, o, t, seen, row, wsSeen, wsRow)
  PROVE  TypeOK'
<1>1. [Idle EXCEPT !.pc = "ready", !.op = op, !.actor = a, !.org = o, !.target = t,
         !.seen = seen, !.row = row, !.wsSeen = wsSeen, !.wsRow = wsRow] \in Txn
  BY IdleType DEF Txn, Prepare
<1> QED BY <1>1 DEF TypeOK, Prepare

\* What put_member passes to update_member is a transaction.
LEMMA ScopeUpdateType ==
  ASSUME TypeOK, NEW r \in Requests, NEW a \in Users, NEW t \in Users, NEW o \in Orgs,
         NEW u \in Updates, ScopeUpdate(r, a, t, o, u)
  PROVE  TypeOK'
<1> DEFINE x == [Idle EXCEPT !.pc = "scoped", !.op = "put_member", !.actor = a, !.org = o,
                   !.target = t, !.managed = Managed(o, a)]
           stripped == [NoUpdate EXCEPT !.replaces = TRUE,
                          !.assign = IF u.replaces THEN u.assign ELSE NoUpdate.assign]
<1>1. Managed(o, a) \subseteq Workspaces /\ u \in UpdateBody /\ "put_member" \in Routes
  BY MembershipAssumption DEF Managed, ScopeUpdate
<1>2. x \in Txn
  BY <1>1, IdleType DEF Txn
<1>3. stripped \in UpdateBody
  BY <1>1 DEF NoUpdate, UpdateBody
<1> HIDE DEF x, stripped
<1>4. [x EXCEPT !.admin = TRUE, !.upd = u, !.selected = Managed(o, a)] \in Txn
  BY <1>1, <1>2 DEF Txn
<1>5. ASSUME NEW w \in Managed(o, a)
      PROVE  [x EXCEPT !.selected = {w}, !.upd = stripped] \in Txn
  BY <1>1, <1>2, <1>3 DEF Txn
<1>6. txn' \in [Requests -> Txn]
  <2>1. CASE txn' = [txn EXCEPT ![r] =
                       [x EXCEPT !.admin = TRUE, !.upd = u, !.selected = Managed(o, a)]]
    BY <2>1, <1>4 DEF TypeOK
  <2>2. CASE \E w \in Managed(o, a) :
               txn' = [txn EXCEPT ![r] = [x EXCEPT !.selected = {w}, !.upd = stripped]]
    BY <2>2, <1>5 DEF TypeOK
  <2> QED BY <2>1, <2>2 DEF ScopeUpdate, x, stripped
<1> QED BY <1>6 DEF TypeOK, ScopeUpdate

-----------------------------------------------------------------------------
(* The steps of the system, grouped by what they do to a request.          *)

Refused(r) == txn[r].pc # "idle" /\ RolledBack(r)

\* LockAndCheck that is allowed: the lock is taken and the rows are loaded.
Granted(r) ==
  LET x == txn[r] IN
  /\ x.pc = "scoped" /\ x.admin
  /\ orgLock[x.org] = NoOne
  /\ UpdateAllowed(x, orgMem[x.org][x.target])
  /\ orgLock' = [orgLock EXCEPT ![x.org] = r]
  /\ txn' = [txn EXCEPT ![r] = Prepared(x, orgMem[x.org][x.target])]
  /\ UNCHANGED <<accounts, orgMem, wsMem, session, answer>>

\* CheckAssignments that is allowed.
Loaded(r) ==
  LET x == txn[r] IN
  /\ x.pc = "scoped" /\ ~x.admin
  /\ UpdateAllowed(x, LoadedMembership(x))
  /\ txn' = [txn EXCEPT ![r] = Prepared(x, LoadedMembership(x))]
  /\ UNCHANGED <<accounts, orgMem, wsMem, session, orgLock, answer>>

\* A handler other than update_member that has loaded its rows.
NewTxn(op, a, o, t, seen, row, wsSeen, wsRow) ==
  [Idle EXCEPT !.pc = "ready", !.op = op, !.actor = a, !.org = o, !.target = t,
     !.seen = seen, !.row = row, !.wsSeen = wsSeen, !.wsRow = wsRow]

Received(r) ==
  \E op \in Routes \ {"put_member"}, a \in Users, o \in Orgs, t \in Users,
     seen \in OrgRow, row \in OrgRow,
     wsSeen \in [Workspaces -> WsRow], wsRow \in [Workspaces -> WsRow] :
    /\ Prepare(r, op, a, o, t, seen, row, wsSeen, wsRow)
    /\ ReadyShape(NewTxn(op, a, o, t, seen, row, wsSeen, wsRow))

Scoped(r) ==
  \E a \in Users, t \in Users, o \in Orgs, u \in Updates : ScopeUpdate(r, a, t, o, u)

\* The fields of the transaction that Prepare starts.
LEMMA NewTxnFields ==
  ASSUME NEW op, NEW a, NEW o, NEW t, NEW seen, NEW row, NEW wsSeen, NEW wsRow
  PROVE  LET n == NewTxn(op, a, o, t, seen, row, wsSeen, wsRow) IN
         /\ n.pc = "ready" /\ n.op = op /\ n.org = o /\ n.target = t
         /\ n.seen = seen /\ n.row = row /\ n.wsSeen = wsSeen /\ n.wsRow = wsRow
BY DEF NewTxn, Idle

\* A request that arrives is an update to check or one ready to commit.
LEMMA ReceiveCases ==
  ASSUME IInv, NEW r \in Requests, Receive(r)
  PROVE  Scoped(r) \/ Received(r)
<1> USE DEF IInv
<1>1. ASSUME NEW a \in Users, NEW t \in Users, NEW o \in Orgs, NEW role \in OrgRoles,
             AddOrganizationMember(r, a, o, t, role)
      PROVE  Received(r)
  <2> DEFINE row == [role |-> role, active |-> TRUE]
  <2>1. Prepare(r, "org_members", a, o, t, orgMem[o][t], row, NoWsRows, NoWsRows)
    BY <1>1 DEF AddOrganizationMember
  <2>2. /\ orgMem[o][t] \in OrgRow /\ row \in OrgRow
        /\ NoWsRows \in [Workspaces -> WsRow] /\ "org_members" \in Routes \ {"put_member"}
    BY <2>1 DEF TypeOK, OrgRow, WsRow, NoWsRows, Absent, Prepare
  <2>3. ReadyShape(NewTxn("org_members", a, o, t, orgMem[o][t], row, NoWsRows, NoWsRows))
    BY <1>1, NewTxnFields DEF AddOrganizationMember, ReadyShape, Exists, OrgRoles, ORG_ADMIN
  <2> QED BY <2>1, <2>2, <2>3 DEF Received
<1>2. ASSUME NEW a \in Users, NEW t \in Users, NEW w \in Workspaces, NEW role \in WsRoles,
             AddWorkspaceMember(r, a, w, t, role)
      PROVE  Received(r)
  <2> DEFINE o == OrgOf[w]
             wsSeen == [NoWsRows EXCEPT ![w] = wsMem[w][t]]
             wsRow == [NoWsRows EXCEPT ![w] = [role |-> role, active |-> TRUE]]
  <2>1. Prepare(r, "ws_members", a, o, t, orgMem[o][t], orgMem[o][t], wsSeen, wsRow)
    BY <1>2 DEF AddWorkspaceMember
  <2>2. o \in Orgs
    BY MembershipAssumption
  <2>3. /\ orgMem[o][t] \in OrgRow /\ "ws_members" \in Routes \ {"put_member"}
        /\ wsSeen \in [Workspaces -> WsRow] /\ wsRow \in [Workspaces -> WsRow]
    BY <2>1, <2>2 DEF TypeOK, WsRow, NoWsRows, Absent, Prepare
  <2>4. Exists(orgMem[o][t]) /\ t \in accounts
    BY <1>2, <2>2 DEF AddWorkspaceMember, RowsOwned
  <2>6. \A v \in Workspaces : OrgOf[v] # o => wsRow[v] = wsSeen[v]
    BY DEF NoWsRows
  <2> HIDE DEF o, wsSeen, wsRow
  <2>5. ReadyShape(NewTxn("ws_members", a, o, t, orgMem[o][t], orgMem[o][t], wsSeen, wsRow))
    BY <2>4, <2>6, NewTxnFields DEF ReadyShape
  <2> QED BY <2>1, <2>2, <2>3, <2>5 DEF Received
<1>3. ASSUME NEW a \in Users, NEW w \in Workspaces, CreateWorkspace(r, a, w)
      PROVE  Received(r)
  <2> DEFINE o == OrgOf[w]
             wsRow == [NoWsRows EXCEPT ![w] = [role |-> WORKSPACE_ADMIN, active |-> TRUE]]
  <2>1. Prepare(r, "workspaces", a, o, a, orgMem[o][a], orgMem[o][a], NoWsRows, wsRow)
    BY <1>3 DEF CreateWorkspace
  <2>2. o \in Orgs
    BY MembershipAssumption
  <2>3. /\ orgMem[o][a] \in OrgRow /\ "workspaces" \in Routes \ {"put_member"}
        /\ NoWsRows \in [Workspaces -> WsRow] /\ wsRow \in [Workspaces -> WsRow]
    BY <2>1, <2>2 DEF TypeOK, WsRow, WsRoles, NoWsRows, Absent, Prepare
  <2>4. Exists(orgMem[o][a]) /\ a \in accounts
    BY <1>3, <2>2 DEF CreateWorkspace, RowsOwned, IsAdmin
  <2>6. \A v \in Workspaces : OrgOf[v] # o => wsRow[v] = NoWsRows[v]
    BY DEF NoWsRows
  <2> HIDE DEF o, wsRow
  <2>5. ReadyShape(NewTxn("workspaces", a, o, a, orgMem[o][a], orgMem[o][a], NoWsRows, wsRow))
    BY <2>4, <2>6, NewTxnFields DEF ReadyShape
  <2> QED BY <2>1, <2>2, <2>3, <2>5 DEF Received
<1>4. ASSUME NEW a \in Users, NEW o \in Orgs, CreateOrganization(r, a, o)
      PROVE  Received(r)
  <2> DEFINE row == [role |-> ORG_ADMIN, active |-> TRUE]
  <2>1. Prepare(r, "organizations", a, o, a, Absent, row, NoWsRows, NoWsRows)
    BY <1>4 DEF CreateOrganization
  <2>2. /\ Absent \in OrgRow /\ row \in OrgRow /\ "organizations" \in Routes \ {"put_member"}
        /\ NoWsRows \in [Workspaces -> WsRow]
    BY <2>1 DEF Absent, OrgRow, OrgRoles, WsRow, NoWsRows, Prepare
  <2>3. a \in accounts
    BY <1>4, MembershipAssumption DEF CreateOrganization, Prepare, Authenticated, RowsOwned
  <2>4. ReadyShape(NewTxn("organizations", a, o, a, Absent, row, NoWsRows, NoWsRows))
    BY <2>3, NewTxnFields DEF ReadyShape, NoWsRows, Exists, Absent, IsAdmin, ORG_ADMIN
  <2> HIDE DEF row
  <2> QED BY <2>1, <2>2, <2>4 DEF Received
<1> QED BY <1>1, <1>2, <1>3, <1>4 DEF Receive, Scoped

\* A step is a commit, another step of a request, or one of accounts and sessions.
LEMMA NextCases ==
  ASSUME IInv, Next
  PROVE  \/ \E r \in Requests :
              Commit(r) \/ Refused(r) \/ Granted(r) \/ Loaded(r) \/ Respond(r)
                \/ Scoped(r) \/ Received(r)
         \/ \E u \in Users : Signup(u)
         \/ \E u \in Users, s \in Tokens : Login(u, s)
         \/ \E u \in Users, s \in Tokens, o \in Orgs : SignupOrganization(u, o, s)
         \/ \E s \in Tokens : EndSession(s)
<1>1. ASSUME NEW r \in Requests, IntegrityError(r) \/ DatabaseFailure(r)
      PROVE  Refused(r)
  BY <1>1 DEF IntegrityError, DatabaseFailure, Refused
<1>2. ASSUME NEW r \in Requests, LockAndCheck(r)
      PROVE  Refused(r) \/ Granted(r)
  BY <1>2 DEF LockAndCheck, Refused, Granted
<1>3. ASSUME NEW r \in Requests, CheckAssignments(r)
      PROVE  Refused(r) \/ Loaded(r)
  BY <1>3 DEF CheckAssignments, Refused, Loaded
<1> QED BY <1>1, <1>2, <1>3, ReceiveCases DEF Next, Handle, Accounts

-----------------------------------------------------------------------------
(* What a commit does to the organization rows.                            *)

\* What a commit writes, and that it respected the locks and the unique indexes.
LEMMA CommitFacts ==
  ASSUME IInv, NEW r \in Requests, Commit(r)
  PROVE  LET x == txn[r] IN
         /\ x \in Txn /\ x.org \in Orgs /\ x.target \in Users /\ ReadyShape(x)
         /\ orgMem[x.org][x.target] \in OrgRow /\ FlushedRow(x) \in OrgRow
         /\ Exists(FlushedRow(x))
         /\ x.row = x.seen => FlushedRow(x) = orgMem[x.org][x.target]
         /\ FlushedRow(x).active => ~ActiveElsewhere(x.org, x.target)
         /\ \A o \in Orgs, u \in Users :
              orgMem'[o][u] = IF o = x.org /\ u = x.target THEN FlushedRow(x) ELSE orgMem[o][u]
<1> DEFINE x == txn[r]
           cur == orgMem[x.org][x.target]
<1>1. x \in Txn /\ x.org \in Orgs /\ x.target \in Users /\ ReadyShape(x)
  BY DEF IInv, TypeOK, RequestShape, InShape, Commit
<1>2. cur \in OrgRow /\ x.seen \in OrgRow /\ x.row \in OrgRow
  BY <1>1 DEF IInv, TypeOK, Txn
<1>3. FlushedRow(x) \in OrgRow
  BY <1>2, OrgMergeType DEF FlushedRow
<1>4. Exists(FlushedRow(x))
  BY <1>1, <1>2 DEF FlushedRow, Merge, Exists, ReadyShape
<1>5. x.row = x.seen => FlushedRow(x) = cur
  BY <1>2, OrgMergeUnchanged DEF FlushedRow
<1>6. FlushedRow(x).active => ~ActiveElsewhere(x.org, x.target)
  BY DEF Commit, ViolatesUnique
<1>7. \A o \in Orgs, u \in Users :
        orgMem'[o][u] = IF o = x.org /\ u = x.target THEN FlushedRow(x) ELSE orgMem[o][u]
  BY <1>1 DEF Commit, IInv, TypeOK
<1> QED BY <1>1, <1>2, <1>3, <1>4, <1>5, <1>6, <1>7

\* Every step keeps the types.
LEMMA TypeStep ==
  ASSUME IInv, Next
  PROVE  TypeOK'
<1>0. TypeOK /\ RequestShape
  BY DEF IInv
<1>1. ASSUME NEW r \in Requests, Commit(r) PROVE TypeOK'
  BY <1>0, <1>1, CommitType
<1>2. ASSUME NEW r \in Requests, Refused(r) PROVE TypeOK'
  BY <1>0, <1>2, RolledBackType DEF Refused
<1>3. ASSUME NEW r \in Requests, Granted(r) \/ Loaded(r) PROVE TypeOK'
  <2>1. txn[r] \in Txn /\ txn[r].org \in Orgs /\ txn[r].target \in Users
    BY <1>0, <1>3 DEF TypeOK, RequestShape, InShape, Granted, Loaded
  <2>2. orgMem[txn[r].org][txn[r].target] \in OrgRow /\ LoadedMembership(txn[r]) \in OrgRow
    BY <1>0, <2>1, LoadedMembershipType DEF TypeOK
  <2>3. /\ Prepared(txn[r], orgMem[txn[r].org][txn[r].target]) \in Txn
        /\ Prepared(txn[r], LoadedMembership(txn[r])) \in Txn
    BY <1>0, <2>1, <2>2, PreparedType
  <2> QED BY <1>0, <1>3, <2>3 DEF TypeOK, Granted, Loaded
<1>4. ASSUME NEW r \in Requests, Respond(r) PROVE TypeOK'
  BY <1>0, <1>4, IdleType DEF TypeOK, Respond
<1>5. ASSUME NEW r \in Requests, Scoped(r) PROVE TypeOK'
  BY <1>0, <1>5, ScopeUpdateType DEF Scoped
<1>6. ASSUME NEW r \in Requests, Received(r) PROVE TypeOK'
  BY <1>0, <1>6, PrepareType DEF Received
<1>7. ASSUME NEW u \in Users, Signup(u) PROVE TypeOK'
  BY <1>0, <1>7 DEF TypeOK, Signup
<1>8. ASSUME NEW u \in Users, NEW s \in Tokens, Login(u, s) PROVE TypeOK'
  BY <1>0, <1>8 DEF TypeOK, Login
<1>9. ASSUME NEW u \in Users, NEW s \in Tokens, NEW o \in Orgs, SignupOrganization(u, o, s)
      PROVE TypeOK'
  BY <1>0, <1>9 DEF TypeOK, SignupOrganization, OrgRow, OrgRoles, ORG_ADMIN
<1>10. ASSUME NEW s \in Tokens, EndSession(s) PROVE TypeOK'
  BY <1>0, <1>10 DEF TypeOK, EndSession
<1> QED BY <1>1, <1>2, <1>3, <1>4, <1>5, <1>6, <1>7, <1>8, <1>9, <1>10, NextCases

\* The steps of a request before its commit write nothing.
LEMMA RequestStepsFrame ==
  ASSUME NEW r \in Requests,
         Refused(r) \/ Granted(r) \/ Loaded(r) \/ Respond(r) \/ Scoped(r) \/ Received(r)
  PROVE  UNCHANGED <<orgMem, wsMem, accounts, session>>
<1>1. CASE Refused(r)
  BY <1>1 DEF Refused, RolledBack
<1>2. CASE Granted(r)
  BY <1>2 DEF Granted
<1>3. CASE Loaded(r)
  BY <1>3 DEF Loaded
<1>4. CASE Respond(r)
  BY <1>4 DEF Respond
<1>5. CASE Scoped(r)
  BY <1>5 DEF Scoped, ScopeUpdate
<1>6. CASE Received(r)
  <2>1. PICK op \in Routes \ {"put_member"}, a \in Users, o \in Orgs, t \in Users,
             seen \in OrgRow, row \in OrgRow,
             wsSeen \in [Workspaces -> WsRow], wsRow \in [Workspaces -> WsRow] :
          Prepare(r, op, a, o, t, seen, row, wsSeen, wsRow)
    BY <1>6 DEF Received
  <2> QED BY <2>1 DEF Prepare
<1> QED BY <1>1, <1>2, <1>3, <1>4, <1>5, <1>6

\* Only commits and signups of organizations touch the organization rows.
LEMMA OtherStepsKeepRows ==
  ASSUME IInv, Next,
         \A r \in Requests : ~Commit(r),
         \A u \in Users, s \in Tokens, o \in Orgs : ~SignupOrganization(u, o, s)
  PROVE  orgMem' = orgMem /\ wsMem' = wsMem /\ accounts \subseteq accounts'
<1>1. ASSUME NEW r \in Requests,
             Refused(r) \/ Granted(r) \/ Loaded(r) \/ Respond(r) \/ Scoped(r) \/ Received(r)
      PROVE  UNCHANGED <<orgMem, wsMem, accounts>>
  BY <1>1, RequestStepsFrame
<1>2. ASSUME NEW u \in Users, Signup(u)
      PROVE  orgMem' = orgMem /\ wsMem' = wsMem /\ accounts \subseteq accounts'
  BY <1>2 DEF Signup
<1>3. ASSUME NEW u \in Users, NEW s \in Tokens, Login(u, s)
      PROVE  UNCHANGED <<orgMem, wsMem, accounts>>
  BY <1>3 DEF Login
<1>4. ASSUME NEW s \in Tokens, EndSession(s) PROVE UNCHANGED <<orgMem, wsMem, accounts>>
  BY <1>4 DEF EndSession
<1> QED BY <1>1, <1>2, <1>3, <1>4, NextCases

\* Every step keeps one active organization per user: the partial index refuses others.
LEMMA OneActiveStep ==
  ASSUME IInv, Next
  PROVE  OneActiveOrganization'
<1>1. ASSUME NEW r \in Requests, Commit(r) PROVE OneActiveOrganization'
  <2> DEFINE x == txn[r]
  <2>1. /\ FlushedRow(x).active => ~ActiveElsewhere(x.org, x.target)
        /\ \A o \in Orgs, u \in Users :
              orgMem'[o][u] = IF o = x.org /\ u = x.target THEN FlushedRow(x) ELSE orgMem[o][u]
    BY <1>1, CommitFacts
  <2> HIDE DEF x
  <2> QED BY <2>1 DEF IInv, OneActiveOrganization, ActiveElsewhere
<1>2. ASSUME NEW u \in Users, NEW s \in Tokens, NEW o \in Orgs, SignupOrganization(u, o, s)
      PROVE  OneActiveOrganization'
  <2>1. \A p \in Orgs : ~orgMem[p][u].active
    BY <1>2 DEF SignupOrganization, IInv, RowsOwned
  <2>2. \A p \in Orgs, v \in Users : p # o \/ v # u => orgMem'[p][v] = orgMem[p][v]
    BY <1>2 DEF SignupOrganization, IInv, TypeOK
  <2> QED BY <2>1, <2>2 DEF IInv, OneActiveOrganization
<1>3. CASE orgMem' = orgMem
  BY <1>3 DEF IInv, OneActiveOrganization
<1> QED BY <1>1, <1>2, <1>3, OtherStepsKeepRows

\* Every step keeps rows and sessions with accounts: accounts are never deleted.
LEMMA RowsOwnedStep ==
  ASSUME IInv, Next
  PROVE  RowsOwned'
<1> USE DEF IInv
<1>1. ASSUME NEW r \in Requests, Commit(r) PROVE RowsOwned'
  <2> DEFINE x == txn[r]
  <2>1. /\ x.target \in accounts /\ Exists(FlushedRow(x))
        /\ \A o \in Orgs, u \in Users :
              orgMem'[o][u] = IF o = x.org /\ u = x.target THEN FlushedRow(x) ELSE orgMem[o][u]
    BY <1>1, CommitFacts DEF ReadyShape
  <2>2. accounts' = accounts /\ \A s \in Tokens : session'[s] \in {session[s], NoOne}
    BY <1>1 DEF Commit, TypeOK
  <2> HIDE DEF x
  <2> QED BY <2>1, <2>2 DEF RowsOwned
<1>2. ASSUME NEW u \in Users, NEW s \in Tokens, NEW o \in Orgs, SignupOrganization(u, o, s)
      PROVE  RowsOwned'
  <2>1. /\ \A p \in Orgs, v \in Users : p # o \/ v # u => orgMem'[p][v] = orgMem[p][v]
        /\ Exists(orgMem'[o][u]) /\ accounts' = accounts \cup {u}
        /\ \A q \in Tokens : session'[q] \in {session[q], u}
    BY <1>2 DEF SignupOrganization, TypeOK, Exists, ORG_ADMIN
  <2> QED BY <2>1 DEF RowsOwned
<1>3. ASSUME orgMem' = orgMem, accounts \subseteq accounts',
             \A s \in Tokens : session'[s] \in {session[s], NoOne} \cup accounts
      PROVE  RowsOwned'
  BY <1>3 DEF RowsOwned
<1>4. ASSUME NEW r \in Requests,
             Refused(r) \/ Granted(r) \/ Loaded(r) \/ Respond(r) \/ Scoped(r) \/ Received(r)
      PROVE  session' = session
  BY <1>4, RequestStepsFrame
<1>5. ASSUME NEW u \in Users, Signup(u) PROVE session' = session
  BY <1>5 DEF Signup
<1>6. ASSUME NEW u \in Users, NEW s \in Tokens, Login(u, s)
      PROVE  \A q \in Tokens : session'[q] \in {session[q]} \cup accounts
  BY <1>6 DEF Login, TypeOK
<1>7. ASSUME NEW s \in Tokens, EndSession(s)
      PROVE  \A q \in Tokens : session'[q] \in {session[q], NoOne}
  BY <1>7 DEF EndSession, TypeOK
<1> QED BY <1>1, <1>2, <1>3, <1>4, <1>5, <1>6, <1>7, NextCases, OtherStepsKeepRows

-----------------------------------------------------------------------------
(* The shape of the requests in flight.                                    *)

\* The fields of a prepared update.
LEMMA PreparedFields ==
  ASSUME NEW x, NEW row, x \in Txn
  PROVE  LET new == UpdatedRow(row, x.upd)
             p == Prepared(x, row) IN
         /\ p.pc = "ready" /\ p.op = x.op /\ p.org = x.org /\ p.target = x.target
         /\ p.admin = x.admin /\ p.seen = row /\ p.row = new
         /\ p.wsSeen = Assignments(x.org, x.target)
         /\ p.wsRow = [w \in Workspaces |->
                         UpdatedWsRow(x, new, Assignments(x.org, x.target)[w], w)]
BY DEF Prepared, Txn

\* update_member prepares rows of one user of one organization.
LEMMA PreparedShape ==
  ASSUME IInv, NEW r \in Requests, txn[r].pc = "scoped",
         NEW row \in OrgRow, Exists(row), UpdateAllowed(txn[r], row)
  PROVE  ReadyShape(Prepared(txn[r], row))
<1> DEFINE x == txn[r]
           new == UpdatedRow(row, x.upd)
           loaded == Assignments(x.org, x.target)
           p == Prepared(x, row)
<1>1. x \in Txn /\ x.org \in Orgs /\ x.target \in Users /\ ScopedShape(x)
  BY DEF IInv, TypeOK, RequestShape, InShape
<1>2. Exists(orgMem[x.org][x.target]) /\ x.target \in accounts
  BY <1>1 DEF IInv, TypeOK, RowsOwned, UpdateAllowed
<1>3. /\ p.pc = "ready" /\ p.op = "put_member" /\ p.org = x.org /\ p.target = x.target
      /\ p.admin = x.admin /\ p.seen = row /\ p.row = new /\ p.wsSeen = loaded
      /\ p.wsRow = [w \in Workspaces |-> UpdatedWsRow(x, new, loaded[w], w)]
  BY <1>1, PreparedFields DEF ScopedShape
<1>4. Exists(new)
  BY <1>1, <1>2 DEF UpdatedRow, Exists, Txn, UpdateBody, OrgRoles, ORG_ADMIN
<1>5. ~x.admin => new = row
  BY <1>1, <1>2 DEF UpdatedRow, ScopedShape, OrgRow
<1>6. ASSUME NEW w \in Workspaces, OrgOf[w] # x.org
      PROVE  UpdatedWsRow(x, new, loaded[w], w) = loaded[w]
  <2>1. loaded[w] = Absent /\ ~Exists(loaded[w])
    BY <1>6 DEF Assignments, Absent, Exists
  <2>2. w \notin ReplaceIds(x, new)
    BY <1>1, <1>6 DEF ReplaceIds, ScopedShape
  <2> HIDE DEF loaded, new
  <2> QED BY <2>1, <2>2 DEF UpdatedWsRow
<1>7. \A w \in Workspaces : OrgOf[w] # p.org => p.wsRow[w] = p.wsSeen[w]
  BY <1>3, <1>6
<1>8. x.admin \in BOOLEAN
  BY <1>1 DEF Txn
<1> HIDE DEF x, new, loaded, p
<1>9. ReadyShape(p)
  BY <1>2, <1>3, <1>4, <1>5, <1>7, <1>8 DEF ReadyShape
<1> QED BY <1>9 DEF p, x

\* A workspace administrator's request keeps none of the fields but the
\* assignments, and selects a workspace of the organization.
LEMMA ScopeUpdateShape ==
  ASSUME NEW r \in Requests, NEW a \in Users, NEW t \in Users, NEW o \in Orgs,
         NEW u \in Updates, ScopeUpdate(r, a, t, o, u)
  PROVE  \E z : /\ txn' = [txn EXCEPT ![r] = z]
                /\ z.pc = "scoped" /\ z.org = o /\ z.target = t /\ ScopedShape(z)
<1> DEFINE x == [Idle EXCEPT !.pc = "scoped", !.op = "put_member", !.actor = a, !.org = o,
                   !.target = t, !.managed = Managed(o, a)]
           stripped == [NoUpdate EXCEPT !.replaces = TRUE,
                          !.assign = IF u.replaces THEN u.assign ELSE NoUpdate.assign]
           y == [x EXCEPT !.admin = TRUE, !.upd = u, !.selected = Managed(o, a)]
<1>1. \A w \in Managed(o, a) : OrgOf[w] = o
  BY DEF Managed
<1>2. CASE txn' = [txn EXCEPT ![r] = y]
  <2>1. y.pc = "scoped" /\ y.op = "put_member" /\ y.org = o /\ y.target = t
        /\ y.admin = TRUE /\ y.selected = Managed(o, a)
    BY DEF Idle
  <2> HIDE DEF y
  <2>2. ScopedShape(y)
    BY <1>1, <2>1 DEF ScopedShape
  <2> QED BY <1>2, <2>1, <2>2
<1>3. CASE \E w \in Managed(o, a) :
             txn' = [txn EXCEPT ![r] = [x EXCEPT !.selected = {w}, !.upd = stripped]]
  <2>1. PICK w \in Managed(o, a) :
          txn' = [txn EXCEPT ![r] = [x EXCEPT !.selected = {w}, !.upd = stripped]]
    BY <1>3
  <2> DEFINE z == [x EXCEPT !.selected = {w}, !.upd = stripped]
  <2>2. z.pc = "scoped" /\ z.op = "put_member" /\ z.org = o /\ z.target = t
        /\ z.admin = FALSE /\ z.selected = {w} /\ z.upd = stripped
    BY DEF Idle
  <2>3. stripped.role = "keep" /\ stripped.active = "keep"
    BY DEF NoUpdate
  <2> HIDE DEF z, stripped
  <2>4. ScopedShape(z)
    BY <1>1, <2>2, <2>3 DEF ScopedShape
  <2> QED BY <2>1, <2>2, <2>4 DEF z
<1> QED BY <1>2, <1>3 DEF ScopeUpdate

\* Every step keeps the shape of the requests in flight.
LEMMA RequestShapeStep ==
  ASSUME IInv, Next
  PROVE  RequestShape'
\* A request keeps its shape as long as no row it saw disappears.
<1>1. ASSUME NEW q \in Requests, txn'[q] = txn[q], accounts \subseteq accounts',
             \A o \in Orgs, u \in Users : Exists(orgMem[o][u]) => Exists(orgMem'[o][u])
      PROVE  InShape(q)'
  BY <1>1 DEF IInv, RequestShape, InShape, ReadyShape, ScopedShape
<1>2. /\ accounts \subseteq accounts'
      /\ \A o \in Orgs, u \in Users : Exists(orgMem[o][u]) => Exists(orgMem'[o][u])
  <2>1. ASSUME NEW r \in Requests, Commit(r) PROVE <1>2
    <3>1. accounts' = accounts
      BY <2>1 DEF Commit
    <3>2. /\ Exists(FlushedRow(txn[r]))
          /\ \A o \in Orgs, u \in Users :
               orgMem'[o][u] = IF o = txn[r].org /\ u = txn[r].target
                               THEN FlushedRow(txn[r]) ELSE orgMem[o][u]
      BY <2>1, CommitFacts
    <3> QED BY <3>1, <3>2
  <2>2. ASSUME NEW u \in Users, NEW s \in Tokens, NEW o \in Orgs, SignupOrganization(u, o, s)
        PROVE <1>2
    <3>1. \A p \in Orgs, v \in Users : p # o \/ v # u => orgMem'[p][v] = orgMem[p][v]
      BY <2>2 DEF SignupOrganization, IInv, TypeOK
    <3>2. Exists(orgMem'[o][u]) /\ accounts \subseteq accounts'
      BY <2>2 DEF SignupOrganization, IInv, TypeOK, Exists, ORG_ADMIN
    <3> QED BY <3>1, <3>2
  <2> QED BY <2>1, <2>2, OtherStepsKeepRows
\* A request that is over has no shape to keep.
<1>3. ASSUME NEW q \in Requests, txn'[q].pc = "idle" PROVE InShape(q)'
  BY <1>3 DEF InShape
<1>4. txn \in [Requests -> Txn]
  BY DEF IInv, TypeOK
<1>5. ASSUME NEW r \in Requests, Commit(r) PROVE \A q \in Requests : InShape(q)'
  <2> DEFINE x == txn[r]
  <2>1. txn[r].org \in Orgs /\ txn[r].target \in Users
    BY <1>5, CommitFacts
  <2>2. InShape(r)'
    <3>1. CASE x.op = "put_member"
      <4>1. txn'[r] = [Idle EXCEPT !.pc = "reply", !.op = x.op, !.actor = x.actor,
                         !.org = x.org, !.target = x.target,
                         !.admin = x.admin, !.managed = x.managed]
        BY <1>4, <1>5, <3>1 DEF Commit
      <4>2. txn'[r].pc = "reply" /\ txn'[r].org = x.org /\ txn'[r].target = x.target
        BY <4>1 DEF Idle
      <4> QED BY <2>1, <4>2 DEF InShape
    <3>2. CASE x.op # "put_member"
      <4>1. txn'[r].pc = "idle"
        BY <1>4, <1>5, <3>2 DEF Commit, Idle
      <4> QED BY <1>3, <4>1
    <3> QED BY <3>1, <3>2
  <2>3. \A q \in Requests \ {r} : txn'[q] = txn[q]
    BY <1>4, <1>5 DEF Commit
  <2> QED BY <1>1, <1>2, <2>2, <2>3
<1>6. ASSUME NEW r \in Requests, Refused(r) \/ Respond(r) PROVE \A q \in Requests : InShape(q)'
  <2>1. txn'[r].pc = "idle" /\ \A q \in Requests \ {r} : txn'[q] = txn[q]
    BY <1>4, <1>6 DEF Refused, RolledBack, Respond, Idle
  <2> QED BY <1>1, <1>2, <1>3, <2>1
<1>7. ASSUME NEW r \in Requests, Granted(r) \/ Loaded(r) PROVE \A q \in Requests : InShape(q)'
  <2> DEFINE x == txn[r]
  <2>1. x.pc = "scoped" /\ x \in Txn /\ x.org \in Orgs /\ x.target \in Users
    BY <1>4, <1>7 DEF IInv, RequestShape, InShape, Granted, Loaded
  <2>2. /\ orgMem[x.org][x.target] \in OrgRow /\ LoadedMembership(x) \in OrgRow
        /\ Exists(orgMem[x.org][x.target]) => Exists(LoadedMembership(x))
    BY <2>1, LoadedMembershipType DEF IInv, TypeOK
  <2>3. PICK row \in OrgRow :
          Exists(row) /\ UpdateAllowed(x, row) /\ txn' = [txn EXCEPT ![r] = Prepared(x, row)]
    BY <1>7, <2>2 DEF Granted, Loaded, UpdateAllowed
  <2> DEFINE p == Prepared(x, row)
  <2>4. /\ txn'[r] = p /\ \A q \in Requests \ {r} : txn'[q] = txn[q]
        /\ orgMem' = orgMem /\ accounts' = accounts
    BY <1>4, <1>7, <2>3 DEF Granted, Loaded
  <2>5. p.pc = "ready" /\ p.org = x.org /\ p.target = x.target
    <3> HIDE DEF x
    <3> QED BY <2>1 DEF Prepared, Txn
  <2>6. ReadyShape(p)
    BY <2>1, <2>3, PreparedShape
  <2> HIDE DEF x, p
  <2>7. InShape(r)'
    BY <2>1, <2>4, <2>5, <2>6 DEF InShape, ReadyShape
  <2> QED BY <1>1, <1>2, <2>4, <2>7
<1>8. ASSUME NEW r \in Requests, Scoped(r) PROVE \A q \in Requests : InShape(q)'
  <2>1. PICK a \in Users, t \in Users, o \in Orgs, u \in Updates : ScopeUpdate(r, a, t, o, u)
    BY <1>8 DEF Scoped
  <2>2. PICK z : txn' = [txn EXCEPT ![r] = z] /\ z.pc = "scoped" /\ z.org = o /\ z.target = t
                 /\ ScopedShape(z)
    BY <2>1, ScopeUpdateShape
  <2>3. txn'[r] = z /\ \A q \in Requests \ {r} : txn'[q] = txn[q]
    BY <1>4, <2>2
  <2>4. InShape(r)'
    BY <2>2, <2>3 DEF InShape, ScopedShape
  <2> QED BY <1>1, <1>2, <2>3, <2>4
<1>9. ASSUME NEW r \in Requests, Received(r) PROVE \A q \in Requests : InShape(q)'
  <2>1. PICK op \in Routes \ {"put_member"}, a \in Users, o \in Orgs, t \in Users,
             seen \in OrgRow, row \in OrgRow,
             wsSeen \in [Workspaces -> WsRow], wsRow \in [Workspaces -> WsRow] :
          /\ Prepare(r, op, a, o, t, seen, row, wsSeen, wsRow)
          /\ ReadyShape(NewTxn(op, a, o, t, seen, row, wsSeen, wsRow))
    BY <1>9 DEF Received
  <2> DEFINE n == NewTxn(op, a, o, t, seen, row, wsSeen, wsRow)
  <2>2. /\ txn'[r] = n /\ \A q \in Requests \ {r} : txn'[q] = txn[q]
        /\ orgMem' = orgMem /\ accounts' = accounts
    BY <1>4, <2>1 DEF Prepare, NewTxn
  <2>3. n.pc = "ready" /\ n.org = o /\ n.target = t
    BY NewTxnFields
  <2> HIDE DEF n
  <2>4. InShape(r)'
    BY <2>1, <2>2, <2>3 DEF InShape, ReadyShape, n
  <2> QED BY <1>1, <1>2, <2>2, <2>4
<1>10. ASSUME txn' = txn PROVE \A q \in Requests : InShape(q)'
  BY <1>1, <1>2, <1>10
<1>11. ASSUME NEW u \in Users, Signup(u) PROVE txn' = txn
  BY <1>11 DEF Signup
<1>12. ASSUME NEW u \in Users, NEW s \in Tokens, Login(u, s) PROVE txn' = txn
  BY <1>12 DEF Login
<1>13. ASSUME NEW u \in Users, NEW s \in Tokens, NEW o \in Orgs, SignupOrganization(u, o, s)
       PROVE txn' = txn
  BY <1>13 DEF SignupOrganization
<1>14. ASSUME NEW s \in Tokens, EndSession(s) PROVE txn' = txn
  BY <1>14 DEF EndSession
<1>15. \A q \in Requests : InShape(q)'
  BY <1>5, <1>6, <1>7, <1>8, <1>9, <1>10, <1>11, <1>12, <1>13, <1>14, NextCases
<1> QED BY <1>15 DEF RequestShape

-----------------------------------------------------------------------------
(* The lock of update_member.                                              *)

\* The other assignments of a user than those of x.org are left alone by x.
LEMMA CommitAssignments ==
  ASSUME IInv, NEW r \in Requests, Commit(r), NEW o \in Orgs, NEW u \in Users,
         o # txn[r].org \/ u # txn[r].target
  PROVE  \A w \in Workspaces : OrgOf[w] = o => wsMem'[w][u] = wsMem[w][u]
<1> DEFINE x == txn[r]
<1>1. x \in Txn /\ x.org \in Orgs /\ x.target \in Users /\ ReadyShape(x)
  BY CommitFacts
<1>2. ASSUME NEW w \in Workspaces, OrgOf[w] = o
      PROVE  wsMem'[w][u] = wsMem[w][u]
  <2>1. wsMem'[w] = [wsMem[w] EXCEPT ![x.target] = FlushedWsRow(x, w)]
    BY DEF Commit
  <2>2. CASE u # x.target
    BY <2>1, <2>2 DEF IInv, TypeOK
  <2>3. CASE u = x.target
    <3>1. x.wsRow[w] = x.wsSeen[w]
      BY <1>1, <1>2, <2>3 DEF ReadyShape
    <3>2. wsMem[w][u] \in WsRow /\ x.wsSeen[w] \in WsRow
      BY <1>1 DEF IInv, TypeOK, Txn
    <3>3. FlushedWsRow(x, w) = wsMem[w][u]
      BY <2>3, <3>1, <3>2, WsMergeUnchanged DEF FlushedWsRow
    <3> QED BY <2>1, <2>3, <3>3 DEF IInv, TypeOK
  <2> QED BY <2>2, <2>3
<1> QED BY <1>2

\* What LockHolderCurrent says of one request.
Current(r) ==
  LET x == txn[r] IN
  x.pc = "ready" /\ x.op = "put_member" /\ x.admin =>
    /\ orgLock[x.org] = r
    /\ x.seen = orgMem[x.org][x.target]
    /\ x.wsSeen = Assignments(x.org, x.target)
    /\ IsAdmin(x.seen) /\ ~IsAdmin(x.row) => OtherActiveAdmin(x.org, x.target)

\* A request that holds the lock keeps its view as long as the rows of its
\* organization do not change.
LEMMA CurrentFrame ==
  ASSUME IInv, NEW q \in Requests, txn'[q] = txn[q],
         txn[q].org \in Orgs /\ orgLock[txn[q].org] = q => orgLock'[txn[q].org] = q,
         orgLock[txn[q].org] = q /\ txn[q].org \in Orgs /\ txn[q].target \in Users =>
            /\ orgMem'[txn[q].org] = orgMem[txn[q].org]
            /\ \A w \in Workspaces : OrgOf[w] = txn[q].org =>
                 wsMem'[w][txn[q].target] = wsMem[w][txn[q].target]
  PROVE  Current(q)'
<1> DEFINE x == txn[q]
<1> SUFFICES ASSUME x.pc = "ready", x.op = "put_member", x.admin
             PROVE  Current(q)'
  BY DEF Current
<1>1. Current(q) /\ x.org \in Orgs /\ x.target \in Users
  BY DEF IInv, LockHolderCurrent, Current, RequestShape, InShape
<1>2. /\ orgLock[x.org] = q /\ x.seen = orgMem[x.org][x.target]
      /\ x.wsSeen = Assignments(x.org, x.target)
      /\ IsAdmin(x.seen) /\ ~IsAdmin(x.row) => OtherActiveAdmin(x.org, x.target)
  BY <1>1 DEF Current
<1>3. PICK o \in Orgs, u \in Users : o = x.org /\ u = x.target
  BY <1>1
<1>4. /\ orgLock'[o] = q /\ orgMem'[o] = orgMem[o]
      /\ \A w \in Workspaces : OrgOf[w] = o => wsMem'[w][u] = wsMem[w][u]
  BY <1>1, <1>2, <1>3
<1>5. Assignments(o, u)' = Assignments(o, u)
  BY <1>4 DEF Assignments
<1>6. OtherActiveAdmin(o, u) => OtherActiveAdmin(o, u)'
  BY <1>4 DEF OtherActiveAdmin
<1>7. txn'[q] = x /\ x.org = o /\ x.target = u
  BY <1>3
<1>8. /\ orgLock'[o] = q /\ x.seen = orgMem'[o][u]
      /\ x.wsSeen = Assignments(o, u)'
      /\ IsAdmin(x.seen) /\ ~IsAdmin(x.row) => OtherActiveAdmin(o, u)'
  BY <1>2, <1>4, <1>5, <1>6, <1>7
<1> QED BY <1>7, <1>8 DEF Current

\* An update that takes an administrator away is one that removes_admin names.
LEMMA UpdatedAdmin ==
  ASSUME NEW row \in OrgRow, NEW u \in UpdateBody, IsAdmin(row), ~RemovesAdmin(row, u)
  PROVE  IsAdmin(UpdatedRow(row, u))
<1>1. u.active # "deactivate" /\ u.role \in {"keep", ORG_ADMIN} /\ u.active \in {"keep", "activate"}
  BY DEF RemovesAdmin, UpdateBody
<1>2. row.role = ORG_ADMIN /\ row.active = TRUE
  BY DEF IsAdmin
<1> QED BY <1>1, <1>2 DEF UpdatedRow, IsAdmin

\* Every step keeps what the holder of an organization row loaded current.
LEMMA LockHolderStep ==
  ASSUME IInv, Next
  PROVE  LockHolderCurrent'
<1>1. txn \in [Requests -> Txn] /\ orgLock \in [Orgs -> Requests \cup {NoOne}]
  BY DEF IInv, TypeOK
\* The other steps of the requests leave the rows alone.
<1>2. ASSUME NEW q \in Requests, txn'[q] = txn[q], orgMem' = orgMem, wsMem' = wsMem,
             txn[q].org \in Orgs /\ orgLock[txn[q].org] = q => orgLock'[txn[q].org] = q
      PROVE  Current(q)'
  BY <1>2, CurrentFrame
<1>3. ASSUME NEW r \in Requests, Commit(r) PROVE \A q \in Requests : Current(q)'
  <2>1. Current(r)'
    <3>1. CASE txn[r].op = "put_member"
      <4>1. txn'[r].pc = "reply"
        BY <1>1, <1>3, <3>1 DEF Commit, Idle
      <4> QED BY <4>1 DEF Current
    <3>2. CASE txn[r].op # "put_member"
      <4>1. txn'[r].pc = "idle"
        BY <1>1, <1>3, <3>2 DEF Commit, Idle
      <4> QED BY <4>1 DEF Current
    <3> QED BY <3>1, <3>2
  <2>2. ASSUME NEW q \in Requests \ {r} PROVE Current(q)'
    <3>1. txn'[q] = txn[q]
      BY <1>1, <1>3, <2>2 DEF Commit
    <3>2. txn[q].org \in Orgs /\ orgLock[txn[q].org] = q => orgLock'[txn[q].org] = q
      BY <1>1, <1>3, <2>2 DEF Commit, Unlocked
    <3>3. orgLock[txn[q].org] = q => txn[q].org # txn[r].org
      BY <1>3, <2>2, MembershipAssumption DEF Commit, LockAllows
    <3>4. ASSUME NEW o \in Orgs, NEW u \in Users, o # txn[r].org
          PROVE  /\ orgMem'[o] = orgMem[o]
                 /\ \A w \in Workspaces : OrgOf[w] = o => wsMem'[w][u] = wsMem[w][u]
      <4>1. orgMem'[o] = orgMem[o]
        BY <1>3, <3>4 DEF Commit, IInv, TypeOK
      <4> QED BY <1>3, <3>4, <4>1, CommitAssignments
    <3> QED BY <3>1, <3>2, <3>3, <3>4, CurrentFrame
  <2> QED BY <2>1, <2>2
<1>4. ASSUME NEW r \in Requests, Refused(r) PROVE \A q \in Requests : Current(q)'
  <2>1. txn'[r].pc = "idle" /\ \A q \in Requests \ {r} : txn'[q] = txn[q]
    BY <1>1, <1>4 DEF Refused, RolledBack, Idle
  <2>2. ASSUME NEW q \in Requests \ {r} PROVE Current(q)'
    <3>1. txn[q].org \in Orgs /\ orgLock[txn[q].org] = q => orgLock'[txn[q].org] = q
      BY <1>1, <1>4, <2>2 DEF Refused, RolledBack, Unlocked
    <3> QED BY <1>2, <1>4, <2>1, <3>1 DEF Refused, RolledBack
  <2> QED BY <2>1, <2>2 DEF Current
<1>5. ASSUME NEW r \in Requests, Granted(r) PROVE \A q \in Requests : Current(q)'
  <2> DEFINE x == txn[r]
             row == orgMem[x.org][x.target]
             p == Prepared(x, row)
             new == UpdatedRow(row, x.upd)
  <2>1. x \in Txn /\ x.org \in Orgs /\ x.target \in Users /\ x.admin /\ UpdateAllowed(x, row)
    BY <1>1, <1>5 DEF Granted, IInv, RequestShape, InShape
  <2>2. /\ txn'[r] = p /\ \A q \in Requests \ {r} : txn'[q] = txn[q]
        /\ orgLock[x.org] = NoOne /\ orgLock' = [orgLock EXCEPT ![x.org] = r]
        /\ orgMem' = orgMem /\ wsMem' = wsMem
    BY <1>1, <1>5 DEF Granted
  <2>3. row \in OrgRow /\ x.upd \in UpdateBody
    BY <2>1 DEF IInv, TypeOK, Txn
  <2>4. IsAdmin(row) /\ ~IsAdmin(new) => OtherActiveAdmin(x.org, x.target)
    <3> QED BY <2>1, <2>3, UpdatedAdmin DEF UpdateAllowed
  <2>5. /\ p.org = x.org /\ p.target = x.target /\ p.seen = row /\ p.row = new
        /\ p.wsSeen = Assignments(x.org, x.target)
    <3> HIDE DEF x, row, new
    <3> QED BY <2>1 DEF Prepared, Txn, new
  <2>6. Current(r)'
    <3>1. PICK o, u, c, n, y :
            /\ o \in Orgs /\ u \in Users
            /\ o = x.org /\ u = x.target /\ c = row /\ n = new /\ y = p
      BY <2>1
    <3>2. txn'[r] = y /\ y.org = o /\ y.target = u /\ y.seen = c /\ y.row = n
      BY <2>2, <2>5, <3>1
    <3>3. orgLock'[o] = r /\ c = orgMem'[o][u]
      BY <1>1, <2>1, <2>2, <3>1
    <3>4. y.wsSeen = Assignments(o, u)'
      BY <2>2, <2>5, <3>1 DEF Assignments
    <3>5. IsAdmin(c) /\ ~IsAdmin(n) => OtherActiveAdmin(o, u)'
      BY <2>2, <2>4, <3>1 DEF OtherActiveAdmin
    <3> HIDE DEF x, p, new, row
    <3> QED BY <3>2, <3>3, <3>4, <3>5 DEF Current
  <2>7. ASSUME NEW q \in Requests \ {r} PROVE Current(q)'
    <3>1. txn[q].org \in Orgs /\ orgLock[txn[q].org] = q => orgLock'[txn[q].org] = q
      BY <1>1, <2>1, <2>2, <2>7, MembershipAssumption
    <3> QED BY <1>2, <2>2, <3>1
  <2> QED BY <2>6, <2>7
\* Every other step of a request leaves the lock alone.
<1>6. ASSUME NEW r \in Requests, orgMem' = orgMem, wsMem' = wsMem, orgLock' = orgLock,
             \A q \in Requests \ {r} : txn'[q] = txn[q],
             ~(txn'[r].pc = "ready" /\ txn'[r].op = "put_member" /\ txn'[r].admin)
      PROVE  \A q \in Requests : Current(q)'
  <2>1. Current(r)'
    BY <1>6 DEF Current
  <2> QED BY <1>2, <1>6, <2>1
<1>7. ASSUME NEW r \in Requests, Loaded(r) PROVE \A q \in Requests : Current(q)'
  <2> DEFINE x == txn[r]
             p == Prepared(x, LoadedMembership(x))
  <2>1. /\ orgMem' = orgMem /\ wsMem' = wsMem /\ orgLock' = orgLock /\ ~x.admin
        /\ txn'[r] = p /\ \A q \in Requests \ {r} : txn'[q] = txn[q]
    BY <1>1, <1>7 DEF Loaded
  <2>2. p.admin = x.admin
    <3>1. x \in Txn
      BY <1>1
    <3> HIDE DEF x
    <3> QED BY <3>1 DEF Prepared, Txn
  <2> HIDE DEF x, p
  <2> QED BY <1>6, <2>1, <2>2
<1>8. ASSUME NEW r \in Requests, Respond(r) PROVE \A q \in Requests : Current(q)'
  <2>1. /\ orgMem' = orgMem /\ wsMem' = wsMem /\ orgLock' = orgLock
        /\ txn'[r].pc = "idle" /\ \A q \in Requests \ {r} : txn'[q] = txn[q]
    BY <1>1, <1>8 DEF Respond, Idle
  <2> QED BY <1>6, <2>1
<1>9. ASSUME NEW r \in Requests, Scoped(r) PROVE \A q \in Requests : Current(q)'
  <2>1. PICK a \in Users, t \in Users, o \in Orgs, u \in Updates : ScopeUpdate(r, a, t, o, u)
    BY <1>9 DEF Scoped
  <2>2. PICK z : txn' = [txn EXCEPT ![r] = z] /\ z.pc = "scoped"
    BY <2>1, ScopeUpdateShape
  <2>3. orgMem' = orgMem /\ wsMem' = wsMem /\ orgLock' = orgLock
    BY <2>1 DEF ScopeUpdate
  <2>4. txn'[r].pc = "scoped" /\ \A q \in Requests \ {r} : txn'[q] = txn[q]
    BY <1>1, <2>2
  <2> QED BY <1>6, <2>3, <2>4
<1>10. ASSUME NEW r \in Requests, Received(r) PROVE \A q \in Requests : Current(q)'
  <2>1. PICK op \in Routes \ {"put_member"}, a \in Users, o \in Orgs, t \in Users,
             seen \in OrgRow, row \in OrgRow,
             wsSeen \in [Workspaces -> WsRow], wsRow \in [Workspaces -> WsRow] :
          Prepare(r, op, a, o, t, seen, row, wsSeen, wsRow)
    BY <1>10 DEF Received
  <2> DEFINE n == NewTxn(op, a, o, t, seen, row, wsSeen, wsRow)
  <2>2. /\ txn'[r] = n /\ \A q \in Requests \ {r} : txn'[q] = txn[q]
        /\ orgMem' = orgMem /\ wsMem' = wsMem /\ orgLock' = orgLock
    BY <1>1, <2>1 DEF Prepare, NewTxn
  <2>3. n.op = op
    BY NewTxnFields
  <2> HIDE DEF n
  <2> QED BY <1>6, <2>2, <2>3
\* An organization that is signed up is nobody's yet.
<1>11. ASSUME NEW u \in Users, NEW s \in Tokens, NEW o \in Orgs, SignupOrganization(u, o, s)
       PROVE \A q \in Requests : Current(q)'
  <2>1. /\ txn' = txn /\ orgLock' = orgLock /\ wsMem' = wsMem
        /\ \A q \in Requests : txn[q].org # o
        /\ \A p \in Orgs \ {o} : orgMem'[p] = orgMem[p]
    BY <1>11 DEF SignupOrganization, IInv, TypeOK
  <2> QED BY <2>1, CurrentFrame
<1>12. ASSUME txn' = txn, orgMem' = orgMem, wsMem' = wsMem, orgLock' = orgLock
       PROVE  \A q \in Requests : Current(q)'
  BY <1>2, <1>12
<1>13. ASSUME NEW u \in Users, Signup(u) PROVE \A q \in Requests : Current(q)'
  BY <1>12, <1>13 DEF Signup
<1>14. ASSUME NEW u \in Users, NEW s \in Tokens, Login(u, s)
       PROVE \A q \in Requests : Current(q)'
  BY <1>12, <1>14 DEF Login
<1>15. ASSUME NEW s \in Tokens, EndSession(s) PROVE \A q \in Requests : Current(q)'
  BY <1>12, <1>15 DEF EndSession
<1>16. \A q \in Requests : Current(q)'
  BY <1>3, <1>4, <1>5, <1>7, <1>8, <1>9, <1>10, <1>11, <1>13, <1>14, <1>15, NextCases
<1> QED BY <1>16 DEF LockHolderCurrent, Current

-----------------------------------------------------------------------------
(* The steps of the server are steps of AdminRegistry.                     *)

\* The database a server starts on satisfies the invariant.
LEMMA InitIInv ==
  ASSUME Init
  PROVE  IInv
<1>1. TypeOK
  BY IdleType DEF Init, TypeOK
<1>2. RowsOwned
  BY DEF Init, ConsistentRows, RowsOwned
<1>3. \A r \in Requests : txn[r].pc = "idle"
  BY DEF Init, Idle
<1>4. RequestShape /\ LockHolderCurrent
  BY <1>3 DEF RequestShape, InShape, LockHolderCurrent
<1> QED BY <1>1, <1>2, <1>4 DEF IInv, Init

\* An organization with members, as AdminRegistry has it, has been created.
LEMMA MembersCreated ==
  ASSUME IInv, NEW o \in Orgs, Registry!HasMembers(o)
  PROVE  OrgCreated(o)
<1>1. PICK u \in Users : orgMem[o][u] # Absent
  BY DEF Registry!HasMembers
<1>2. orgMem[o][u] \in OrgRow /\ (orgMem[o][u].active => Exists(orgMem[o][u]))
  BY DEF IInv, TypeOK, RowsOwned
<1>3. CASE ~Exists(orgMem[o][u])
  <2>1. orgMem[o][u].role = "none" /\ orgMem[o][u].active = FALSE
    BY <1>2, <1>3 DEF Exists, OrgRow
  <2>2. orgMem[o][u] = Absent
    BY <1>2, <2>1 DEF OrgRow, Absent
  <2> QED BY <1>1, <2>2
<1> QED BY <1>3 DEF OrgCreated

\* A commit founds an organization, changes a row and leaves an administrator,
\* or leaves the organization rows as they are.
LEMMA RegistryCommit ==
  ASSUME IInv, "org_members" \notin Routes, NEW r \in Requests, Commit(r)
  PROVE  Registry!Next \/ orgMem' = orgMem
<1> DEFINE x == txn[r]
<1>1. /\ x \in Txn /\ x.org \in Orgs /\ x.target \in Users /\ ReadyShape(x)
      /\ orgMem[x.org][x.target] \in OrgRow /\ FlushedRow(x) \in OrgRow
      /\ Exists(FlushedRow(x))
      /\ x.row = x.seen => FlushedRow(x) = orgMem[x.org][x.target]
      /\ FlushedRow(x).active => ~ActiveElsewhere(x.org, x.target)
  BY CommitFacts
<1>2. orgMem' = [orgMem EXCEPT ![x.org][x.target] = FlushedRow(x)]
  BY DEF Commit
<1>3. x.seen \in OrgRow /\ x.row \in OrgRow
  BY <1>1 DEF Txn
<1>4. PICK o \in Orgs, u \in Users, new \in OrgRow :
        o = x.org /\ u = x.target /\ new = FlushedRow(x)
  BY <1>1
<1>5. /\ orgMem' = [orgMem EXCEPT ![o][u] = new] /\ new # Absent
      /\ new.active => \A p \in Orgs \ {o} : ~orgMem[p][u].active
  BY <1>1, <1>2, <1>4 DEF ActiveElsewhere, Exists, Absent
<1>6. new \in Registry!Row
  BY DEF Registry!Row, OrgRow
<1>7. CASE x.row = x.seen
  <2>1. new = orgMem[o][u]
    BY <1>1, <1>4, <1>7
  <2> QED BY <1>5, <2>1 DEF IInv, TypeOK
<1>8. CASE x.op = "organizations" /\ x.seen = Absent /\ IsAdmin(x.row)
  <2>1. new = [role |-> ORG_ADMIN, active |-> TRUE]
    BY <1>4, <1>8 DEF FlushedRow, Merge, IsAdmin, Absent, ORG_ADMIN
  <2>2. CASE Registry!HasMembers(o)
    <3>1. Registry!Change(o, u, new)
      BY <1>5, <2>1, <2>2 DEF Registry!Change
    <3> QED BY <1>6, <3>1 DEF Registry!Next
  <2>3. CASE ~Registry!HasMembers(o)
    <3>1. Registry!Found(o, u)
      BY <1>5, <2>1, <2>3 DEF Registry!Found
    <3> QED BY <3>1 DEF Registry!Next
  <2> QED BY <2>2, <2>3
<1>9. CASE x.op = "put_member" /\ x.admin /\ Exists(x.seen)
  <2>1. /\ x.seen = orgMem[o][u]
        /\ IsAdmin(x.seen) /\ ~IsAdmin(x.row) => OtherActiveAdmin(o, u)
    BY <1>4, <1>9 DEF Commit, IInv, LockHolderCurrent
  <2>2. new = x.row
    BY <1>3, <1>4, <2>1, OrgMergeCurrent DEF FlushedRow
  <2>3. PICK v \in Users : IsAdmin(orgMem[o][v])
    BY <2>1, <1>9 DEF IInv, AdminRetained, OrgCreated
  <2>4. new = [role |-> ORG_ADMIN, active |-> TRUE]
          \/ \E a \in Users \ {u} : orgMem[o][a] = [role |-> ORG_ADMIN, active |-> TRUE]
    BY <2>1, <2>2, <2>3 DEF IsAdmin, OtherActiveAdmin
  <2>5. Registry!HasMembers(o)
    BY <2>3 DEF Registry!HasMembers, IsAdmin, Absent, ORG_ADMIN
  <2>6. Registry!Change(o, u, new)
    BY <1>5, <2>4, <2>5 DEF Registry!Change
  <2> QED BY <1>6, <2>6 DEF Registry!Next
<1>10. x.op # "org_members"
  BY <1>1, MembershipAssumption DEF Txn, AllRoutes
<1> QED BY <1>1, <1>7, <1>8, <1>9, <1>10 DEF ReadyShape

\* Every step is a step of AdminRegistry or leaves the organization rows alone.
LEMMA RegistryStep ==
  ASSUME IInv, Next, "org_members" \notin Routes
  PROVE  Registry!Next \/ orgMem' = orgMem
<1>1. ASSUME NEW u \in Users, NEW s \in Tokens, NEW o \in Orgs, SignupOrganization(u, o, s)
      PROVE  Registry!Next
  <2>1. ~Registry!HasMembers(o)
    BY <1>1, MembersCreated DEF SignupOrganization
  <2>2. \A p \in Orgs : ~orgMem[p][u].active
    BY <1>1 DEF SignupOrganization, IInv, RowsOwned
  <2>3. Registry!Found(o, u)
    BY <1>1, <2>1, <2>2 DEF SignupOrganization, Registry!Found
  <2> QED BY <2>3 DEF Registry!Next
<1> QED BY <1>1, RegistryCommit, OtherStepsKeepRows

\* AdminRegistry never leaves an organization without an administrator.
LEMMA AdminRetainedStep ==
  ASSUME IInv, Next, "org_members" \notin Routes
  PROVE  AdminRetained'
<1> DEFINE Admin == [role |-> ORG_ADMIN, active |-> TRUE]
<1>1. AdminRetained /\ TypeOK /\ RowsOwned'
  BY RowsOwnedStep DEF IInv
<1>2. ASSUME NEW o \in Orgs, NEW u \in Users, Registry!Found(o, u)
      PROVE  AdminRetained'
  <2>1. orgMem' = [orgMem EXCEPT ![o][u] = Admin]
    BY <1>2 DEF Registry!Found
  <2>2. \A p \in Orgs : p # o => orgMem'[p] = orgMem[p]
    BY <1>1, <2>1 DEF TypeOK
  <2>3. orgMem'[o][u] = Admin
    BY <1>1, <2>1 DEF TypeOK
  <2> QED BY <1>1, <2>2, <2>3 DEF AdminRetained, OrgCreated, IsAdmin
<1>3. ASSUME NEW o \in Orgs, NEW u \in Users, NEW row, Registry!Change(o, u, row)
      PROVE  AdminRetained'
  <2>1. /\ orgMem' = [orgMem EXCEPT ![o][u] = row]
        /\ row = Admin \/ \E v \in Users \ {u} : orgMem[o][v] = Admin
    BY <1>3 DEF Registry!Change
  <2>2. \A p \in Orgs : p # o => orgMem'[p] = orgMem[p]
    BY <1>1, <2>1 DEF TypeOK
  <2>3. orgMem'[o][u] = row /\ \A v \in Users \ {u} : orgMem'[o][v] = orgMem[o][v]
    BY <1>1, <2>1 DEF TypeOK
  <2>4. \E v \in Users : orgMem'[o][v] = Admin
    BY <2>1, <2>3
  <2> QED BY <1>1, <2>2, <2>4 DEF AdminRetained, OrgCreated, IsAdmin
<1>4. CASE orgMem' = orgMem
  BY <1>1, <1>4 DEF AdminRetained, OrgCreated, IsAdmin
<1> QED BY <1>2, <1>3, <1>4, RegistryStep DEF Registry!Next

\* The invariant is inductive.
LEMMA InductiveStep ==
  ASSUME IInv, [Next]_vars
  PROVE  IInv'
<1>1. CASE Next
  BY <1>1, TypeStep, OneActiveStep, RowsOwnedStep, RequestShapeStep, LockHolderStep,
     AdminRetainedStep DEF IInv
<1>2. CASE UNCHANGED vars
  <2> USE <1>2 DEF vars
  <2>1. TypeOK'
    BY DEF IInv, TypeOK
  <2>2. OneActiveOrganization' /\ RowsOwned'
    BY DEF IInv, OneActiveOrganization, RowsOwned
  <2>3. RequestShape'
    BY DEF IInv, RequestShape, InShape, ReadyShape, ScopedShape
  <2>4. LockHolderCurrent'
    BY DEF IInv, LockHolderCurrent, Assignments, OtherActiveAdmin
  <2>5. AdminRetained => AdminRetained'
    BY DEF AdminRetained, OrgCreated
  <2> QED BY <2>1, <2>2, <2>3, <2>4, <2>5 DEF IInv
<1> QED BY <1>1, <1>2

\* The invariant holds in every reachable state.
LEMMA Inductive == Spec => []IInv
BY InitIInv, InductiveStep, PTL DEF Spec

-----------------------------------------------------------------------------
(* What an update that was checked may still write.                        *)

\* The assignment update_member leaves in its session is a row; one that is not
\* replaced is kept, and a deactivation clears one that exists.
LEMMA UpdatedWsRowFacts ==
  ASSUME NEW x \in Txn, NEW row, NEW seen \in WsRow, NEW w \in Workspaces
  PROVE  /\ w \notin ReplaceIds(x, row) /\ x.upd.active # "deactivate" =>
              UpdatedWsRow(x, row, seen, w) = seen
         /\ Exists(seen) /\ x.upd.active = "deactivate" =>
              ~UpdatedWsRow(x, row, seen, w).active
<1>1. x.upd.assign[w] \in WsRoles \cup {"omit"}
  BY DEF Txn, UpdateBody
<1>2. CASE w \notin ReplaceIds(x, row)
  BY <1>2 DEF UpdatedWsRow, WsRow
<1>3. CASE w \in ReplaceIds(x, row)
  BY <1>1, <1>3 DEF UpdatedWsRow, WsRow
<1> QED BY <1>2, <1>3

\* What update_member prepares is planned, if a workspace administrator is not
\* taken for an organization administrator.
LEMMA PreparedPlanned ==
  ASSUME IInv, NEW r \in Requests, txn[r].pc = "scoped", Planned(txn[r]),
         NEW row \in OrgRow, ~txn[r].admin => ~AdminAs(txn[r], row)
  PROVE  Planned(Prepared(txn[r], row))
<1> DEFINE x == txn[r]
           new == UpdatedRow(row, x.upd)
           loaded == Assignments(x.org, x.target)
           p == Prepared(x, row)
<1>1. x \in Txn /\ x.org \in Orgs /\ x.target \in Users /\ ScopedShape(x)
  BY DEF IInv, TypeOK, RequestShape, InShape
<1>2. /\ p.pc = "ready" /\ p.op = x.op /\ p.admin = x.admin /\ p.seen = row /\ p.row = new
      /\ p.wsSeen = loaded
      /\ p.wsRow = [w \in Workspaces |-> UpdatedWsRow(x, new, loaded[w], w)]
  BY <1>1, PreparedFields
<1>3. /\ p.managed = x.managed
      /\ p.revoke = IF x.upd.active = "deactivate" THEN TokensOf(x.target) ELSE {}
  <2> HIDE DEF x
  <2> QED BY <1>1 DEF Prepared, Txn
<1>4. \A w \in Workspaces : loaded[w] \in WsRow
  BY <1>1 DEF IInv, TypeOK, Assignments, Absent, WsRow
<1>5. row.active /\ ~new.active => x.upd.active = "deactivate"
  BY <1>1 DEF UpdatedRow, Txn, UpdateBody
<1>6. ASSUME ~x.admin PROVE new = row /\ x.upd.active = "keep" /\ ReplaceIds(x, new) \subseteq x.managed
  <2>1. new = row /\ x.upd.active = "keep"
    BY <1>1, <1>6 DEF UpdatedRow, ScopedShape, OrgRow
  <2>2. x.selected \subseteq x.managed /\ ~AdminAs(x, new)
    BY <1>6, <2>1 DEF Planned
  <2> HIDE DEF new, x
  <2> QED BY <2>1, <2>2 DEF ReplaceIds
<1> HIDE DEF x, new, loaded, p
<1>7. ASSUME NEW w \in Workspaces
      PROVE  /\ Exists(loaded[w]) /\ x.upd.active = "deactivate" => ~p.wsRow[w].active
             /\ w \notin ReplaceIds(x, new) /\ x.upd.active # "deactivate" =>
                  p.wsRow[w] = loaded[w]
  <2>1. p.wsRow[w] = UpdatedWsRow(x, new, loaded[w], w)
    BY <1>2
  <2>2. x \in Txn /\ loaded[w] \in WsRow
    BY <1>1, <1>4
  <2> QED BY <2>1, <2>2, UpdatedWsRowFacts
<1>8. Planned(p)
  BY <1>2, <1>3, <1>5, <1>6, <1>7 DEF Planned
<1> QED BY <1>8 DEF p, x

\* put_member leaves a workspace administrator the workspaces he manages.
LEMMA ScopeUpdatePlanned ==
  ASSUME NEW r \in Requests, NEW a \in Users, NEW t \in Users, NEW o \in Orgs,
         NEW u \in Updates, ScopeUpdate(r, a, t, o, u)
  PROVE  \E z : txn' = [txn EXCEPT ![r] = z] /\ Planned(z)
<1> DEFINE x == [Idle EXCEPT !.pc = "scoped", !.op = "put_member", !.actor = a, !.org = o,
                   !.target = t, !.managed = Managed(o, a)]
           stripped == [NoUpdate EXCEPT !.replaces = TRUE,
                          !.assign = IF u.replaces THEN u.assign ELSE NoUpdate.assign]
           y == [x EXCEPT !.admin = TRUE, !.upd = u, !.selected = Managed(o, a)]
<1>1. CASE txn' = [txn EXCEPT ![r] = y]
  <2>1. y.pc = "scoped" /\ y.admin = TRUE
    BY DEF Idle
  <2> HIDE DEF y
  <2> QED BY <1>1, <2>1 DEF Planned
<1>2. ASSUME NEW w \in Managed(o, a),
             txn' = [txn EXCEPT ![r] = [x EXCEPT !.selected = {w}, !.upd = stripped]]
      PROVE  \E z : txn' = [txn EXCEPT ![r] = z] /\ Planned(z)
  <2> DEFINE z == [x EXCEPT !.selected = {w}, !.upd = stripped]
  <2>1. z.pc = "scoped" /\ z.selected = {w} /\ z.managed = Managed(o, a)
    BY DEF Idle
  <2> HIDE DEF z
  <2>2. Planned(z)
    BY <2>1 DEF Planned
  <2> QED BY <1>2, <2>2 DEF z
<1> QED BY <1>1, <1>2 DEF ScopeUpdate

\* Every step keeps the updates in flight planned.
LEMMA UpdatesPlannedStep ==
  ASSUME IInv, UpdatesPlanned, Next
  PROVE  UpdatesPlanned'
<1>1. txn \in [Requests -> Txn] /\ \A q \in Requests : Planned(txn[q])
  BY DEF IInv, TypeOK, UpdatesPlanned
\* A request that is over, or waits for its answer, writes nothing more.
<1>2. ASSUME NEW r \in Requests, txn'[r].pc \in {"idle", "reply"},
             \A q \in Requests \ {r} : txn'[q] = txn[q]
      PROVE  \A q \in Requests : Planned(txn'[q])
  BY <1>1, <1>2 DEF Planned
<1>3. ASSUME NEW r \in Requests, Commit(r) PROVE \A q \in Requests : Planned(txn'[q])
  <2> DEFINE x == txn[r]
             answered == [Idle EXCEPT !.pc = "reply", !.op = x.op, !.actor = x.actor, !.org = x.org,
                            !.target = x.target, !.admin = x.admin, !.managed = x.managed]
  <2>1. answered.pc = "reply" /\ Idle.pc = "idle"
    BY DEF Idle
  <2>2. txn' \in {[txn EXCEPT ![r] = answered], [txn EXCEPT ![r] = Idle]}
    BY <1>3 DEF Commit
  <2> HIDE DEF answered
  <2> QED BY <1>1, <1>2, <2>1, <2>2
<1>4. ASSUME NEW r \in Requests, Refused(r) \/ Respond(r)
      PROVE  \A q \in Requests : Planned(txn'[q])
  <2>1. txn' = [txn EXCEPT ![r] = Idle] /\ Idle.pc = "idle"
    BY <1>4 DEF Refused, RolledBack, Respond, Idle
  <2> QED BY <1>1, <1>2, <2>1
<1>5. ASSUME NEW r \in Requests, Granted(r) \/ Loaded(r)
      PROVE  \A q \in Requests : Planned(txn'[q])
  <2> DEFINE x == txn[r]
  <2>1. x.pc = "scoped" /\ x.org \in Orgs /\ x.target \in Users
    BY <1>5 DEF IInv, RequestShape, InShape, Granted, Loaded
  <2>2. orgMem[x.org][x.target] \in OrgRow /\ LoadedMembership(x) \in OrgRow
    BY <2>1, LoadedMembershipType DEF IInv, TypeOK
  \* The membership that authorized a workspace administrator is not an
  \* organization administrator's.
  <2>3. ~x.admin => ~AdminAs(x, LoadedMembership(x))
    BY DEF AdminAs, LoadedMembership, ORG_ADMIN
  <2>4. PICK row \in OrgRow :
          (~x.admin => ~AdminAs(x, row)) /\ txn' = [txn EXCEPT ![r] = Prepared(x, row)]
    BY <1>5, <2>2, <2>3 DEF Granted, Loaded
  <2>5. Planned(Prepared(x, row))
    BY <1>1, <2>1, <2>4, PreparedPlanned
  <2> QED BY <1>1, <2>4, <2>5
<1>6. ASSUME NEW r \in Requests, Scoped(r) PROVE \A q \in Requests : Planned(txn'[q])
  <2>1. PICK a \in Users, t \in Users, o \in Orgs, u \in Updates : ScopeUpdate(r, a, t, o, u)
    BY <1>6 DEF Scoped
  <2>2. PICK z : txn' = [txn EXCEPT ![r] = z] /\ Planned(z)
    BY <2>1, ScopeUpdatePlanned
  <2> QED BY <1>1, <2>2
<1>7. ASSUME NEW r \in Requests, Received(r) PROVE \A q \in Requests : Planned(txn'[q])
  <2>1. PICK op \in Routes \ {"put_member"}, a \in Users, o \in Orgs, t \in Users,
             seen \in OrgRow, row \in OrgRow,
             wsSeen \in [Workspaces -> WsRow], wsRow \in [Workspaces -> WsRow] :
          Prepare(r, op, a, o, t, seen, row, wsSeen, wsRow)
    BY <1>7 DEF Received
  <2> DEFINE n == NewTxn(op, a, o, t, seen, row, wsSeen, wsRow)
  <2>2. txn' = [txn EXCEPT ![r] = n]
    BY <2>1 DEF Prepare, NewTxn
  <2>3. n.pc = "ready" /\ n.op = op
    BY NewTxnFields
  <2> HIDE DEF n
  <2>4. Planned(n)
    BY <2>3 DEF Planned
  <2> QED BY <1>1, <2>2, <2>4
<1>8. ASSUME txn' = txn PROVE \A q \in Requests : Planned(txn'[q])
  BY <1>1, <1>8
<1>9. ASSUME NEW u \in Users, Signup(u) PROVE txn' = txn
  BY <1>9 DEF Signup
<1>10. ASSUME NEW u \in Users, NEW s \in Tokens, Login(u, s) PROVE txn' = txn
  BY <1>10 DEF Login
<1>11. ASSUME NEW u \in Users, NEW s \in Tokens, NEW o \in Orgs, SignupOrganization(u, o, s)
       PROVE txn' = txn
  BY <1>11 DEF SignupOrganization
<1>12. ASSUME NEW s \in Tokens, EndSession(s) PROVE txn' = txn
  BY <1>12 DEF EndSession
<1>13. \A q \in Requests : Planned(txn'[q])
  BY <1>3, <1>4, <1>5, <1>6, <1>7, <1>8, <1>9, <1>10, <1>11, <1>12, NextCases
<1> QED BY <1>13 DEF UpdatesPlanned, Planned

\* In every reachable state the updates in flight are planned.
LEMMA PlannedInductive == Spec => [](IInv /\ UpdatesPlanned)
<1>1. Init => UpdatesPlanned
  BY DEF Init, Idle, UpdatesPlanned, Planned
<1>2. IInv /\ UpdatesPlanned /\ [Next]_vars => UpdatesPlanned'
  <2>1. CASE UNCHANGED vars
    BY <2>1 DEF vars, UpdatesPlanned, Planned
  <2> QED BY <2>1, UpdatesPlannedStep
<1> QED BY <1>1, <1>2, InitIInv, InductiveStep, PTL DEF Spec

\* What a commit writes to the assignments: none that the request left as loaded.
LEMMA CommitAssigned ==
  ASSUME IInv, NEW r \in Requests, Commit(r), NEW w \in Workspaces
  PROVE  LET x == txn[r] IN
         /\ wsMem'[w][x.target] = FlushedWsRow(x, w)
         /\ wsMem[w][x.target] \in WsRow /\ x.wsSeen[w] \in WsRow /\ x.wsRow[w] \in WsRow
         /\ x.wsRow[w] = x.wsSeen[w] => wsMem'[w] = wsMem[w]
<1> DEFINE x == txn[r]
<1>1. x \in Txn /\ x.target \in Users
  BY CommitFacts
<1>2. wsMem[w] \in [Users -> WsRow] /\ x.wsSeen[w] \in WsRow /\ x.wsRow[w] \in WsRow
  BY <1>1 DEF IInv, TypeOK, Txn
<1>3. wsMem'[w] = [wsMem[w] EXCEPT ![x.target] = FlushedWsRow(x, w)]
  BY DEF Commit
<1> HIDE DEF x
<1>4. x.wsRow[w] = x.wsSeen[w] => FlushedWsRow(x, w) = wsMem[w][x.target]
  BY <1>1, <1>2, WsMergeUnchanged DEF FlushedWsRow
<1> QED BY <1>1, <1>2, <1>3, <1>4 DEF x

\* Only a commit of put_member takes a request from its checks to its answer.
LEMMA AnsweredByCommit ==
  ASSUME IInv, Next, NEW r \in Requests, txn[r].pc = "ready", txn'[r].pc = "reply"
  PROVE  Commit(r) /\ txn[r].op = "put_member"
<1>1. txn \in [Requests -> Txn]
  BY DEF IInv, TypeOK
<1>2. ASSUME NEW q \in Requests, Commit(q) PROVE q = r /\ txn[q].op = "put_member"
  <2>1. \A z \in Requests \ {q} : txn'[z] = txn[z]
    BY <1>1, <1>2 DEF Commit
  <2>2. txn[q].op # "put_member" => txn'[q].pc = "idle"
    BY <1>1, <1>2 DEF Commit, Idle
  <2> QED BY <2>1, <2>2
<1>3. ASSUME NEW q \in Requests,
             Refused(q) \/ Granted(q) \/ Loaded(q) \/ Respond(q) \/ Scoped(q) \/ Received(q)
      PROVE  FALSE
  <2>1. CASE Refused(q) \/ Respond(q)
    BY <1>1, <2>1 DEF Refused, RolledBack, Respond, Idle
  <2>2. CASE Granted(q) \/ Loaded(q)
    <3>1. txn[q].pc = "scoped" /\ \A z \in Requests \ {q} : txn'[z] = txn[z]
      BY <1>1, <2>2 DEF Granted, Loaded
    <3> QED BY <3>1
  <2>3. CASE Scoped(q)
    <3>1. PICK c \in Users, t \in Users, o \in Orgs, u \in Updates : ScopeUpdate(q, c, t, o, u)
      BY <2>3 DEF Scoped
    <3>2. PICK z : txn' = [txn EXCEPT ![q] = z] /\ z.pc = "scoped"
      BY <3>1, ScopeUpdateShape
    <3> QED BY <1>1, <3>2
  <2>4. CASE Received(q)
    <3>1. txn[q].pc = "idle" /\ \A z \in Requests \ {q} : txn'[z] = txn[z]
      BY <1>1, <2>4 DEF Received, Prepare
    <3> QED BY <3>1
  <2> QED BY <1>3, <2>1, <2>2, <2>3, <2>4
<1>4. txn' # txn
  OBVIOUS
<1>5. ASSUME NEW u \in Users, Signup(u) PROVE FALSE
  BY <1>4, <1>5 DEF Signup
<1>6. ASSUME NEW u \in Users, NEW s \in Tokens, Login(u, s) PROVE FALSE
  BY <1>4, <1>6 DEF Login
<1>7. ASSUME NEW u \in Users, NEW s \in Tokens, NEW o \in Orgs, SignupOrganization(u, o, s)
      PROVE FALSE
  BY <1>4, <1>7 DEF SignupOrganization
<1>8. ASSUME NEW s \in Tokens, EndSession(s) PROVE FALSE
  BY <1>4, <1>8 DEF EndSession
<1> QED BY <1>2, <1>3, <1>5, <1>6, <1>7, <1>8, NextCases

\* Only a commit deactivates a membership: that of an update by an organization
\* administrator, who has loaded the row as it is.
LEMMA DeactivatedByCommit ==
  ASSUME IInv, Next, NEW o \in Orgs, NEW u \in Users,
         orgMem[o][u].active, ~orgMem'[o][u].active
  PROVE  \E r \in Requests :
           /\ Commit(r) /\ txn[r].op = "put_member" /\ txn[r].admin
           /\ txn[r].org = o /\ txn[r].target = u
           /\ txn[r].seen = orgMem[o][u] /\ ~txn[r].row.active
           /\ txn[r].wsSeen = Assignments(o, u)
<1>1. ASSUME NEW v \in Users, NEW s \in Tokens, NEW p \in Orgs, SignupOrganization(v, p, s)
      PROVE  FALSE
  <2>1. orgMem'[o][u] = IF o = p /\ u = v THEN [role |-> ORG_ADMIN, active |-> TRUE]
                        ELSE orgMem[o][u]
    BY <1>1 DEF SignupOrganization, IInv, TypeOK
  <2> QED BY <2>1
<1>2. orgMem' # orgMem
  OBVIOUS
<1>3. PICK r \in Requests : Commit(r)
  BY <1>1, <1>2, OtherStepsKeepRows
<1> DEFINE x == txn[r]
<1>4. /\ x \in Txn /\ ReadyShape(x) /\ orgMem[o][u] \in OrgRow
      /\ x.row = x.seen => FlushedRow(x) = orgMem[x.org][x.target]
      /\ orgMem'[o][u] = IF o = x.org /\ u = x.target THEN FlushedRow(x) ELSE orgMem[o][u]
  BY <1>3, CommitFacts DEF IInv, TypeOK
<1>5. /\ o = x.org /\ u = x.target /\ ~FlushedRow(x).active /\ x.row # x.seen
  BY <1>4
<1>6. x.seen \in OrgRow /\ x.row \in OrgRow
  BY <1>4 DEF Txn
<1> HIDE DEF x
<1>7. ~x.row.active
  BY <1>4, <1>5, <1>6 DEF FlushedRow, Merge, OrgRow
<1>8. x.op = "put_member" /\ x.admin
  BY <1>4, <1>5, <1>7 DEF ReadyShape, IsAdmin
<1>9. x.seen = orgMem[o][u] /\ x.wsSeen = Assignments(o, u)
  BY <1>3, <1>5, <1>8 DEF Commit, IInv, LockHolderCurrent, x
<1> QED BY <1>3, <1>5, <1>7, <1>8, <1>9 DEF x

-----------------------------------------------------------------------------
\* The rows, the locks and the requests in flight keep their types: a handler
\* flushes only values it loaded or was asked for.
THEOREM TypeCorrect == Spec => []TypeOK
<1>1. IInv => TypeOK
  BY DEF IInv
<1> QED BY <1>1, Inductive, PTL

\* An account has one active organization membership at most, however many
\* requests check and write memberships at a time.
THEOREM OneActiveOrganizationHolds == Spec => []OneActiveOrganization
<1>1. IInv => OneActiveOrganization
  BY DEF IInv
<1> QED BY <1>1, Inductive, PTL

\* What update_member loaded under the organization row's lock stays what the
\* database holds until it commits or rolls back.
THEOREM LockHolderHolds == Spec => []LockHolderCurrent
<1>1. IInv => LockHolderCurrent
  BY DEF IInv
<1> QED BY <1>1, Inductive, PTL

\* Concurrent updates of members never take away the last administrator of an
\* organization, on a server whose legacy member route is not called.
THEOREM AdminRetainedHolds ==
  ASSUME "org_members" \notin Routes
  PROVE  Spec => []AdminRetained
<1>1. IInv => AdminRetained
  BY DEF IInv
<1> QED BY <1>1, Inductive, PTL

\* Requests, snapshots and locks implement the one-row-at-a-time registry.
THEOREM RegistryImplemented ==
  ASSUME "org_members" \notin Routes
  PROVE  Spec => RegistrySpec
<1>1. Init => Registry!Init
  <2> SUFFICES ASSUME Init PROVE Registry!Init
    OBVIOUS
  <2>1. IInv
    BY InitIInv
  <2>2. orgMem \in [Orgs -> [Users -> Registry!Row]]
    BY <2>1 DEF IInv, TypeOK, OrgRow, Registry!Row
  <2>3. \A o \in Orgs : Registry!HasMembers(o) => OrgCreated(o)
    BY <2>1, MembersCreated
  <2> QED BY <2>1, <2>2, <2>3 DEF IInv, AdminRetained, IsAdmin, OneActiveOrganization,
             Registry!Init, Registry!Consistent
<1>2. IInv /\ [Next]_vars => [Registry!Next]_orgMem
  BY RegistryStep DEF vars
<1> QED BY <1>1, <1>2, Inductive, PTL DEF Spec, RegistrySpec, Registry!Spec

\* An update by a workspace administrator writes assignments of workspaces he
\* managed when he was authorized, and no role, status or session, whatever he
\* has become meanwhile.
THEOREM WorkspaceAdminConfinedHolds == Spec => WorkspaceAdminConfined
<1>1. ASSUME IInv, UpdatesPlanned, Next, NEW r \in Requests,
             txn[r].pc = "ready", txn'[r].pc = "reply", ~txn[r].admin
      PROVE  /\ UNCHANGED <<orgMem, session>>
             /\ \A w \in Workspaces : wsMem'[w] # wsMem[w] => w \in txn[r].managed
  <2> DEFINE x == txn[r]
  <2>1. Commit(r) /\ x.op = "put_member"
    BY <1>1, AnsweredByCommit
  <2>2. /\ x.row = x.seen /\ x.revoke = {}
        /\ \A w \in Workspaces \ x.managed : x.wsRow[w] = x.wsSeen[w]
    BY <1>1, <2>1 DEF UpdatesPlanned, Planned
  <2>3. session' = session
    <3>1. session' = [s \in Tokens |-> IF s \in x.revoke THEN NoOne ELSE session[s]]
      BY <2>1 DEF Commit
    <3> QED BY <1>1, <2>2, <3>1 DEF IInv, TypeOK
  <2>4. orgMem' = orgMem
    <3>1. FlushedRow(x) = orgMem[x.org][x.target] /\ x.org \in Orgs /\ x.target \in Users
      BY <1>1, <2>1, <2>2, CommitFacts
    <3>2. orgMem' = [orgMem EXCEPT ![x.org][x.target] = FlushedRow(x)]
      BY <2>1 DEF Commit
    <3> HIDE DEF x
    <3> QED BY <1>1, <3>1, <3>2 DEF IInv, TypeOK
  <2>5. \A w \in Workspaces : wsMem'[w] # wsMem[w] => w \in x.managed
    BY <1>1, <2>1, <2>2, CommitAssigned
  <2> QED BY <2>3, <2>4, <2>5
<1>2. IInv /\ UpdatesPlanned /\ [Next]_vars =>
        [\A r \in Requests :
           txn[r].pc = "ready" /\ txn'[r].pc = "reply" /\ ~txn[r].admin =>
             /\ UNCHANGED <<orgMem, session>>
             /\ \A w \in Workspaces : wsMem'[w] # wsMem[w] => w \in txn[r].managed]_vars
  BY <1>1
<1> QED BY <1>2, PlannedInductive, PTL DEF Spec, WorkspaceAdminConfined

\* A deactivation leaves none of the assignments active that the member had in the
\* organization before its commit: no other request writes one of these rows between
\* its SELECT and its commit.  A row that the same body adds may be active.
THEOREM DeactivationCompleteHolds == Spec => DeactivationComplete
<1>1. ASSUME IInv, UpdatesPlanned, Next, NEW o \in Orgs, NEW u \in Users,
             orgMem[o][u].active, ~orgMem'[o][u].active,
             NEW w \in Workspaces, OrgOf[w] = o, Exists(wsMem[w][u])
      PROVE  ~wsMem'[w][u].active
  <2>1. PICK r \in Requests :
          /\ Commit(r) /\ txn[r].op = "put_member"
          /\ txn[r].org = o /\ txn[r].target = u
          /\ txn[r].seen = orgMem[o][u] /\ ~txn[r].row.active
          /\ txn[r].wsSeen = Assignments(o, u)
    BY <1>1, DeactivatedByCommit
  <2> DEFINE x == txn[r]
  <2>2. x.wsSeen[w] = wsMem[w][u]
    BY <1>1, <2>1 DEF Assignments
  <2>3. Planned(x) /\ x.pc = "ready"
    BY <1>1, <2>1 DEF UpdatesPlanned, Commit
  <2>4. ~x.wsRow[w].active
    BY <1>1, <2>1, <2>2, <2>3 DEF Planned
  <2>5. /\ wsMem'[w][u] = FlushedWsRow(x, w)
        /\ wsMem[w][u] \in WsRow /\ x.wsRow[w] \in WsRow
    BY <1>1, <2>1, CommitAssigned
  <2> HIDE DEF x
  <2>6. FlushedWsRow(x, w) = Merge(wsMem[w][u], wsMem[w][u], x.wsRow[w])
    BY <2>1, <2>2 DEF FlushedWsRow, x
  <2> QED BY <2>4, <2>5, <2>6 DEF Merge, WsRow
<1>2. IInv /\ UpdatesPlanned /\ [Next]_vars =>
        [\A o \in Orgs, u \in Users :
           orgMem[o][u].active /\ ~orgMem'[o][u].active =>
             \A w \in Workspaces :
               OrgOf[w] = o /\ Exists(wsMem[w][u]) => ~wsMem'[w][u].active]_vars
  BY <1>1
<1> QED BY <1>2, PlannedInductive, PTL DEF Spec, DeactivationComplete

-----------------------------------------------------------------------------
(* Invitations: proofs for every set of invitations, links and concurrent  *)
(* requests.                                                               *)


InvitationBody == [role : OrgRoles, assign : [Workspaces -> WsRoles \cup {"omit"}]]
InvitationRow == [status : Statuses, late : BOOLEAN, link : Links \cup {NoLink},
                  org : Orgs \cup {NoOne}, email : Users \cup {NoOne}, body : InvitationBody]

RowsTyped ==
  /\ inv \in [Invitations -> InvitationRow]
  /\ job = [j \in Jobs |-> job[j]]
  /\ used \subseteq Links

\* No two invitations carry one link.
LinksDistinct ==
  \A i, k \in Invitations : inv[i].link = inv[k].link /\ inv[i].link # NoLink => i = k

\* A request that creates has its row to itself.
Creating(j) ==
  LET x == job[j] IN
  /\ x.id \in Invitations /\ inv[x.id].status = "none"
  /\ x.new \in InvitationRow /\ x.new.link = x.link /\ x.new.status = "pending"
  /\ x.stale \in Invitations => inv[x.stale].status # "none"
  /\ \A k \in Jobs \ {j} : job[k].id # x.id

Changing(j) ==
  LET x == job[j] IN
  /\ x.id \in Invitations /\ inv[x.id].status # "none"
  /\ x.read \in Statuses

\* An issued link is nobody's before it is committed.
Issuing(j) ==
  LET x == job[j] IN
  /\ x.link \in Links \ used
  /\ \A i \in Invitations : inv[i].link # x.link
  /\ \A k \in Jobs \ {j} : job[k].link # x.link

\* While an acceptance holds its row, the row stays as it was checked.
Accepting(j) ==
  LET x == job[j] IN
  /\ x.id \in Invitations /\ x.link \in Links
  /\ inv[x.id].status = "pending" /\ inv[x.id].link = x.link
  /\ \A k \in Jobs \ {j} : ~(job[k].op = "accept" /\ job[k].id = x.id)

JobsShape ==
  \A j \in Jobs :
    /\ job[j].op \in {"none", "create", "resend", "revoke", "accept"}
    /\ job[j].op = "none" => job[j].link = NoLink /\ job[j].id = NoOne
    /\ job[j].op = "create" => Creating(j) /\ Issuing(j)
    /\ job[j].op = "resend" => Changing(j) /\ Issuing(j)
    /\ job[j].op = "revoke" => Changing(j) /\ job[j].link = NoLink
    /\ job[j].op = "accept" => Accepting(j)

LinkInv == RowsTyped /\ LinksDistinct /\ JobsShape /\ UsedLinkDead

-----------------------------------------------------------------------------
\* The initial rows are empty and no request is in flight.
LEMMA LinkInit == InvitationsInit => LinkInv
<1> SUFFICES ASSUME InvitationsInit PROVE LinkInv
  OBVIOUS
<1> USE InvitationsAssumption DEF InvitationsInit
<1>1. RowsTyped
  BY DEF RowsTyped, InvitationRow, InvitationBody, NoInvitation, Body0, Statuses, OrgRoles
<1>2. LinksDistinct /\ UsedLinkDead
  BY DEF LinksDistinct, UsedLinkDead, NoInvitation
<1>3. JobsShape
  BY DEF JobsShape, FreeJob
<1> QED BY <1>1, <1>2, <1>3 DEF LinkInv

\* A request that ends without a commit leaves the others as they are.
LEMMA DoneStep ==
  ASSUME LinkInv, NEW j \in Jobs, Done(j), inv' = inv, used' = used
  PROVE  LinkInv'
<1>1. job' = [k \in Jobs |-> IF k = j THEN FreeJob ELSE job[k]]
  BY DEF LinkInv, RowsTyped, Done
<1>2. RowsTyped' /\ LinksDistinct' /\ UsedLinkDead'
  BY <1>1 DEF LinkInv, RowsTyped, LinksDistinct, UsedLinkDead
<1>3. JobsShape'
  BY <1>1, InvitationsAssumption
     DEF LinkInv, JobsShape, Creating, Changing, Issuing, Accepting, FreeJob
<1> QED BY <1>2, <1>3 DEF LinkInv

\* A new invitation takes an unused row and a link that nobody has.
LEMMA CreateStep ==
  ASSUME LinkInv, NEW j \in Jobs, NEW a \in Users, NEW o \in Orgs, NEW e \in Users,
         NEW b \in Invites, NEW i \in Invitations, NEW l \in Links,
         Create(j, a, o, e, b, i, l)
  PROVE  LinkInv'
<1>1. PICK p \in Invitations \cup {NoOne} :
        /\ p \in Invitations => inv[p].status = "pending"
        /\ job' = [job EXCEPT ![j] =
             [FreeJob EXCEPT !.op = "create", !.id = i, !.link = l, !.stale = p, !.org = o,
                !.new = [status |-> "pending", late |-> FALSE, link |-> l,
                         org |-> o, email |-> e, body |-> b]]]
  BY InvitationsAssumption DEF Create
<1>2. \A k \in Jobs \ {j} : job'[k] = job[k]
  BY <1>1 DEF LinkInv, RowsTyped
<1>3. /\ job'[j].op = "create" /\ job'[j].id = i /\ job'[j].link = l /\ job'[j].stale = p
      /\ job'[j].new = [status |-> "pending", late |-> FALSE, link |-> l,
                        org |-> o, email |-> e, body |-> b]
  BY <1>1 DEF LinkInv, RowsTyped, FreeJob
<1>4. inv' = inv /\ used' = used /\ FreshLink(l) /\ inv[i].status = "none"
  BY DEF Create
<1>5. \A k \in Jobs : job[k].id # i
  BY DEF Create
<1>6. RowsTyped'
  BY <1>1, <1>4 DEF LinkInv, RowsTyped
<1>7. LinksDistinct' /\ UsedLinkDead'
  BY <1>4 DEF LinkInv, LinksDistinct, UsedLinkDead
<1>8. job'[j].new \in InvitationRow
  BY <1>3, InvitationsAssumption DEF InvitationRow, InvitationBody, Statuses
<1>9. Creating(j)' /\ Issuing(j)'
  BY <1>1, <1>2, <1>3, <1>4, <1>5, <1>8 DEF Creating, Issuing, FreshLink
<1>10. ASSUME NEW k \in Jobs \ {j}
       PROVE  /\ job[k].op = "create" => Creating(k)' /\ Issuing(k)'
              /\ job[k].op = "resend" => Changing(k)' /\ Issuing(k)'
              /\ job[k].op = "revoke" => Changing(k)'
              /\ job[k].op = "accept" => Accepting(k)'
  BY <1>2, <1>3, <1>4, <1>5 DEF LinkInv, JobsShape, Creating, Changing, Issuing, Accepting, FreshLink
<1>11. JobsShape'
  BY <1>2, <1>3, <1>9, <1>10 DEF LinkInv, JobsShape
<1> QED BY <1>6, <1>7, <1>11 DEF LinkInv

\* A resend issues a link that nobody has.
LEMMA ResendStep ==
  ASSUME LinkInv, NEW j \in Jobs, NEW a \in Users, NEW i \in Invitations, NEW l \in Links,
         Resend(j, a, i, l)
  PROVE  LinkInv'
<1>1. \A k \in Jobs \ {j} : job'[k] = job[k]
  BY DEF LinkInv, RowsTyped, Resend
<1>2. /\ job'[j].op = "resend" /\ job'[j].id = i /\ job'[j].link = l
      /\ job'[j].read = inv[i].status
  BY DEF LinkInv, RowsTyped, Resend, FreeJob
<1>3. /\ inv' = inv /\ used' = used /\ FreshLink(l)
      /\ inv[i].status \in {"pending", "expired"}
  BY DEF Resend
<1>4. RowsTyped'
  BY <1>3 DEF LinkInv, RowsTyped, Resend
<1>5. LinksDistinct' /\ UsedLinkDead'
  BY <1>3 DEF LinkInv, LinksDistinct, UsedLinkDead
<1>6. Changing(j)' /\ Issuing(j)'
  BY <1>1, <1>2, <1>3 DEF Changing, Issuing, FreshLink, Statuses
<1>7. ASSUME NEW k \in Jobs \ {j}
      PROVE  /\ job[k].op = "create" => Creating(k)' /\ Issuing(k)'
             /\ job[k].op = "resend" => Changing(k)' /\ Issuing(k)'
             /\ job[k].op = "revoke" => Changing(k)'
             /\ job[k].op = "accept" => Accepting(k)'
  BY <1>1, <1>2, <1>3 DEF LinkInv, JobsShape, Creating, Changing, Issuing, Accepting, FreshLink
<1>8. JobsShape'
  BY <1>1, <1>2, <1>6, <1>7 DEF LinkInv, JobsShape
<1> QED BY <1>4, <1>5, <1>8 DEF LinkInv

\* A revocation loads a row that exists.
LEMMA RevokeStep ==
  ASSUME LinkInv, NEW j \in Jobs, NEW a \in Users, NEW i \in Invitations, Revoke(j, a, i)
  PROVE  LinkInv'
<1>1. \A k \in Jobs \ {j} : job'[k] = job[k]
  BY DEF LinkInv, RowsTyped, Revoke
<1>2. /\ job'[j].op = "revoke" /\ job'[j].id = i /\ job'[j].link = NoLink
      /\ job'[j].read = "none"
  BY DEF LinkInv, RowsTyped, Revoke, FreeJob
<1>3. inv' = inv /\ used' = used /\ inv[i].status \in {"pending", "expired"}
  BY DEF Revoke
<1>4. RowsTyped'
  BY <1>3 DEF LinkInv, RowsTyped, Revoke
<1>5. LinksDistinct' /\ UsedLinkDead'
  BY <1>3 DEF LinkInv, LinksDistinct, UsedLinkDead
<1>6. Changing(j)'
  BY <1>2, <1>3 DEF Changing, Statuses
<1>7. ASSUME NEW k \in Jobs \ {j}
      PROVE  /\ job[k].op = "create" => Creating(k)' /\ Issuing(k)'
             /\ job[k].op = "resend" => Changing(k)' /\ Issuing(k)'
             /\ job[k].op = "revoke" => Changing(k)'
             /\ job[k].op = "accept" => Accepting(k)'
  BY <1>1, <1>2, <1>3, InvitationsAssumption
     DEF LinkInv, JobsShape, Creating, Changing, Issuing, Accepting
<1>8. JobsShape'
  BY <1>1, <1>2, <1>6, <1>7 DEF LinkInv, JobsShape
<1> QED BY <1>4, <1>5, <1>8 DEF LinkInv

\* An acceptance locks an open row that carries the link it was given.
LEMMA AcceptStep ==
  ASSUME LinkInv, NEW j \in Jobs, NEW i \in Invitations, NEW l \in Links, Accept(j, l, i)
  PROVE  LinkInv'
<1>1. \A k \in Jobs \ {j} : job'[k] = job[k]
  BY DEF LinkInv, RowsTyped, Accept
<1>2. job'[j].op = "accept" /\ job'[j].id = i /\ job'[j].link = l
  BY DEF LinkInv, RowsTyped, Accept, FreeJob
<1>3. /\ inv' = inv /\ used' = used /\ ~RowLocked(i)
      /\ inv[i].link = l /\ inv[i].status = "pending"
  BY DEF Accept, Effective
<1>4. RowsTyped'
  BY <1>3 DEF LinkInv, RowsTyped, Accept
<1>5. LinksDistinct' /\ UsedLinkDead'
  BY <1>3 DEF LinkInv, LinksDistinct, UsedLinkDead
<1>6. Accepting(j)'
  BY <1>1, <1>2, <1>3 DEF Accepting, RowLocked
<1>7. ASSUME NEW k \in Jobs \ {j}
      PROVE  /\ job[k].op = "create" => Creating(k)' /\ Issuing(k)'
             /\ job[k].op = "resend" => Changing(k)' /\ Issuing(k)'
             /\ job[k].op = "revoke" => Changing(k)'
             /\ job[k].op = "accept" => Accepting(k)'
  BY <1>1, <1>2, <1>3
     DEF LinkInv, JobsShape, Creating, Changing, Issuing, Accepting, RowLocked
<1>8. JobsShape'
  BY <1>1, <1>2, <1>6, <1>7 DEF LinkInv, JobsShape
<1> QED BY <1>4, <1>5, <1>8 DEF LinkInv

-----------------------------------------------------------------------------
(* The commits.                                                            *)

\* A created invitation brings a link of its own; the row it replaces expires
\* unless an acceptance holds it.
LEMMA CommitCreateStep ==
  ASSUME LinkInv, NEW j \in Jobs, CommitCreate(j)
  PROVE  LinkInv'
<1> DEFINE x == job[j]
<1>1. \A k \in Jobs \ {j} : job'[k] = job[k]
  BY DEF LinkInv, RowsTyped, CommitCreate, Done
<1>2. job'[j] = FreeJob /\ used' = used
  BY DEF LinkInv, RowsTyped, CommitCreate, Done
<1>3. x.op = "create" /\ Creating(j) /\ Issuing(j) /\ ~RowLocked(x.stale)
  BY DEF CommitCreate, LinkInv, JobsShape
<1>4. /\ inv'[x.id] = x.new /\ x.stale # x.id
      /\ \A i \in Invitations \ {x.id} :
           /\ inv'[i].link = inv[i].link
           /\ i # x.stale => inv'[i] = inv[i]
           /\ i = x.stale => inv'[i].status = "expired"
  BY <1>3 DEF CommitCreate, LinkInv, RowsTyped, InvitationRow, Creating
<1>5. RowsTyped'
  BY <1>2, <1>3 DEF CommitCreate, LinkInv, RowsTyped, InvitationRow, Statuses, Creating, Done
<1>6. LinksDistinct' /\ UsedLinkDead'
  BY <1>2, <1>3, <1>4 DEF LinkInv, LinksDistinct, UsedLinkDead, Creating, Issuing
<1>7. ASSUME NEW k \in Jobs \ {j}
      PROVE  /\ job[k].op = "create" => Creating(k)' /\ Issuing(k)'
             /\ job[k].op = "resend" => Changing(k)' /\ Issuing(k)'
             /\ job[k].op = "revoke" => Changing(k)'
             /\ job[k].op = "accept" => Accepting(k)'
  <2>1. \A i \in Invitations : inv[i].status # "none" => inv'[i].status # "none"
    BY <1>3, <1>4 DEF Creating
  <2>2. job[k].id # x.id
    BY <1>3 DEF Creating
  <2>3. FreeJob.id \notin Invitations /\ FreeJob.link \notin Links /\ FreeJob.op = "none"
    BY InvitationsAssumption DEF FreeJob
  <2>4. CASE job[k].op = "create"
    <3>1. Creating(k) /\ Issuing(k)
      BY <2>4 DEF LinkInv, JobsShape
    <3>2. Creating(k)'
      BY <1>1, <1>2, <1>4, <2>2, <2>3, <3>1, <2>4, <1>3 DEF Creating
    <3>3. Issuing(k)'
      BY <1>1, <1>2, <1>3, <1>4, <2>3, <3>1 DEF Issuing, Creating
    <3> QED BY <2>4, <3>2, <3>3
  <2>5. CASE job[k].op = "resend"
    BY <1>1, <1>2, <1>3, <1>4, <2>1, <2>3, <2>5
       DEF LinkInv, JobsShape, Changing, Issuing, Creating
  <2>6. CASE job[k].op = "revoke"
    BY <1>1, <2>1, <2>6 DEF LinkInv, JobsShape, Changing
  <2>7. CASE job[k].op = "accept"
    BY <1>1, <1>2, <1>3, <1>4, <2>2, <2>3, <2>7
       DEF LinkInv, JobsShape, Accepting, RowLocked
  <2> QED BY <2>4, <2>5, <2>6, <2>7
<1>8. JobsShape'
  BY <1>1, <1>2, <1>7 DEF LinkInv, JobsShape, FreeJob
<1> QED BY <1>5, <1>6, <1>8 DEF LinkInv

\* A row that is not locked takes a status, and the link it has or a fresh one:
\* what CommitResend and CommitRevoke share.
LEMMA RowWritten ==
  ASSUME LinkInv, NEW j \in Jobs, job[j].op \in {"resend", "revoke"},
         Done(j), used' = used, ~RowLocked(job[j].id),
         NEW link \in Links \cup {NoLink}, NEW late \in BOOLEAN, NEW status \in Statuses \ {"none"},
         inv' = [inv EXCEPT ![job[j].id] = [@ EXCEPT !.link = link, !.late = late, !.status = status]],
         \/ link = inv[job[j].id].link /\ status # "pending"
         \/ job[j].op = "resend" /\ link = job[j].link
  PROVE  LinkInv'
<1> DEFINE x == job[j]
<1>1. \A k \in Jobs \ {j} : job'[k] = job[k]
  BY DEF LinkInv, RowsTyped, Done
<1>2. job'[j] = FreeJob
  BY DEF LinkInv, RowsTyped, Done
<1>3. x.id \in Invitations /\ inv[x.id].status # "none"
  BY DEF LinkInv, JobsShape, Changing
<1>4. /\ inv'[x.id].link = link /\ inv'[x.id].status = status
      /\ \A i \in Invitations \ {x.id} : inv'[i] = inv[i]
  BY <1>3 DEF LinkInv, RowsTyped, InvitationRow
<1>5. RowsTyped'
  BY <1>3 DEF LinkInv, RowsTyped, InvitationRow, Done
<1>6. \/ link = inv[x.id].link /\ status # "pending"
      \/ /\ link \in Links \ used /\ \A i \in Invitations : inv[i].link # link
         /\ \A k \in Jobs \ {j} : job[k].link # link
  BY DEF LinkInv, JobsShape, Issuing
<1>7. LinksDistinct' /\ UsedLinkDead'
  BY <1>3, <1>4, <1>6 DEF LinkInv, LinksDistinct, UsedLinkDead
<1>8. ASSUME NEW k \in Jobs \ {j}
      PROVE  /\ job[k].op = "create" => Creating(k)' /\ Issuing(k)'
             /\ job[k].op = "resend" => Changing(k)' /\ Issuing(k)'
             /\ job[k].op = "revoke" => Changing(k)'
             /\ job[k].op = "accept" => Accepting(k)'
  <2>1. \A i \in Invitations : inv[i].status # "none" => inv'[i].status # "none"
    BY <1>3, <1>4
  <2>2. FreeJob.id \notin Invitations /\ FreeJob.link \notin Links /\ FreeJob.op = "none"
    BY InvitationsAssumption DEF FreeJob
  <2>3. ASSUME Issuing(k) PROVE Issuing(k)'
    BY <1>1, <1>2, <1>3, <1>4, <1>6, <2>2, <2>3 DEF Issuing
  <2>4. CASE job[k].op = "create"
    <3>1. Creating(k)'
      BY <1>1, <1>2, <1>3, <1>4, <2>1, <2>2, <2>4 DEF LinkInv, JobsShape, Creating
    <3> QED BY <2>3, <2>4, <3>1 DEF LinkInv, JobsShape
  <2>5. CASE job[k].op \in {"resend", "revoke"}
    BY <1>1, <2>1, <2>3, <2>5 DEF LinkInv, JobsShape, Changing
  <2>6. CASE job[k].op = "accept"
    BY <1>1, <1>2, <1>3, <1>4, <2>2, <2>6 DEF LinkInv, JobsShape, Accepting, RowLocked
  <2> QED BY <2>4, <2>5, <2>6
<1>9. JobsShape'
  BY <1>1, <1>2, <1>8 DEF LinkInv, JobsShape, FreeJob
<1> QED BY <1>5, <1>7, <1>9 DEF LinkInv

\* A resend replaces the link, and may open the row again, with a link that was
\* never used.
LEMMA CommitResendStep ==
  ASSUME LinkInv, NEW j \in Jobs, CommitResend(j)
  PROVE  LinkInv'
<1> DEFINE x == job[j]
           status == IF x.read = "pending" THEN inv[x.id].status ELSE "pending"
<1>1. x.op = "resend" /\ Changing(j) /\ Issuing(j)
  BY DEF CommitResend, LinkInv, JobsShape
<1>2. /\ Done(j) /\ used' = used /\ ~RowLocked(x.id)
      /\ inv' = [inv EXCEPT ![x.id].link = x.link, ![x.id].late = FALSE, ![x.id].status = status]
  BY DEF CommitResend, ResendWith
<1>3. inv[x.id] \in InvitationRow /\ inv[x.id].status # "none"
  BY <1>1 DEF Changing, LinkInv, RowsTyped
<1>4. status \in Statuses \ {"none"} /\ x.link \in Links
  BY <1>1, <1>3 DEF Issuing, Statuses, InvitationRow
<1> HIDE DEF status
<1>5. inv' = [inv EXCEPT ![x.id] = [@ EXCEPT !.link = x.link, !.late = FALSE, !.status = status]]
  BY <1>2, <1>3 DEF LinkInv, RowsTyped, InvitationRow
<1> QED BY <1>1, <1>2, <1>4, <1>5, RowWritten

\* A revocation closes the row and leaves its link.
LEMMA CommitRevokeStep ==
  ASSUME LinkInv, NEW j \in Jobs, CommitRevoke(j)
  PROVE  LinkInv'
<1> DEFINE x == job[j]
           row == inv[x.id]
<1>1. x.op = "revoke" /\ row \in InvitationRow
  BY DEF CommitRevoke, LinkInv, RowsTyped, JobsShape, Changing
<1>2. inv' = [inv EXCEPT ![x.id] = [@ EXCEPT !.link = row.link, !.late = row.late, !.status = "revoked"]]
  BY <1>1 DEF CommitRevoke, LinkInv, RowsTyped, InvitationRow
<1>3. row.link \in Links \cup {NoLink} /\ row.late \in BOOLEAN
  BY <1>1 DEF InvitationRow
<1>4. Done(j) /\ used' = used /\ ~RowLocked(x.id)
  BY DEF CommitRevoke
<1>5. "revoked" \in Statuses \ {"none"} /\ "revoked" # "pending"
  BY DEF Statuses
<1> QED BY <1>1, <1>2, <1>3, <1>4, <1>5, RowWritten

\* An acceptance spends the link of the row it holds and closes the row.
LEMMA CommitAcceptStep ==
  ASSUME LinkInv, NEW j \in Jobs, NEW s \in Tokens, CommitAccept(j, s)
  PROVE  LinkInv'
<1> DEFINE x == job[j]
<1>1. \A k \in Jobs \ {j} : job'[k] = job[k]
  BY DEF LinkInv, RowsTyped, CommitAccept, Join, Done
<1>2. job'[j] = FreeJob /\ used' = used \cup {x.link}
  BY DEF LinkInv, RowsTyped, CommitAccept, Join, Done
<1>3. x.op = "accept" /\ Accepting(j)
  BY DEF CommitAccept, LinkInv, JobsShape
<1>4. /\ inv'[x.id].status = "accepted" /\ inv'[x.id].link = x.link
      /\ \A i \in Invitations \ {x.id} : inv'[i] = inv[i]
  BY <1>3 DEF CommitAccept, Join, LinkInv, RowsTyped, InvitationRow, Accepting
<1>5. RowsTyped'
  <2>1. inv' = [inv EXCEPT ![x.id].status = "accepted"]
    BY DEF CommitAccept, Join
  <2>2. inv' \in [Invitations -> InvitationRow]
    BY <1>3, <2>1 DEF LinkInv, RowsTyped, InvitationRow, Statuses, Accepting
  <2>3. job' = [job EXCEPT ![j] = FreeJob]
    BY DEF CommitAccept, Join, Done
  <2> QED BY <1>2, <1>3, <2>2, <2>3 DEF LinkInv, RowsTyped, Accepting
<1>6. LinksDistinct' /\ UsedLinkDead'
  BY <1>2, <1>3, <1>4, InvitationsAssumption DEF LinkInv, LinksDistinct, UsedLinkDead, Accepting
<1>7. ASSUME NEW k \in Jobs \ {j}
      PROVE  /\ job[k].op = "create" => Creating(k)' /\ Issuing(k)'
             /\ job[k].op = "resend" => Changing(k)' /\ Issuing(k)'
             /\ job[k].op = "revoke" => Changing(k)'
             /\ job[k].op = "accept" => Accepting(k)'
  <2>1. \A i \in Invitations : inv[i].status # "none" => inv'[i].status # "none"
    BY <1>3, <1>4 DEF Accepting
  <2>2. FreeJob.id \notin Invitations /\ FreeJob.link \notin Links /\ FreeJob.op = "none"
    BY InvitationsAssumption DEF FreeJob
  <2>3. ASSUME Issuing(k) PROVE Issuing(k)'
    BY <1>1, <1>2, <1>3, <1>4, <2>2, <2>3 DEF Issuing, Accepting
  <2>4. CASE job[k].op = "create"
    <3>1. Creating(k)'
      BY <1>1, <1>2, <1>3, <1>4, <2>1, <2>2, <2>4 DEF LinkInv, JobsShape, Creating, Accepting
    <3> QED BY <2>3, <2>4, <3>1 DEF LinkInv, JobsShape
  <2>5. CASE job[k].op \in {"resend", "revoke"}
    BY <1>1, <2>1, <2>3, <2>5 DEF LinkInv, JobsShape, Changing
  <2>6. CASE job[k].op = "accept"
    BY <1>1, <1>2, <1>3, <1>4, <2>2, <2>6 DEF LinkInv, JobsShape, Accepting
  <2> QED BY <2>4, <2>5, <2>6
<1>8. JobsShape'
  BY <1>1, <1>2, <1>7 DEF LinkInv, JobsShape, FreeJob
<1> QED BY <1>5, <1>6, <1>8 DEF LinkInv

\* Time changes no status and no link.
LEMMA ExpireStep ==
  ASSUME LinkInv, NEW i \in Invitations, Expire(i)
  PROVE  LinkInv'
<1>1. /\ job' = job /\ used' = used
      /\ \A k \in Invitations : inv'[k].status = inv[k].status /\ inv'[k].link = inv[k].link
  BY DEF Expire, LinkInv, RowsTyped, InvitationRow
<1>2. RowsTyped'
  BY <1>1 DEF Expire, LinkInv, RowsTyped, InvitationRow
<1>3. LinksDistinct' /\ UsedLinkDead'
  BY <1>1 DEF LinkInv, LinksDistinct, UsedLinkDead
<1>4. JobsShape'
  BY <1>1 DEF LinkInv, JobsShape, Creating, Changing, Issuing, Accepting
<1> QED BY <1>2, <1>3, <1>4 DEF LinkInv

\* The invariant is inductive; what membership requests do does not touch it.
LEMMA LinkStep ==
  ASSUME LinkInv, [InvitationsNext]_ivars
  PROVE  LinkInv'
<1>1. ASSUME NEW j \in Jobs, Work(j) PROVE LinkInv'
  <2>1. CASE Abandon(j)
    BY <2>1, <1>1, DoneStep DEF Abandon
  <2> QED BY <1>1, <2>1, CreateStep, ResendStep, RevokeStep, AcceptStep, CommitCreateStep,
             CommitResendStep, CommitRevokeStep, CommitAcceptStep DEF Work
<1>2. ASSUME UNCHANGED <<inv, job, used>> PROVE LinkInv'
  BY <1>2 DEF LinkInv, RowsTyped, LinksDistinct, UsedLinkDead, JobsShape,
              Creating, Changing, Issuing, Accepting
<1> QED BY <1>1, <1>2, ExpireStep DEF InvitationsNext, ivars

\* The invariant holds in every reachable state.
LEMMA LinkInvHolds == InvitationsSpec => []LinkInv
BY LinkInit, LinkStep, PTL DEF InvitationsSpec

-----------------------------------------------------------------------------
\* A link that was accepted never belongs to an invitation that can be accepted
\* again, whatever creations, resends, revocations and acceptances race.
THEOREM UsedLinkDeadHolds == InvitationsSpec => []UsedLinkDead
<1>1. LinkInv => UsedLinkDead
  BY DEF LinkInv
<1> QED BY <1>1, LinkInvHolds, PTL

\* An acceptance commits only an invitation that is still open and still
\* carries the link that was presented: the lock on its row is enough.
THEOREM AcceptanceCurrentHolds == InvitationsSpec => AcceptanceCurrent
<1>1. LinkInv /\ [InvitationsNext]_ivars =>
        [\A j \in Jobs :
           job[j].op = "accept" /\ used' # used /\ job'[j].op = "none" =>
             inv[job[j].id].status = "pending" /\ inv[job[j].id].link = job[j].link]_ivars
  BY DEF LinkInv, JobsShape, Accepting
<1> QED BY <1>1, LinkInvHolds, PTL DEF AcceptanceCurrent, InvitationsSpec
=============================================================================
