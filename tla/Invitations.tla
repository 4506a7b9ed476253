----------------------------- MODULE Invitations -----------------------------
(***************************************************************************)
(* Organization invitations next to the membership service.                *)
(*                                                                         *)
(* Every request loads an invitation, checks it and commits; between the   *)
(* two others commit.  accept_invitation alone reads its invitation FOR    *)
(* UPDATE: resends, revocations and other acceptances of it wait.  Every   *)
(* commit writes an audit row, whose foreign key waits for a locked        *)
(* organization row.                                                       *)
(*                                                                         *)
(* A link stands for a raw token and its hash.  The delivery of the mail,  *)
(* which a second commit records in columns of its own, is abstracted.     *)
(***************************************************************************)
EXTENDS Membership

CONSTANTS
  Invitations,  \* invitation ids that may be allocated
  Links,        \* tokens that may be issued
  Jobs,         \* invitation requests that may be in flight at a time
  Invites,      \* InvitationCreate bodies clients send
  NoLink

ASSUME InvitationsAssumption ==
  /\ NoOne \notin Invitations /\ NoLink \notin Links
  /\ Invites \subseteq [role : OrgRoles, assign : [Workspaces -> WsRoles \cup {"omit"}]]

VARIABLES
  inv,     \* OrganizationInvitation rows
  job,     \* the invitation requests in flight
  used     \* links whose acceptance was committed

ivars == <<vars, inv, job, used>>

Statuses == {"none", "pending", "expired", "accepted", "revoked"}
Body0 == [role |-> "member", assign |-> [w \in Workspaces |-> "omit"]]
NoInvitation == [status |-> "none", late |-> FALSE, link |-> NoLink,
                 org |-> NoOne, email |-> NoOne, body |-> Body0]

\* id: the invitation; read: its status as loaded; link: the token issued or
\* presented; stale: the expired row a new invitation replaces.  The other
\* fields are the membership rows an acceptance loaded and will flush.
FreeJob == [op |-> "none", id |-> NoOne, read |-> "none", link |-> NoLink, stale |-> NoOne,
            new |-> NoInvitation, org |-> NoOne, target |-> NoOne, joins |-> FALSE,
            seen |-> Absent, row |-> Absent, wsSeen |-> NoWsRows, wsRow |-> NoWsRows]

InvitationTypeOK ==
  /\ \A i \in Invitations : inv[i].status \in Statuses /\ inv[i].link \in Links \cup {NoLink}
  /\ \A j \in Jobs : job[j].op \in {"none", "create", "resend", "revoke", "accept"}
  /\ used \subseteq Links

-----------------------------------------------------------------------------
OrgAdminScope(o, a) == Authenticated(a) /\ HasAdminScope(o, a) /\ orgMem[o][a].role = ORG_ADMIN

\* effective_invitation_status
Effective(row) == IF row.status = "pending" /\ row.late THEN "expired" ELSE row.status

\* Mutation: invitation_by_token without for_update.
NotLocked(i) == FALSE

\* A request is between its SELECT ... FOR UPDATE of the row and its end.
RowLocked(i) == \E j \in Jobs : job[j].op = "accept" /\ job[j].id = i

\* Tokens are random: none is issued twice.
FreshLink(l) ==
  /\ l \notin used
  /\ \A i \in Invitations : inv[i].link # l
  /\ \A j \in Jobs : job[j].link # l

OrgFree(o) == orgLock[o] = NoOne

Done(j) == job' = [job EXCEPT ![j] = FreeJob]

-----------------------------------------------------------------------------
\* _issue_invitation: the checks.  select(...).first() returns any of the
\* pending rows of the e-mail address; an expired one is closed.
Create(j, a, o, e, b, i, l) ==
  /\ job[j].op = "none"
  /\ OrgAdminScope(o, a)
  /\ \A w \in Workspaces : b.assign[w] # "omit" => OrgOf[w] = o /\ WsCreated(w)
  /\ ~orgMem[o][e].active
  /\ ~ActiveElsewhere(o, e)
  /\ inv[i].status = "none" /\ \A k \in Jobs : job[k].id # i
  /\ FreshLink(l)
  /\ LET pending == {p \in Invitations :
                       inv[p].status = "pending" /\ inv[p].org = o /\ inv[p].email = e} IN
     \E p \in pending \cup {NoOne} :
       /\ IF p = NoOne THEN pending = {} ELSE Effective(inv[p]) = "expired"
       /\ job' = [job EXCEPT ![j] =
            [FreeJob EXCEPT !.op = "create", !.id = i, !.link = l, !.stale = p, !.org = o,
               !.new = [status |-> "pending", late |-> FALSE, link |-> l,
                        org |-> o, email |-> e, body |-> b]]]
  /\ UNCHANGED <<vars, inv, used>>

CommitCreate(j) ==
  LET x == job[j] IN
  /\ x.op = "create"
  /\ OrgFree(x.org)
  /\ ~RowLocked(x.stale)
  /\ inv' = [k \in Invitations |-> IF k = x.id THEN x.new
                                   ELSE IF k = x.stale THEN [inv[k] EXCEPT !.status = "expired"]
                                   ELSE inv[k]]
  /\ Done(j)
  /\ UNCHANGED <<vars, used>>

\* resend_invitation refuses an accepted or a revoked invitation as loaded.
Resend(j, a, i, l) ==
  /\ job[j].op = "none"
  /\ inv[i].status \in {"pending", "expired"}
  /\ OrgAdminScope(inv[i].org, a)
  /\ FreshLink(l)
  /\ job' = [job EXCEPT ![j] = [FreeJob EXCEPT !.op = "resend", !.id = i, !.link = l,
                                  !.read = inv[i].status, !.org = inv[i].org]]
  /\ UNCHANGED <<vars, inv, used>>

ResendWith(j, link, status) ==
  LET x == job[j] IN
  /\ x.op = "resend"
  /\ OrgFree(x.org) /\ ~RowLocked(x.id)
  /\ inv' = [inv EXCEPT ![x.id].link = link, ![x.id].late = FALSE, ![x.id].status = status]
  /\ Done(j)
  /\ UNCHANGED <<vars, used>>

\* Mutations: the link that was issued first stays valid; a status of its own.
ResendKeepsLink(j) == job[j].op = "resend" /\ ResendWith(j, inv[job[j].id].link, "pending")
ResendMarked(j) == ResendWith(j, job[j].link, "resent")

\* status is written only if it was not "pending" when it was loaded.
CommitResend(j) ==
  /\ job[j].op = "resend"
  /\ ResendWith(j, job[j].link,
                IF job[j].read = "pending" THEN inv[job[j].id].status ELSE "pending")

\* revoke_invitation refuses an accepted invitation as loaded; revoking twice
\* does nothing.
Revoke(j, a, i) ==
  /\ job[j].op = "none"
  /\ inv[i].status \in {"pending", "expired"}
  /\ OrgAdminScope(inv[i].org, a)
  /\ job' = [job EXCEPT ![j] = [FreeJob EXCEPT !.op = "revoke", !.id = i, !.org = inv[i].org]]
  /\ UNCHANGED <<vars, inv, used>>

CommitRevoke(j) ==
  LET x == job[j] IN
  /\ x.op = "revoke"
  /\ OrgFree(x.org) /\ ~RowLocked(x.id)
  /\ inv' = [inv EXCEPT ![x.id].status = "revoked"]
  /\ Done(j)
  /\ UNCHANGED <<vars, used>>

-----------------------------------------------------------------------------
\* accept_organization_invitation: the invitation is locked and checked, and
\* the memberships of its user are loaded.  An address without an account
\* signs up with it; the owner of an account must be signed in.
Accept(j, l, i) ==
  LET row == inv[i]
      e == row.email
      o == row.org
      wanted == row.body.assign IN
  /\ job[j].op = "none"
  /\ row.link = l /\ ~RowLocked(i)
  /\ Effective(row) = "pending"
  /\ e \in accounts => Authenticated(e)
  /\ ~ActiveElsewhere(o, e)
  /\ job' = [job EXCEPT ![j] =
       [FreeJob EXCEPT !.op = "accept", !.id = i, !.link = l, !.org = o, !.target = e,
          !.joins = e \notin accounts,
          !.seen = orgMem[o][e], !.row = [role |-> row.body.role, active |-> TRUE],
          !.wsSeen = [w \in Workspaces |-> IF wanted[w] = "omit" THEN Absent ELSE wsMem[w][e]],
          !.wsRow = [w \in Workspaces |-> IF wanted[w] = "omit" THEN Absent
                                          ELSE [role |-> wanted[w], active |-> TRUE]]]]
  /\ UNCHANGED <<vars, inv, used>>

\* The e-mail address of a new account is unique.
AcceptConflicts(x) == ViolatesUnique(x) \/ (x.joins /\ x.target \in accounts)

\* What an acceptance writes, with a session s for a new account.
Join(j, s) ==
  LET x == job[j] IN
  /\ x.op = "accept"
  /\ ~AcceptConflicts(x)
  /\ orgMem' = [orgMem EXCEPT ![x.org][x.target] = FlushedRow(x)]
  /\ wsMem' = [w \in Workspaces |-> [wsMem[w] EXCEPT ![x.target] = FlushedWsRow(x, w)]]
  /\ accounts' = accounts \cup {x.target}
  /\ IF x.joins THEN FreeToken(s) /\ session' = [session EXCEPT ![s] = x.target]
                ELSE UNCHANGED session
  /\ inv' = [inv EXCEPT ![x.id].status = "accepted"]
  /\ used' = used \cup {x.link}
  /\ Done(j)
  /\ UNCHANGED <<orgLock, txn, answer>>

\* The audit row waits for the organization row.
CommitAccept(j, s) == job[j].op = "accept" /\ OrgFree(job[j].org) /\ Join(j, s)

\* A conflict, a lost connection or a request that is dropped.
Abandon(j) ==
  /\ job[j].op # "none"
  /\ Done(j)
  /\ UNCHANGED <<vars, inv, used>>

\* expires_at passes.
Expire(i) ==
  /\ inv[i].status = "pending" /\ ~inv[i].late
  /\ inv' = [inv EXCEPT ![i].late = TRUE]
  /\ UNCHANGED <<vars, job, used>>

-----------------------------------------------------------------------------
InvitationsInit ==
  /\ Init
  /\ inv = [i \in Invitations |-> NoInvitation]
  /\ job = [j \in Jobs |-> FreeJob]
  /\ used = {}

Work(j) ==
  \/ \E a, e \in Users, o \in Orgs, b \in Invites, i \in Invitations, l \in Links :
       Create(j, a, o, e, b, i, l)
  \/ \E i \in Invitations, l \in Links : Accept(j, l, i) \/ \E a \in Users : Resend(j, a, i, l)
  \/ \E a \in Users, i \in Invitations : Revoke(j, a, i)
  \/ CommitCreate(j) \/ CommitResend(j) \/ CommitRevoke(j)
  \/ \E s \in Tokens : CommitAccept(j, s)
  \/ Abandon(j)

InvitationsNext ==
  \/ \E j \in Jobs : Work(j)
  \/ \E i \in Invitations : Expire(i)
  \/ Next /\ UNCHANGED <<inv, job, used>>

InvitationsSpec == InvitationsInit /\ [][InvitationsNext]_ivars
-----------------------------------------------------------------------------
(* Properties.                                                             *)

\* "Invitation tokens are single-use": a link that was accepted never belongs to
\* an invitation that can be accepted, whatever resends and revocations race.
UsedLinkDead == \A i \in Invitations : inv[i].link \in used => inv[i].status # "pending"

\* An acceptance commits only an invitation that is open at that moment and
\* still carries the link that was presented: neither a revocation nor a resend
\* that was committed meanwhile is overrun.
AcceptanceCurrent ==
  [][\A j \in Jobs :
       job[j].op = "accept" /\ used' # used /\ job'[j].op = "none" =>
         inv[job[j].id].status = "pending" /\ inv[job[j].id].link = job[j].link]_ivars

\* invitations.py:226, "Accepted invitations cannot be revoked".
AcceptedNotRevoked ==
  [][\A i \in Invitations :
       inv[i].status = "accepted" => inv'[i].status # "revoked"]_ivars

\* invitations.py:91, "A pending invitation already exists for this email".
OnePendingInvitation ==
  \A i, k \in Invitations :
    Effective(inv[i]) = "pending" /\ Effective(inv[k]) = "pending"
      /\ inv[i].email = inv[k].email /\ inv[i].org = inv[k].org => i = k

\* invitations.py:186, "Only pending or expired invitations can be resent".
ClosedNotReopened ==
  [][\A i \in Invitations :
       inv[i].status \in {"accepted", "revoked"} => inv'[i].status # "pending"]_ivars
=============================================================================
