------------------------------- MODULE Console -------------------------------
(***************************************************************************)
(* One tab of the web console: the session token and the workspace kept in *)
(* sessionStorage, AuthProvider, AdminContext, the shared context page of  *)
(* the console, the dashboard and the page of an invitation.               *)
(*                                                                         *)
(* Handlers run to their next await; a request carries the token and the   *)
(* workspace header read when it is sent, the server answers in any order, *)
(* and the rest of the handler runs when the answer arrives, whether or    *)
(* not the page it was written for is still there.                         *)
(***************************************************************************)
EXTENDS Integers, Sequences, FiniteSets

CONSTANTS
  Account,
  Invited,       \* the account an invitation is open for
  Workspace,
  NoOne, NoWhere,
  Reassigned,    \* accounts that lose workspaces
  Slots,         \* requests of the tab in flight at a time, as many as its members (bound)
  MaxSessions    \* sessions the server issues to an account (bound)

ASSUME ConsoleAssumption ==
  /\ Invited \in Account /\ Reassigned \subseteq Account /\ NoOne \notin Account /\ NoWhere \notin Workspace
  /\ Account \cap {"unknown", "offline", "out"} = {}
  /\ Slots # {} /\ MaxSessions \in Nat \ {0}

VARIABLES
  owner,       \* AuthSession: the account of each token that was issued
  revoked,     \* tokens that are no longer good
  registered,  \* accounts that exist
  members,     \* workspaces each account belongs to
  admins,      \* workspaces each account administers
  token,       \* sessionStorage: lumeward_session_token, 0 for none
  stored,      \* sessionStorage: lumeward_workspace_id
  status,      \* AuthProvider: unknown, offline, out or the account signed in
  route,       \* the page of App.tsx
  preview,     \* InvitationPage
  adm,         \* AdminContext and the page inside AdminShell
  ctx,         \* ContextPage
  dash,        \* Dashboard
  net,         \* requests in flight
  overlapped   \* history: since the tab was loaded, a sign-in was submitted while
               \* another one was in flight

serverVars == <<owner, revoked, registered, members, admins>>
pageVars == <<preview, adm, ctx, dash>>
consoleVars == <<owner, revoked, registered, members, admins,
                 token, stored, status, route, preview, adm, ctx, dash, net, overlapped>>

Tokens == 0..Len(owner)
Owner(t) == IF t = 0 \/ t \in revoked THEN NoOne ELSE owner[t]

AuthOps == {"status", "login", "logout", "accept"}
Ops == AuthOps \cup {"preview", "bootstrap", "write", "context", "share", "list", "generate"}
\* What follows the answer: enter navigates to /, join and joined lead to the
\* acceptance of an invitation, load is aborted with its page, form ends a form.
Flows == {"stay", "enter", "join", "joined", "load", "again", "form"}
Routes == {"landing", "signin", "admin", "dashboard", "invite"}

NoAnswer == [got |-> FALSE, ok |-> FALSE, who |-> NoOne, tok |-> 0, list |-> {}]
Idle == [op |-> "none", tok |-> 0, ws |-> NoWhere, shown |-> NoWhere, live |-> FALSE,
         flow |-> "stay", who |-> NoOne, ans |-> NoAnswer]

\* apiRequest: what the request carries is read from sessionStorage here.  ws is
\* the explicit X-Workspace-ID of the call, or the stored one, where it is looked at.
Request(op, flow, tok, ws) ==
  LET header == IF op \in {"context", "share", "generate"} THEN ws ELSE NoWhere
  IN  [op |-> op, tok |-> tok, ws |-> header, shown |-> header, live |-> TRUE, flow |-> flow,
       who |-> NoOne, ans |-> NoAnswer]

InFlight(op) == \E i \in Slots : net[i].op = op /\ net[i].live

\* From the submission of a form of sign-in or acceptance to its navigate.
SigningIn(r) == r.op \in {"login", "accept"} \/ r.flow \in {"enter", "joined"}

NoAdm == [boot |-> {}, of |-> NoOne, loading |-> FALSE, error |-> FALSE,
          selected |-> NoWhere, page |-> "manage"]
NoCtx == [on |-> FALSE, at |-> NoWhere, of |-> NoOne, loading |-> FALSE, busy |-> FALSE]
NoDash == [list |-> {}, of |-> NoOne, selected |-> NoWhere, loaded |-> FALSE,
           result |-> NoWhere, by |-> NoOne, loading |-> FALSE]

SomeIdle(nets) == CHOOSE i \in Slots : nets[i] = Idle

\* A tab that is loaded asks for the status.
Mount(tok, ws) ==
  LET none == [i \in Slots |-> Idle]
  IN  [none EXCEPT ![SomeIdle(none)] = Request("status", "stay", tok, ws)]

ConsoleTypeOK ==
  /\ owner \in Seq(Account) /\ revoked \subseteq 1..Len(owner)
  /\ registered \subseteq Account
  /\ members \in [Account -> SUBSET Workspace] /\ admins \in [Account -> SUBSET Workspace]
  /\ token \in Tokens /\ stored \in Workspace \cup {NoWhere}
  /\ status \in Account \cup {"unknown", "offline", "out"} /\ route \in Routes
  /\ preview \in {"none", "loading", "new", "existing", "error"}
  /\ adm.boot \subseteq Workspace /\ adm.selected \in Workspace \cup {NoWhere}
  /\ overlapped \in BOOLEAN
  /\ \A i \in Slots : net[i] # Idle => net[i].op \in Ops /\ net[i].flow \in Flows /\ net[i].tok \in Tokens

\* The tab is opened at / or with the link of an invitation.
ConsoleInit ==
  /\ owner = <<>> /\ revoked = {}
  /\ registered \in {Account, Account \ {Invited}}
  /\ members = [a \in Account |-> Workspace] /\ admins = [a \in Account |-> Workspace]
  /\ token = 0 /\ stored = NoWhere
  /\ status = "unknown" /\ route \in {"landing", "invite"}
  /\ preview = "none" /\ adm = NoAdm /\ ctx = NoCtx /\ dash = NoDash
  /\ net = Mount(0, NoWhere)
  /\ overlapped = FALSE

-----------------------------------------------------------------------------
(* Mounting and unmounting. *)

\* Mutation: the answers of a page that has gone are still shown.
LeaveNothing(r) == r

\* A page that goes takes its aborted requests and those whose answers it would
\* only have shown with it; the others go on without it, a sign-in to its end.
Leave(r) ==
  IF r.op \in AuthOps \cup {"none"} /\ ~SigningIn(r) THEN r
  ELSE IF r.op \in {"context", "preview"} \/ (r.op = "bootstrap" /\ r.flow = "load") THEN Idle
  ELSE [r EXCEPT !.live = FALSE]

\* ContextPage goes, AdminContext stays.
LeaveContext(r) ==
  IF r.op = "context" THEN Idle
  ELSE IF r.op = "share" THEN [r EXCEPT !.live = FALSE] ELSE r

Left(nets) == [k \in Slots |-> Leave(nets[k])]

\* The mount effects of a page: its state is fresh, and it sends its first request.
Enter(nets, to, tok, ws) ==
  /\ route' = to
  /\ ctx' = NoCtx
  /\ preview' = IF to = "invite" THEN "loading" ELSE "none"
  /\ adm' = IF to \in {"landing", "admin"} THEN [NoAdm EXCEPT !.loading = TRUE, !.selected = ws] ELSE NoAdm
  /\ dash' = NoDash
  /\ IF to = "signin" THEN net' = Left(nets)
     ELSE /\ \E k \in Slots : Left(nets)[k] = Idle
          /\ net' = [Left(nets) EXCEPT ![SomeIdle(Left(nets))] =
               Request(CASE to = "dashboard" -> "list" [] to = "invite" -> "preview" [] OTHER -> "bootstrap",
                       "load", IF to = "invite" THEN 0 ELSE tok, ws)]

\* The guards of AppRoutes.
Redirect(s, to) ==
  IF s = "out" /\ to \in {"landing", "admin", "dashboard"} THEN "signin"
  ELSE IF s \in Account /\ to = "signin" THEN "landing" ELSE to

\* setStatus, then the page that is shown.
SetStatus(nets, s, to, tok, ws) ==
  /\ status' = s
  /\ IF s = "offline"
     THEN /\ net' = Left(nets)
          /\ route' = to /\ preview' = "none" /\ adm' = NoAdm /\ ctx' = NoCtx /\ dash' = NoDash
     ELSE IF status \notin {"unknown", "offline"} /\ Redirect(s, to) = route
     THEN net' = nets /\ UNCHANGED <<route, preview, adm, ctx, dash>>
     ELSE Enter(nets, Redirect(s, to), tok, ws)

-----------------------------------------------------------------------------
(* AuthProvider. *)

\* Mutation: a token is only thrown away when the server was not reached.
ClearsOffline(s) == s = "offline"
Clears(s) == s \in {"offline", "out"}

\* loadStatus clears whatever token is there when the answer arrives, and the
\* chosen workspace with it.  Joining goes on with the acceptance.
StatusArrives(i) ==
  LET r == net[i]
      s == IF ~r.ans.ok THEN "offline" ELSE IF r.ans.who = NoOne THEN "out" ELSE r.ans.who
      tok == IF Clears(s) THEN 0 ELSE token
      ws == IF Clears(s) /\ (token # 0 \/ s = "offline") THEN NoWhere ELSE stored
      next == IF r.flow = "joined"
              THEN [Request("accept", "enter", tok, ws) EXCEPT !.live = r.live] ELSE Idle
  IN
  /\ r.op = "status"
  /\ token' = tok /\ stored' = ws
  /\ SetStatus([net EXCEPT ![i] = next], s, IF r.flow = "enter" THEN "landing" ELSE route, tok, ws)

\* login: a failure leaves everything as it was.
LoginArrives(i) ==
  LET r == net[i] IN
  /\ r.op = "login"
  /\ token' = IF r.ans.ok THEN r.ans.tok ELSE token
  /\ net' = [net EXCEPT ![i] =
       IF r.ans.ok
       THEN [Request("status", IF r.flow = "join" THEN "joined" ELSE "enter", token', stored)
               EXCEPT !.live = r.live]
       ELSE Idle]
  /\ UNCHANGED <<stored, status, route, preview, adm, ctx, dash>>

\* logout: the token goes even when the server was not reached.
LogoutArrives(i) ==
  /\ net[i].op = "logout"
  /\ token' = 0 /\ stored' = NoWhere
  /\ net' = [net EXCEPT ![i] = Request("status", "stay", 0, NoWhere)]
  /\ UNCHANGED <<status, route, preview, adm, ctx, dash>>

\* InvitationPage.accept after the acceptance: only a new account gets a token.
AcceptArrives(i) ==
  LET r == net[i] IN
  /\ r.op = "accept"
  /\ token' = IF r.ans.ok /\ r.ans.tok # 0 THEN r.ans.tok ELSE token
  /\ net' = [net EXCEPT ![i] =
       IF r.ans.ok THEN [Request("status", "enter", token', stored) EXCEPT !.live = r.live] ELSE Idle]
  /\ UNCHANGED <<stored, status, route, preview, adm, ctx, dash>>

-----------------------------------------------------------------------------
(* AdminContext. *)

\* The effect of a selection on ContextPage: the load that is left is aborted.
Aborted(nets) ==
  [k \in Slots |-> IF nets[k].op = "context" /\ nets[k].flow = "load" THEN Idle ELSE nets[k]]
LoadContext(nets, ws) ==
  [Aborted(nets) EXCEPT ![SomeIdle(Aborted(nets))] = Request("context", "load", token, ws)]

\* Mutation: the stored workspace is trusted.
ChosenStored(list) == IF stored # NoWhere THEN {stored} ELSE list

\* load: a stored workspace that is not listed gives way to the first that is.
\* Storage is written even when the provider has gone.
Chosen(list) == IF stored \in list THEN {stored} ELSE list

BootstrapArrives(i) ==
  LET r == net[i]
      done == [net EXCEPT ![i] = Idle]
  IN
  /\ r.op = "bootstrap"
  /\ UNCHANGED <<token, status>>
  /\ \/ /\ r.ans.ok
        /\ \E w \in Chosen(r.ans.list) :
             /\ stored' = w
             /\ CASE ~r.live -> net' = done /\ UNCHANGED <<route, preview, adm, ctx, dash>>
                  [] r.live /\ route = "landing" -> Enter(done, "admin", token, w)
                  [] OTHER ->
                       /\ adm' = [adm EXCEPT !.boot = r.ans.list, !.of = r.ans.who,
                                             !.loading = FALSE, !.selected = w]
                       /\ IF adm.page = "context" /\ ~adm.error /\ (~ctx.on \/ w # adm.selected)
                          THEN /\ ctx' = IF ctx.on THEN [ctx EXCEPT !.loading = TRUE]
                                         ELSE [NoCtx EXCEPT !.on = TRUE, !.loading = TRUE]
                               /\ net' = LoadContext(done, w)
                          ELSE net' = done /\ UNCHANGED ctx
                       /\ UNCHANGED <<route, preview, dash>>
     \/ /\ ~r.ans.ok
        /\ UNCHANGED stored
        /\ CASE ~r.live -> net' = done /\ UNCHANGED <<route, preview, adm, ctx, dash>>
             [] r.live /\ route = "landing" -> Enter(done, "dashboard", token, stored)
             [] OTHER -> /\ adm' = [adm EXCEPT !.error = TRUE, !.loading = FALSE]
                         /\ ctx' = NoCtx
                         /\ net' = [k \in Slots |-> LeaveContext(done[k])]
                         /\ UNCHANGED <<route, preview, dash>>

ContextAfterRefresh == NoCtx

\* refresh after a rename or a new workspace: AdminShell shows the spinner, which
\* takes the page inside it down.
WriteArrives(i) ==
  LET r == net[i]
      next == IF r.ans.ok THEN [Request("bootstrap", "again", token, stored) EXCEPT !.live = r.live] ELSE Idle
  IN
  /\ r.op = "write"
  /\ IF r.ans.ok /\ r.live
     THEN /\ adm' = [adm EXCEPT !.loading = TRUE, !.error = FALSE]
          /\ ctx' = ContextAfterRefresh
          /\ net' = [k \in Slots |-> IF k = i THEN next ELSE LeaveContext(net[k])]
     ELSE net' = [net EXCEPT ![i] = next] /\ UNCHANGED <<adm, ctx>>
  /\ UNCHANGED <<token, stored, status, route, preview, dash>>

-----------------------------------------------------------------------------
(* ContextPage. *)

\* The list and the tags of the workspace the load was started for.
ContextArrives(i) ==
  LET r == net[i] IN
  /\ r.op = "context"
  /\ ctx' = [ctx EXCEPT !.at = IF r.ans.ok THEN r.ws ELSE @,
                        !.of = IF r.ans.ok THEN r.ans.who ELSE @,
                        !.loading = FALSE,
                        !.busy = IF r.flow = "form" THEN FALSE ELSE @]
  /\ net' = [net EXCEPT ![i] = Idle]
  /\ UNCHANGED <<token, stored, status, route, preview, adm, dash>>

\* share and upload load again for the workspace they were given to.
ShareArrives(i) ==
  LET r == net[i] IN
  /\ r.op = "share"
  /\ IF r.live /\ r.ans.ok
     THEN /\ ctx' = [ctx EXCEPT !.loading = TRUE]
          /\ net' = [net EXCEPT ![i] = Request("context", "form", token, r.ws)]
     ELSE /\ ctx' = IF r.live THEN [ctx EXCEPT !.busy = FALSE] ELSE ctx
          /\ net' = [net EXCEPT ![i] = Idle]
  /\ UNCHANGED <<token, stored, status, route, preview, adm, dash>>

-----------------------------------------------------------------------------
(* Dashboard and InvitationPage. *)

\* The workspaces of the dashboard; storage is written even when it has gone.
ListArrives(i) ==
  LET r == net[i] IN
  /\ r.op = "list"
  /\ net' = [net EXCEPT ![i] = Idle]
  /\ IF r.ans.ok
     THEN \E w \in IF r.ans.list = {} THEN {NoWhere} ELSE Chosen(r.ans.list) :
            /\ stored' = w
            /\ dash' = IF r.live THEN [dash EXCEPT !.list = r.ans.list, !.of = r.ans.who,
                                                    !.selected = w, !.loaded = TRUE] ELSE dash
     ELSE /\ dash' = IF r.live THEN [dash EXCEPT !.loaded = TRUE] ELSE dash
          /\ UNCHANGED stored
  /\ UNCHANGED <<token, status, route, preview, adm, ctx>>

\* handleGenerate: the answer is shown whatever workspace is selected by now.
GenerateArrives(i) ==
  LET r == net[i] IN
  /\ r.op = "generate"
  /\ net' = [net EXCEPT ![i] = Idle]
  /\ dash' = IF ~r.live THEN dash
             ELSE [dash EXCEPT !.loading = FALSE,
                               !.result = IF r.ans.ok THEN r.ws ELSE @,
                               !.by = IF r.ans.ok THEN r.ans.who ELSE @]
  /\ UNCHANGED <<token, stored, status, route, preview, adm, ctx>>

PreviewArrives(i) ==
  /\ net[i].op = "preview"
  /\ preview' = IF ~net[i].ans.ok THEN "error"
                ELSE IF net[i].ans.who = Invited THEN "existing" ELSE "new"
  /\ net' = [net EXCEPT ![i] = Idle]
  /\ UNCHANGED <<token, stored, status, route, adm, ctx, dash>>

-----------------------------------------------------------------------------
(* What the user does. *)

Send(r) ==
  /\ \E k \in Slots : net[k] = Idle
  /\ net' = [net EXCEPT ![SomeIdle(net)] = r]

InShell == route = "admin" /\ status \in Account /\ ~adm.loading /\ ~adm.error

\* The button is disabled while the form on the page is being submitted, which is
\* state of that form: another one that was left behind is not counted.
Submitting == \E i \in Slots : net[i].live /\ SigningIn(net[i])

Overlaps == overlapped' = (overlapped \/ \E i \in Slots : SigningIn(net[i]))

SignIn ==
  /\ route = "signin" /\ status = "out" /\ ~Submitting
  /\ Overlaps
  /\ \E a \in registered : Send([Request("login", "stay", 0, NoWhere) EXCEPT !.who = a])
  /\ UNCHANGED <<token, stored, status, route, preview, adm, ctx, dash>>

\* To the page of sign-up and back, by its links or the buttons of the browser: a
\* fresh form, while what the other one submitted is still on its way.
ReturnToForm ==
  /\ route = "signin" /\ status = "out" /\ Submitting
  /\ net' = Left(net)
  /\ UNCHANGED <<token, stored, status, route, preview, adm, ctx, dash>>

\* An existing user who is not signed in signs in first.
Join ==
  /\ route = "invite" /\ preview \in {"new", "existing"} /\ ~Submitting
  /\ Overlaps
  /\ Send(IF preview = "existing" /\ status \notin Account
          THEN [Request("login", "join", 0, NoWhere) EXCEPT !.who = Invited]
          ELSE Request("accept", "enter", token, stored))
  /\ UNCHANGED <<token, stored, status, route, preview, adm, ctx, dash>>

\* Sign out of the two bars, and Switch account of an invitation: never disabled.
SignOut ==
  /\ status \in Account
  /\ \/ InShell \/ route = "dashboard" \/ (route = "invite" /\ preview = "existing")
  /\ Send(Request("logout", "stay", token, stored))
  /\ UNCHANGED <<token, stored, status, route, preview, adm, ctx, dash>>

SelectWorkspace(w) ==
  /\ InShell /\ w \in adm.boot \ {adm.selected}
  /\ stored' = w
  /\ adm' = [adm EXCEPT !.selected = w]
  /\ IF ctx.on
     THEN /\ \E k \in Slots : Aborted(net)[k] = Idle
          /\ ctx' = [ctx EXCEPT !.loading = TRUE]
          /\ net' = LoadContext(net, w)
     ELSE UNCHANGED <<ctx, net>>
  /\ UNCHANGED <<token, status, route, preview, dash>>

\* The links of AdminShell: another page of the console.
OpenContext ==
  /\ InShell /\ adm.page = "manage"
  /\ \E k \in Slots : net[k] = Idle
  /\ adm' = [adm EXCEPT !.page = "context"]
  /\ ctx' = [NoCtx EXCEPT !.on = TRUE, !.loading = TRUE]
  /\ net' = LoadContext(net, adm.selected)
  /\ UNCHANGED <<token, stored, status, route, preview, dash>>

OpenManage ==
  /\ InShell /\ adm.page = "context"
  /\ adm' = [adm EXCEPT !.page = "manage"]
  /\ ctx' = NoCtx
  /\ net' = [k \in Slots |-> LeaveContext(net[k])]
  /\ UNCHANGED <<token, stored, status, route, preview, dash>>

\* Open workspace, and the buttons back and forward of the browser.
Visit(to) ==
  /\ status \in Account /\ route \in {"admin", "dashboard"} \ {to}
  /\ Enter(net, to, token, stored)
  /\ UNCHANGED <<token, stored, status>>

\* A new name or a new workspace.
Write ==
  /\ InShell /\ adm.page = "manage" /\ ~InFlight("write")
  /\ Send(Request("write", "stay", token, stored))
  /\ UNCHANGED <<token, stored, status, route, preview, adm, ctx, dash>>

Retry ==
  /\ route = "admin" /\ adm.error /\ ~adm.loading
  /\ adm' = [adm EXCEPT !.loading = TRUE, !.error = FALSE]
  /\ Send(Request("bootstrap", "again", token, stored))
  /\ UNCHANGED <<token, stored, status, route, preview, ctx, dash>>

Share ==
  /\ ctx.on /\ ~ctx.busy
  /\ ctx' = [ctx EXCEPT !.busy = TRUE]
  /\ Send(Request("share", "form", token, adm.selected))
  /\ UNCHANGED <<token, stored, status, route, preview, adm, dash>>

\* changeWorkspace clears what the dashboard shows of the other workspace.
ChangeWorkspace(w) ==
  /\ route = "dashboard" /\ status \in Account /\ w \in dash.list \ {dash.selected}
  /\ stored' = w
  /\ dash' = [dash EXCEPT !.selected = w, !.result = NoWhere, !.by = NoOne]
  /\ UNCHANGED <<token, status, route, preview, adm, ctx, net>>

Generate ==
  /\ route = "dashboard" /\ status \in Account /\ dash.selected # NoWhere /\ ~dash.loading
  /\ dash' = [dash EXCEPT !.loading = TRUE, !.result = NoWhere, !.by = NoOne]
  /\ Send([Request("generate", "form", token, stored) EXCEPT !.shown = dash.selected])
  /\ UNCHANGED <<token, stored, status, route, preview, adm, ctx>>

\* The tab is loaded anew, here or with the link of an invitation: what was
\* waiting for an answer is gone, sessionStorage is not.
LoadPage(to) ==
  /\ to \in {route, "invite"}
  /\ status' = "unknown" /\ route' = to
  /\ preview' = "none" /\ adm' = NoAdm /\ ctx' = NoCtx /\ dash' = NoDash
  /\ net' = Mount(token, stored)
  /\ overlapped' = FALSE
  /\ UNCHANGED <<token, stored>>

-----------------------------------------------------------------------------
(* The server, and the network. *)

Answer(i, a) == net' = [net EXCEPT ![i].ans = [a EXCEPT !.got = TRUE]]
Pending(i) == net[i].op # "none" /\ ~net[i].ans.got

\* get_current_principal: an account is behind the token.
Authenticated(who) == who # NoOne

\* build_request_context: the workspace of the header is one of the account's.
MemberOf(who, ws) == Authenticated(who) /\ ws \in members[who]

\* get_admin_scope, and what list_shared_context and the routes that share ask of it.
AdminScope(who) == Authenticated(who) /\ admins[who] # {}
Manages(who, ws) == AdminScope(who) /\ ws \in admins[who]

\* list_admin_tags: ContextPage asks for the list and for the tags together.
ContextListed(who, ws) == Manages(who, ws)

\* An invitation is accepted by the account it was made for; the other answers go
\* to everybody.
Granted(op, who, ws) ==
  CASE op \in {"status", "preview", "logout"} -> TRUE
    [] op = "accept" -> who = Invited
    [] op \in {"bootstrap", "write"} -> AdminScope(who)
    [] op = "list" -> Authenticated(who)
    [] op = "context" -> ContextListed(who, ws)
    [] op = "share" -> Manages(who, ws)
    [] op = "generate" -> MemberOf(who, ws)

\* visible_workspaces of the console, get_workspace_memberships of the dashboard.
VisibleWorkspaces(who) == IF Authenticated(who) THEN admins[who] ELSE {}
WorkspaceMemberships(who) == IF Authenticated(who) THEN members[who] ELSE {}
Listing(op, who) ==
  CASE op = "bootstrap" -> VisibleWorkspaces(who)
    [] op = "list" -> WorkspaceMemberships(who)
    [] OTHER -> {}

\* get_status and inspect_invitation say who is meant.
Named(op, who) ==
  IF op # "preview" THEN who ELSE IF Invited \in registered THEN Invited ELSE NoOne

\* A session starts with a login, and with the acceptance that makes the account.
Starts(r) == r.op = "login" \/ (r.op = "accept" /\ Invited \notin registered)

RevokedBy(r) == IF r.op = "logout" THEN revoked \cup ({r.tok} \ {0}) ELSE revoked

Serve(i) ==
  LET r == net[i]
      who == Owner(r.tok)
      to == IF r.op = "login" THEN r.who ELSE Invited
  IN
  /\ Pending(i)
  /\ IF Starts(r)
     THEN /\ Cardinality({t \in 1..Len(owner) : owner[t] = to}) < MaxSessions
          /\ owner' = Append(owner, to) /\ registered' = registered \cup {to}
          /\ Answer(i, [NoAnswer EXCEPT !.ok = TRUE, !.who = to, !.tok = Len(owner) + 1])
     ELSE /\ Answer(i, IF Granted(r.op, who, r.ws)
                       THEN [NoAnswer EXCEPT !.ok = TRUE, !.who = Named(r.op, who), !.list = Listing(r.op, who)]
                       ELSE NoAnswer)
          /\ UNCHANGED <<owner, registered>>
  /\ revoked' = RevokedBy(r)
  /\ UNCHANGED <<members, admins, token, stored, status, route, preview, adm, ctx, dash, overlapped>>

\* The request or its answer is lost, or the answer is an error.
Fail(i) ==
  /\ net[i].op # "none" /\ net[i].ans # [NoAnswer EXCEPT !.got = TRUE]
  /\ Answer(i, NoAnswer)
  /\ UNCHANGED <<owner, revoked, registered, members, admins, token, stored, status, route, preview, adm, ctx,
                 dash, overlapped>>

\* A deactivation, an expiry, or another tab.
SessionEnds(t) ==
  /\ t \in 1..Len(owner) \ revoked
  /\ revoked' = revoked \cup {t}
  /\ UNCHANGED <<owner, registered, members, admins, token, stored, status, route, preview, adm, ctx, dash, net,
                 overlapped>>

\* Another administrator takes a workspace from an account; one without any is
\* answered like a failure.
Unassign(a, w) ==
  /\ w \in admins[a] /\ admins[a] # {w}
  /\ admins' = [admins EXCEPT ![a] = @ \ {w}]
  /\ members' = [members EXCEPT ![a] = @ \ {w}]
  /\ UNCHANGED <<owner, revoked, registered, token, stored, status, route, preview, adm, ctx, dash, net,
                 overlapped>>

-----------------------------------------------------------------------------
Arrive(i) ==
  /\ net[i].ans.got
  /\ UNCHANGED <<serverVars, overlapped>>
  /\ \/ StatusArrives(i) \/ LoginArrives(i) \/ LogoutArrives(i) \/ AcceptArrives(i)
     \/ BootstrapArrives(i) \/ WriteArrives(i) \/ ContextArrives(i) \/ ShareArrives(i)
     \/ ListArrives(i) \/ GenerateArrives(i) \/ PreviewArrives(i)

UserActs ==
  /\ UNCHANGED serverVars
  /\ \/ SignIn \/ Join \/ \E to \in Routes : LoadPage(to)
     \/ /\ UNCHANGED overlapped
        /\ \/ ReturnToForm \/ SignOut \/ OpenContext \/ OpenManage \/ Write \/ Retry
           \/ Share \/ Generate
           \/ \E w \in Workspace : SelectWorkspace(w) \/ ChangeWorkspace(w)
           \/ \E to \in {"admin", "dashboard"} : Visit(to)

ConsoleNext ==
  \/ \E i \in Slots : Arrive(i) \/ Serve(i) \/ Fail(i)
  \/ UserActs
  \/ \E t \in 1..Len(owner) : SessionEnds(t)
  \/ \E a \in Reassigned, w \in Workspace : Unassign(a, w)

ConsoleSpec == ConsoleInit /\ [][ConsoleNext]_consoleVars

-----------------------------------------------------------------------------
\* What a page shows was answered to the account that is signed in, whatever was
\* still on its way when another account signed in, as long as no second sign-in
\* was submitted before the first had ended (AuthProvider.tsx, App.tsx).
OwnDataShown ==
  ~overlapped => \A by \in {adm.of, ctx.of, dash.of, dash.by} : by \in {NoOne, status}

\* The workspace selected in the console is one of those listed last.
SelectionListed == InShell => adm.selected \in adm.boot

\* With no sign-in or sign-out in flight, a token the tab still holds is one of the
\* account it shows as signed in, late sign-outs included: no token outlives the
\* page of its account, as long as no two sign-ins overlapped (AuthProvider.tsx).
TokenShown ==
  ~overlapped /\ (\A i \in Slots : net[i].op \notin AuthOps) =>
    (token # 0 => status = owner[token])

-----------------------------------------------------------------------------
(* What the code does not keep, for MCConsole_unkept.cfg. *)

\* Two sign-ins, the second from a form that was left and opened again: the late
\* status of the first is shown over the token of the second.
OwnDataAlwaysShown ==
  \A by \in {adm.of, ctx.of, dash.of, dash.by} : by \in {NoOne, status}
TokenAlwaysShown ==
  (\A i \in Slots : net[i].op \notin AuthOps) => (token # 0 => status = owner[token])

\* Somebody shown as signed in has a token to be signed in with.
SignedInHasToken ==
  (\A i \in Slots : net[i].op \notin AuthOps) => (status \in Account => token # 0)

\* A report is of the workspace that is selected
\* (docs/audits/web_admin_ui_review_2026-07-15.md: "Workspace switching clears
\* stale report and feed state").
ReportOfSelected == dash.result \in {NoWhere, dash.selected}

\* The list under "Knowledge shared with" the selected workspace is of that one.
ListOfSelected == ctx.on /\ ~ctx.loading => ctx.at \in {NoWhere, adm.selected}

\* A report is generated in the workspace the dashboard shows.
GeneratedWhereShown ==
  \A i \in Slots : net[i].op = "generate" /\ net[i].tok # 0 => net[i].ws = net[i].shown
=============================================================================
