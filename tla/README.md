# TLA+ models of Lumeward

Lumeward is a newsletter and memory application with two faces. In SERVER mode a
FastAPI application runs in one or several worker processes over PostgreSQL and
Qdrant; organizations, workspaces and invitations live there. In DESKTOP mode a
PySide6 application for one user runs over SQLite and an embedded Qdrant, with
an asyncio thread for telemetry and Qt threads for uploads, generations and the
feed. This directory holds TLA+ modules of the parts whose correctness depends
on the order of things, TLC configurations that check them on small instances,
and TLAPS proofs for every instance. Paths below are relative to the
repository's root (`src/` in PROJECT.json).

PROJECT.json maps every definition to the lines it models and lists the runs,
the mutants that show each property can fail, the findings, the hazards and the
theorems.

## 1. Inventory

| Component | State | Operations | Hard behaviour | Modules |
|---|---|---|---|---|
| Organization and workspace membership (`common/services/membership_admin.py`, `authorization.py`, `server/routers/admin.py`, `auth.py`) | membership rows of users in organizations and workspaces (role, status), the active organization, the row lock of an organization | `update_member`, the legacy member routes, creation of organizations and workspaces, signups, bootstrap | concurrent administrators, scopes read before a lock, a flush of changed columns only, deadlocks with foreign keys, an answer read after the commit | `Membership`, `AdminRegistry`, `MembershipProofs` |
| Accounts and sessions (`common/services/auth`) | users, sessions with expiry and revocation | signup, login, logout, revocation at a deactivation | a login that overlaps a deactivation | `Membership` |
| Organization invitations (`common/services/invitations.py`) | invitation rows with status and token hash | create, resend, revoke, accept, expiry | status tests without a lock, one-time links, acceptance next to an update of the same member | `Invitations`, `MembershipProofs` |
| Desktop telemetry runtime (`common/services/telemetry/event_bus.py`, `workers.py`, `desktop/services/telemetry_runtime.py`) | bounded queues and their counters of unfinished items, the tasks of one loop | emit, dispatch, ingest, summarise, drain and shut down with timeouts | back-pressure, critical events deferred to a task, timeouts racing completion, cancellation | `Telemetry`, `EventProofs` |
| Document ingestion (`common/services/ingestion`, `server/routers/news.py`) | the index, event and context rows; the points of the vector store; staged files; the semaphore | desktop drop and folder watcher, upload of an archive, upload of shared text, start-up cleanup | two stores without a common transaction, crashes between them, an edited file, several worker processes over one directory | `Ingestion`, `DesktopFiles`, `Uploads`, `IngestionProofs`, `DesktopProofs`, `UploadsProofs` |
| Vector memory (`common/services/memory`) | points with user, scope and hash | upsert, search under a scope filter | identifiers that leave the scope out, a filter older than the membership | the part ingestion and retrieval need, in `Ingestion` |
| Intelligence feed (`common/services/intelligence_feed`) | raw events, cards and their status, digests | process new events, dismiss, deep dive | check and insert in two transactions, a status overwritten, the "latest" digest of a user | `Feed`, `EventProofs` |
| Newsletter pipeline and schedules (`common/services/newsletter`, `desktop/workers/cron_digest.py`) | digests, templates, schedules with `last_run_at`, the list of a poll | choose sources, generate, bring templates up to date, poll, mark, edit schedules | one minute per day, a crash between digest and mark, two insertions of a built-in template, a failed transaction of the thread | `Newsletter`, `Schedules`, `SchedulesProofs` |
| Tags, tag policy, plugins (`common/services/tags.py`, `tag_admin.py`, `plugins.py`) | tags, policies, plugin registrations | one transaction per call | a tag that is muted or blocked while a run goes on | the tags and policies a run of the feed reads, in `Feed` |
| Telemetry manager and collectors (`desktop/telemetry_manager.py`, `desktop/collectors`) | preferences saved and in memory, collectors running or not, the runtime, the shared Qdrant client | start, save preferences, copy, stop | disable and enable again, shutdown that skips the runtime | `Collectors`; the folder watcher in `DesktopFiles` |
| Desktop window and workers (`desktop/ui`, `desktop/workers`) | the workers in flight, the queue of signals, the one output area, the feed panel, the chosen workspace | generate, deep dive, dismiss, refresh, share, close | results out of order, isRunning next to queued signals, an attribute that is never set at close | `DesktopWindow`, `WindowProofs` |
| Database and Qdrant runtime (`common/database.py`, `common/services/memory/vector_db.py`, `server/qdrant_runtime.py`, `server/app.py`) | tables, collections, trusted user; each worker's place in its lifespan and the Qdrant process it owns | start, create what is missing, serve, stop, fail | workers that create side by side, an owner that stops under the others, starts that fail or are killed half-way | `ServerRuntime`, `RuntimeProofs` |
| LLM, tools, search, network policy (`common/services/llm`, `search`, `security`) | none beyond a call | choice of search mode and tools, calls | external services; a blocked search next to a topic that must be searched | the choice of sources in `Newsletter` |
| Web frontend (`frontend/src`) | token and workspace in sessionStorage, the session status, the state of the pages, requests in flight | sign in, sign out, join, select a workspace, share, list, generate | late, lost and refused answers next to a newer token, another account or another workspace | `Console`, `RuntimeProofs` |
| Scripts, packaging, tests | none | none | none | not modelled |

### How the components interact

* Requests of the server are synchronous functions in a thread pool; every
  request has its own database session. PostgreSQL runs at READ COMMITTED, so a
  handler is a sequence of reads and one commit, and another request's commit
  may fall between any two of them. `SERVER_WORKERS` processes share the
  database, the vector store and the upload directory and nothing else.
* `Membership` is what every scoped request reads: an invitation writes the
  same rows, retrieval builds its filter from them, and an upload takes its
  workspace from them.
* An ingested document writes three times in a fixed order: points to Qdrant,
  the index row to the database, the event to the database. The feed reads the
  events, the retrieval reads the points.
* On the desktop the collectors hand events to the telemetry loop, which hands
  documents to the ingestion worker; drop and upload threads call the same
  `ingest`.
* Feed requests, the timers of the desktop and deep dives share cards, events
  and digests through the database alone.
* On the desktop one QThread per generation, deep dive, refresh, processing,
  dismissal and share posts signals to the GUI thread; the schedules have a
  thread of their own. All of them use one database and one Qdrant client.
* The worker processes of the server meet in the tables, in Qdrant's
  collections and at its address; each knows only the process it spawned.
* The pages of the console share one token and one selected workspace with the
  dashboard through sessionStorage.

### What makes each component correct

* Membership: one active organization per account; the last active
  administrator stays; what was checked under the lock still holds at the
  commit; a workspace administrator changes only assignments in his workspaces;
  a deactivation leaves none of the assignments that were there; every request
  is answered.
* Invitations: a link is accepted once, only while the invitation is open and
  carries it; the account that joins is active in no other organization.
* Telemetry: the counters of the queues match what was taken, no wakeup is
  lost, every event in the bus is handled before the loop stops unless a timeout
  passed, every event is settled in the end.
* Ingestion: every row is backed by points, the desktop index has the hash of
  the file it names and, unless the file changed between the hash and the
  extraction, its text is the one stored; the answer of an upload agrees with the records, retrieval stays in
  scope, slots and staged files are given back.
* Feed: one card per source while a user has one run at a time; a card leads to
  a digest of its own user.
* Newsletter and schedules: clipboard topics are never searched for and topics
  about world events are never left to the model; digests and schedules name
  templates that exist; a marked digest is followed by another only after its
  interval; a poll tries all it found due.
* Collectors and window: collectors run with the telemetry and clipboard
  consents in force only, the text of the clipboard is handed on with the
  raw-text consent only (its address without, see MCDesktopWindow_unkept);
  what is copied is the brief the output area shows, or the one the message of a
  failed deep dive covers; the panel at rest shows the cards as they are unless a
  refresh failed or was dropped; one can generate again; shares have a workspace.
* Server runtime: a worker serves only over complete storage, no Qdrant outlives
  the worker that started it, the only worker serves in the end, the server can
  be stopped at any time.
* Console: a selection is one of those listed last; until two sign-ins overlap,
  a page shows what its own account was answered and a token does not outlive the
  page of its account.

What one would ask beyond this and the code does not keep is stated as well, in
the modules, and listed in section 3.

## 2. The modules and the code

**Membership** (`Membership.tla`). A request slot `txn[r]` is one HTTP request
with its SQLAlchemy session: `pc` says how far it is, `admin`, `managed` and
`selected` are the scope `get_admin_scope` returned, `seen`/`wsSeen` are the
rows as loaded and `row`/`wsRow` the values the session will flush.
`ScopeUpdate` is the router's part of `PUT /admin/members/{id}`,
`LockAndCheck` the `FOR UPDATE` on the organization with the validations after
it, `CheckAssignments` the same for a workspace administrator (no lock, and no
refresh: if he updates himself, the row is the object that authorized him,
`LoadedMembership`), and `Commit` the flush: `Merge` writes only columns whose value differs from the
one loaded, the unique keys refuse a flush (`ViolatesUnique`,
`IntegrityError`), and the foreign key of the audit row waits for whoever holds
the organization (`LockAllows`). `Respond` is the lookup of the answer after
the commit. The legacy routes, the creation of organizations and workspaces,
signups, login and logout are the other actions. A request may lose its
connection before the commit (`DatabaseFailure`). `Init` is every database
earlier runs can have left: any rows that keep the two rules and belong to
accounts. `AdminRegistry.tla` is what the module promises about one
organization: members change one at a time, never so that an organization that
has members is left without an administrator.

**Invitations** (`Invitations.tla`) EXTENDS Membership: its variables and
actions run side by side. A job is a request on an invitation: it loads the row
(`Load...`), then commits what it decided; the lock of an acceptance is the
`SELECT ... FOR UPDATE` on the invitation row. Links stand for token hashes;
the mail and the columns about its delivery are left out.

**Telemetry** (`Telemetry.tla`) is one asyncio loop. `ready` is its FIFO of
callbacks; an action runs the callback at the head until its coroutine
suspends, and the bodies are those of `EventBus`, the dispatcher and the two
`_AsyncQueueWorker`s. `Shutdown` queues the drain; `DrainStep` and `JoinStep`
are `asyncio.wait_for(queue.join())`, which runs `join()` in a task of its own
up to Python 3.11 and inside the caller from 3.12 on; the repository supports
both, and what a drain guarantees depends on it: with the task, the workers run
between two joins. `joinInTask` says which, either is chosen in `Init`.

**Ingestion** (`Ingestion.tla`) holds what all ingestion shares: the stores and
the steps of `DocumentIngestionService.ingest` and `ingest_workspace_text`, one
action per read or commit, each of which may fail. A content stands for bytes,
hash and text; the chunks of a text are one point. **DesktopFiles** adds the
desktop: a file that is edited, the watcher with what it saw last, the queue
and the worker, a restart. `torn` is a history variable, read by no guard: the
hashes whose file was edited between the hash and the extraction, until the same
content is stored again from a file that was left alone. **Uploads** adds the server: the semaphore with its
FIFO of waiters, the incoming file, the batch directory, the loop over the
archive, the reply, the audit row, shared text, and worker processes that crash
and clean the directory when they start.

**Feed** (`Feed.tla`). A run of `process_new_events` loads cards and events
once and then checks and creates event by event; a deep dive reads its card,
generates, and writes it. `Expires` distinguishes sessions that re-read a
loaded row after a commit (desktop) from those that do not (server), `Alone`
the desktop's guard that one run is in progress. An event may be shared with a
workspace and then carry tags; a run sees what its user owns and what is shared
with the workspace of its request (`Visible`, `Normalized`). `TagStep` is what
other requests do meanwhile: an administrator makes a tag, a user mutes it, the
administration of a workspace blocks it there; `TaggedOut` reads the two tables
when an event is checked. `Stored` is the reference as a card keeps it, cut at
the length of its column, which `SourceShown` compares with the whole one.
`Priority` is the arithmetic of the scorer.

**Collectors** (`Collectors.tla`) is the desktop's `TelemetryManager`: what the
settings dialog saves (`prefs`), the copy in memory (`flags`), which `Synced`
derives as `sync_privacy_settings` does, the two collectors, and the runtime
with its thread reduced to its life (`runtime`). `taken` is what `emit` handed on
of the last clipboard text, its address or the text too. `Reload` is
`reload_preferences` with all it starts and stops, `Shutdown` what `closeEvent`
reaches.

**DesktopWindow** (`DesktopWindow.tla`) EXTENDS Collectors with the main window.
`ai`, `dive` and `feed` are the QThreads, `inbox` the queued signals of the GUI
thread; `HandleSignal` runs the slot of the first. `isRunning()` is the state of
a thread and not of what it posted, so `Buttons` may disagree with the signals
still in the queue. `out` is the output area with `_current_markdown`,
`_has_result` and `_generation_error_pending`, `cards` and `panel` are versions.
`stale` is set where `refresh_feed` returns early or a refresh fails. A share
waits in `sharing`; the workspace is read when it is sent (`SendShare`). `Close`
ends with the exception `closeEvent` raises: the workers are not waited for.

**Newsletter** (`Newsletter.tla`) holds what every generation does. `Body` is
the choice of sources, with the answers a search tool can give (`Searched`),
the unusable one among them, for which the text says that there is not enough;
`SyncTemplates` and `Save` are the two transactions, the first of which may find
that another generation inserted a row since `Look`. **Schedules** adds the
table, the API of the server, which replaces a key that is not built in and
updates the templates first, and `CronDigestWorker`: `Poll` computes the list
once, or raises outside the loop and ends the thread, `Pick` to `CronMark` are the steps of one schedule, `Failure` and `Broken`
the `except` around them, `Stop` the stop event, `Restart` the end of the
process at any step. The server's table
is never polled: only the desktop has the thread, and nothing in it makes
schedules. `app` says which table it is.

**Console** (`Console.tla`) is one tab. `net[i]` is a request from its send to
the handler of its answer; it carries the token and the workspace that were
stored when it was sent, `shown` is the workspace its page showed, and `live`
says whether the page that waits for it is still there (an effect's cleanup
clears it). The flag that disables a form is state of that form: `ReturnToForm`
leaves it by a link or the buttons of the browser and finds another one enabled,
while what the first submitted goes on to its `navigate`. Nothing disables Sign
out, so any number of sign-outs may be in flight. `overlapped` is a history
variable, read by no guard: since the tab was loaded a sign-in or acceptance was
submitted while another was on its way. `Serve` is what the server does to its rows; which account a token
stands for, what that account is granted and which workspaces it is told are
operators of their own (`Owner`, `Granted`, `Listing`), as the routers take them
from `get_current_principal`, `get_admin_scope` and the membership queries.
`Fail` is a lost request, a lost answer or an error; `Arrive` runs the rest of the handler. The pages are
records: `adm` the shell with its selection, `ctx` the page of shared context,
`dash` the dashboard, `preview` the page of an invitation.

**ServerRuntime** (`ServerRuntime.tla`) is the lifespan of worker processes, one
action per look or write: tables, the database check, the bundled Qdrant
(health, spawn, wait, check), each collection of
`initialize_qdrant_collections` (exists, create, exists again), the trusted
user; then serving, and the `finally` blocks, to which an exception of any step
leads. Qdrant processes boot, hold the address or exit because another has it,
hang, die; workers are killed and started again by the supervisor.

`MC*.tla` give the constants their values. In each module operators whose
comment begins with "Mutation:" are the faulty variants that PROJECT.json pairs
with the properties; no specification uses them.

## 3. The runs

Runs that pass:

| Run | Instance | What it shows |
|---|---|---|
| membership_assignments | 2 users, 1 organization, 2 workspaces, 2 requests; signups, a new organization, members added and promoted by the legacy route, the administration of a workspace given away, demotions | types; nothing checked under the lock of an organization is stale at the commit; a workspace administrator writes assignments only, in his workspaces only, also when he is promoted while his request runs |
| membership_answered | 2 members, 1 workspace, 2 fair requests that deactivate, assign and create workspaces | the last administrator stays; the handlers implement `AdminRegistry`; a deactivation leaves no existing assignment active; every request is answered |
| invitations_links | 2 users, 2 organizations, 2 invitations, 2 links, 2 jobs, 1 request on any route that makes a member or makes one active again | the partial unique index keeps one active organization per account; a link that was accepted is dead; acceptance only while open and current |
| telemetry_bus | 4 events of every kind, bus of 2, queues of 1, either Python | counters, wakeups, a drain without timeout handles all that entered the bus, a summary sees what came before it, every event is settled |
| desktop_files | 1 path, 3 contents, 4 edits, 2 queued, 1 restart | at rest the row of an indexed file has its hash, and its text is the one stored unless the file was edited between the hash and the extraction |
| uploads_records | 2 users, 1 workspace, 1 slot, 2 requests of up to two files or shared text, 1 crash | slots and staged files are accounted for, rows are backed by points, replies agree with rows, shared text stays retrievable, retrieval stays in scope |
| feed_alone | 2 users, 2 runs, 2 events, private or shared with a workspace under a tag, one mute or block at a time, 1 deep dive, 2 generations | one card per source while each user has one run; a card leads to a digest of its own user |
| desktop_window | both modes, 2 briefs, 1 new card, 3 clicks, 2 workspaces, 1 text | collectors, and the text of the clipboard, follow what is saved, also through disabling and enabling again; what Copy gives is the brief that is shown, or the one behind the message of a failed deep dive; the panel at rest is current unless a refresh failed or was dropped; one can generate again |
| schedules | 2 schedules, days of 3 polls, 1 other generation | sources per topic; digests and schedules name templates that exist; marked digests are an interval apart, through restarts and polls of the same minute; a poll tries all it found due |
| console | 1 tab, 2 accounts of which one is invited and one loses a workspace, 2 workspaces, 2 requests in flight, 1 session of each account | until two sign-ins overlap: no page shows another account's data, no token at rest without its account; at any time: the selection is listed |
| server_workers | 1 or 2 workers, 1 collection, 3 Qdrant processes, 2 failures, kills or hangs | no Qdrant outlives its worker; serving over complete storage; the only worker serves in the end; the server ends |

The runs of Membership check its type invariant; each other module defines one,
which its instances satisfy as well and which is to be added to the INVARIANTS of
its run when a definition changes. Those of Schedules and ServerRuntime are
proved.

The run that finds a disagreement between the code and what the repository says
of it (the finding of PROJECT.json quotes the lines):

| Run | Property | What TLC finds |
|---|---|---|
| desktop_selected | SharedWithSelected | text shared while one workspace is selected reaches the one selected when the worker sends it |

Further configurations are kept beside these for whoever works on the code they
concern. They take seconds to a few minutes each; the first two pass, each of
the others ends with the behaviour it names, which is what the code does and a
care to be taken when that code changes. The configurations named `unkept` list
several properties of that kind, to be checked one at a time:

| Configuration | Property | What TLC finds |
|---|---|---|
| MCUploads_answered | UploadsAnswered | holds: three uploads through one slot are all answered |
| MCMembership_organizations | OneActiveOrganization, LockHolderCurrent | hold: two requests at a time on every route that makes a member |
| MCMembership_unkept | AdminRetained | the legacy member route demotes the last administrator |
| MCMembership_unkept | DeactivationEndsSessions | a login that commits between the SELECT of the sessions and the commit survives the deactivation |
| MCMembership_unkept | CommittedUpdateAnswered | a committed update answered with "not found" |
| MCInvitations_unkept | AcceptedNotRevoked | a revocation overwrites an acceptance |
| MCInvitations_unkept | ClosedNotReopened | a resend reopens a closed invitation |
| MCInvitations_unkept | OnePendingInvitation | two pending invitations of one address |
| MCInvitations_lastadmin | AdminRetained | an acceptance overwrites the role of the last administrator |
| MCTelemetry_unkept | CriticalDrained | a critical event that found the bus full is lost by a drain without timeout |
| MCTelemetry_unkept | SessionsRemembered | no session is ever summarised: names in the worker are undefined |
| MCDesktopFiles_unkept | TextFollowsDisk | a file is hashed, edited, extracted and edited back: the text of other bytes stays stored under its hash |
| MCDesktopFiles_unkept | IndexedInFeed | a restart between the index row and the event leaves a document that never reaches the feed |
| MCUploads_unkept | SharedDocumentRetrievable | a document uploaded again in another scope takes the first one's place |
| MCUploads_unkept | ActiveStagingKept | a worker that starts removes what another ingests |
| MCFeed_twice | OneCardPerSource | two concurrent GET /news/feed make two cards of one event |
| MCFeed_unkept | EventsConsidered | muted events that are loaded again keep an older one out |
| MCFeed_unkept | DismissedStays | a deep dive brings a dismissed card back |
| MCDesktopWindow_unkept | ContentWithRawConsent | in local mode the address in a clipboard text is stored without the raw-text consent (`clipboard_collector.py:72-80`), which `docs/security.md:26` asks for before any clipboard content |
| MCDesktopWindow_unkept | RuntimeStopped | a shutdown after the collection was switched off leaves the runtime running over a closed store |
| MCSchedules_failed | DueTried | a transaction that fails raises again in the handler and ends the thread with due schedules left |
| MCConsole_unkept | OwnDataAlwaysShown | two sign-ins overlap, the second from a form that was left and opened again: the late status of the first account is shown over pages of the second |
| MCConsole_unkept | TokenAlwaysShown | the same: the tab shows one account and holds the token of the other |
| MCConsole_unkept | ReportOfSelected | a report asked for in one workspace is shown under the one selected meanwhile |
| MCConsole_unkept | ListOfSelected | the shared list of the earlier workspace is shown under the selected one |
| MCConsole_unkept | GeneratedWhereShown | a report is asked for in a workspace the dashboard does not show, after another page selected it |
| MCConsole_unkept | SignedInHasToken | the tab shows an account whose token it has dropped |
| MCServerRuntime_unkept | QdrantWhileServing | a worker whose start fails stops the Qdrant another serves from |
| MCServerRuntime_unkept | AllServe | two workers that fail in turn take the Qdrant away from each other |

### Bounds

Races in this code need two actors on one row, one of which holds something the
other invalidates; two requests, two users and two organizations give every
pair. `AssignmentsInit` starts the two runs with workspaces from an organization
of two accounts in which u1 is an administrator and u2 has any row that can act:
the other databases of `Init` differ from these in rows that no step of the runs
reads, or are reached by them. membership_assignments starts from an empty
database as well (`NoRows`); membership_answered from an administrator, or an
active member who has administered w1. The routes are divided between the two:
together with every pair of `Updates` they are too many for one run, and the
legacy member route breaks `AdminRetained`. Users, requests and links are interchangeable
where no definition names one, so safety runs use symmetry; runs of liveness do
not. `MaxEdits = 4` lets a file change between any two of the
reads of one handling (watcher, hash, extraction) and once after; `MaxQueue = 2`
and one restart give a queue at its limit and a lost one. One crash separates
any two steps of an upload, and the second process of MCUploads_unkept starts
while the first works. A bus of two and queues of one make every queue full with
four events. `Limit = 1` in MCFeed_unkept stands for 20 in the code: the
property fails in the same way with 20 muted events. One tag and one mute or
block (`MaxOut`) fall before, between or after the two checks of a run of two
events; one reference makes the events duplicates. `MaxEvents`, `MaxDigests`,
`MaxFiles` and `MaxCrashes` bound histories only.

Two briefs are a generation and a deep dive in either order, or two of one kind
with an error between them; three clicks save, change back and use what was
enabled, and a card of a timer and one of a click put two changes around one
refresh. Days of three polls have a minute that is due, one that is not, and a
poll missed by a long generation; a week stands for two days less an hour, so
that both intervals end within a few days and a mark older than the longest one
is `Never`. Two requests of a tab are one that is late and one that was sent
since, two sign-ins among them; one session of each account is an account that
comes after another; a second of the same account adds nothing, as a request knows
only its own token and the properties only tell accounts apart. A worker
needs one collection to fail in the middle of the storage and a second worker to
complete it: with a single worker, three collections and four faults
give the same results. Three processes are the Qdrant of each worker and one left behind by a
kill. `MaxFaults`, `MaxSessions`, `MaxRuns`, `MaxClicks` and `MaxCards`
bound histories only; `Slots` bounds what is in flight, and the theorems about the
tab hold for any number.

`CHECK_DEADLOCK FALSE` stands where a system may really come to rest: all
uploads answered, no edits left, no event left.

### Fairness

* `FairAssignmentsSpec` (as `Membership!FairSpec`): SF of `Handle(r)`. A thread
  that has a request runs it to its end; a request waiting for the organization
  row is enabled again and again but not continuously, since another may take
  the row first, and PostgreSQL queues the waiters of a row lock. Nothing is
  assumed of clients.
* `Telemetry!FairSpec`: WF of `LoopStep`, the thread of the loop. No fairness
  of timers, of collectors or of the shutdown.
* `Uploads!FairUploadsSpec` (MCUploads_answered): WF of each request's steps;
  asyncio's semaphore is FIFO, so weak fairness is enough.
* `Feed!FairFeedSpec` (MCFeed_unkept): WF of the poll and of each run's
  steps, SF of `CreateCard`, as a commit that fails is tried again by the next
  run.
* `DesktopWindow!WindowSpec`: WF of `Answer` and `FinishAI`, since a generation
  has a time limit (`LLM_MAX_EXECUTION_SECONDS`, the timeouts of the enterprise
  client) and a thread that returned ends, and of `HandleSignal`, the event loop.
  Nothing is assumed of the user.
* `Schedules!WorkingSpec` (MCSchedules_failed): WF of the steps of the schedule
  thread; not of the clock, nor of a restart.
* `ServerRuntime!RuntimeSpec`: WF of each worker's start, steps and end, which
  includes the supervisor that starts workers again, and of a Qdrant's boot and
  of its exit once told to. Failures, kills and hangs are bounded by `MaxFaults`
  and never fair.

## 4. What is proved

`MembershipProofs.tla` proves, for any finite or infinite sets of users,
organizations, workspaces, requests and updates that satisfy
`MembershipAssumption` (workspaces belong to organizations, updates are
well-formed bodies, `NoOne` is nobody):

* `TypeCorrect`: `Spec => []TypeOK`;
* `OneActiveOrganizationHolds`: `Spec => []OneActiveOrganization`;
* `LockHolderHolds`: `Spec => []LockHolderCurrent`;
* `AdminRetainedHolds`: without the legacy member route,
  `Spec => []AdminRetained`;
* `RegistryImplemented`: without it, `Spec => RegistrySpec`, the refinement of
  `AdminRegistry`;
* `WorkspaceAdminConfinedHolds`: `Spec => WorkspaceAdminConfined`;
* `DeactivationCompleteHolds`: `Spec => DeactivationComplete`.

The inductive invariant is `IInv`. Neither rule is inductive alone: that the
last administrator stays depends on the check under the lock still being true
at the commit (`LockHolderCurrent`), which depends on every other writer of
membership rows waiting for the lock (`LockAllows`) and on what the other
requests in flight may still write (`RequestShape`: who prepared what kind of
row, for which organization, and that rows they saw still exist); that in turn
needs rows to belong to accounts (`RowsOwned`). The proof has one lemma per
action, each with a step per conjunct of `IInv` the action can disturb; `Commit`
is split by the kind of row it writes. The last two
theorems need one more invariant next to it, `UpdatesPlanned`: what a checked
update may still write. A workspace administrator's leaves the organization row
as loaded and touches workspaces he manages only, which holds since he acts on
the membership that authorized him even if he updates himself
(`LoadedMembership`); a deactivation clears every assignment row it loaded, and under
the lock no other request changes one of them; rows that are added are not spoken
of. The legacy route is left out of
`AdminRetained` by hypothesis since MCMembership_unkept shows that it breaks the
rule; the other theorems cover it.

Its last part proves about `Invitations`, under these assumptions and
`InvitationsAssumption`, for any invitations, links and jobs:

* `UsedLinkDeadHolds`: `InvitationsSpec => []UsedLinkDead`, about links that were
  accepted;
* `AcceptanceCurrentHolds`: `InvitationsSpec => AcceptanceCurrent`, an action
  property.

The invariant is `LinkInv`. That a dead link stays dead needs links to be
distinct (`LinksDistinct`: no two invitations carry one link, and none a job is
about to write is in use) and what a job in flight may still write
(`JobsShape`): an acceptance holds its row from the test to the commit, while
create, change and issue may write over what others committed but never bring
an old link back.

`IngestionProofs.tla` proves about the steps of `Ingestion` what the two systems
that use them build on. `StoresInv` is what the stores owe each other: a call
that is past its upsert has its point (`CallShape`), a workspace's points are
the texts they are named after (`WorkspacePoints`), an event without a path is a
workspace's (`TextEvents`), an ingested row has a hash (`IndexHashed`), and
records are backed (`RecordsBacked`). It needs identifiers of users and
workspaces to differ: a document of a user could otherwise take the place of a
text of a workspace. `OfferInv` says that all that is in Qdrant or on its way
there was offered by that user to that scope.

`UploadsProofs.tla` proves, for any requests, workers, archives, slots and
crashes that satisfy `UploadsAssumption`:

* `UploadRecordsBacked`: `UploadsSpec => []RecordsBacked`;
* `UploadTextsRetrievable`: `UploadsSpec => []SharedTextRetrievable`;
* `UploadRetrievalAllowed`: `UploadsSpec => []RetrievalAllowed`;
* `SlotsAlwaysRespected`: `UploadsSpec => []SlotsRespected`;
* `StagingAlwaysAccounted`: `UploadsSpec => []StagingAccounted`;
* `RepliesMatchRecords`: `UploadsSpec => []ReplyMatchesRecords`.

The invariant of the first three is `FullInv`, the two above with `UploadInv`. The extraction reads
a staged file long after the request was received, so `RetrievalAllowed` holds
only since a batch directory belongs to one request: what is in it is of that
request's archive (`FilesShape`), the call that reads it carries that request's
user and scope (`OwnCall`), and both were offered when the request came in
(`RequestShape`). `Moved` is what the staging, the semaphore, crashes and starts
may do to requests; each action is shown to be such a move or a new request.

The other three rest on `ServerInv`, which adds to it:

* `SlotsInv`: the free slots of a worker and its requests between `stream` and
  the end of `ingest` add up to `Concurrency`, nobody queues for a free slot,
  and a queue lists waiting requests of its worker, each once. Without the last
  part a release could wake a request twice, and hand out a slot too many.
* `StagedBy`: the steps at which a request may have an incoming file or a batch
  directory, and that only an answered request has a status.
* `RecordsOf`: the counter of ingested files of a request is the number of its
  files with an event; the call in hand is at the first file not counted
  (`AtFile`), and that file has its event exactly when the call ended as
  ingested. `NextFile` counts what the call returned, so the reply is right only
  because no other call records a file of this request.
* `IndexedOf`: an event of a staged file is never without the index row that
  says ingested, which holds since the row is committed before the event and no
  later step of the same call, nor any other call, writes that row.

`ReleaseSlots` and `CrashSlots` are the two places where slots come back;
`RequestStep` shows that other requests keep all of this while one steps.

`DesktopProofs.tla` proves, for any files, contents, edits, queue and restarts
that satisfy `DesktopAssumption` (one call at a time, that of the worker):

* `DesktopRecordsBacked`: `DesktopSpec => []RecordsBacked`;
* `DesktopIndexFollows`: `DesktopSpec => []IndexFollowsDisk`.

Its invariant is `FollowInv`: a file in place that is not to be looked at is in
the queue, or the call in hand will leave its row as the file is, or the row is
that already (`Handled`); and so is a file the collector has seen as it is, for
a notification of it will be ignored. Both are needed: the second is why the
collector compares modification times, which only grow, and not hashes alone.
`TextInv` is about the stored text: every point is the user's and has the text it
is named after unless `torn`, and so has the call in hand until it stored it. A
call that extracts has the hash of the file as it is, or the file changed since
and the hash is in `torn`.

`RuntimeProofs.tla` proves, for any workers, settings, collections, processes
and faults that satisfy `RuntimeAssumption`:

* `RuntimeTypeCorrect`: `RuntimeSpec => []RuntimeTypeOK`;
* `NoOrphanHolds`: `RuntimeSpec => []NoOrphan`;
* `ServesCompleteHolds`: `RuntimeSpec => []ServesComplete`.

Its invariant is `RuntimeInv`. `ProcessHeld` says at which steps a worker may
hold a process, so that a worker is never down while it owns one; `Progress`
says what the storage holds once a worker passed a step (`Reached`), whoever
made it; nothing that was made is ever taken back.

Its second part proves about the tab, for any accounts, workspaces, numbers of
requests in flight and sessions that satisfy `ConsoleAssumption`, and whatever
the network loses, delays or reorders:

* `ConsoleTyped`: `ConsoleSpec => []ConsoleTypeOK`;
* `OwnDataAlways`: `ConsoleSpec => []OwnDataShown`;
* `ListedAlways`: `ConsoleSpec => []SelectionListed`;
* `TokenShownAlways`: `ConsoleSpec => []TokenShown`.

The invariant `TabInv` is the types and, until `overlapped`, `ConsoleInv`.
`ConsoleInv` says of every request in flight what may still follow from it
(`Fits`): an answer is about the account of the request's token (`Honest`); a
page that is still there waits for answers about the account it shows
(`Waited`); and of what `AuthProvider` waits for (`Provided`), a status that was
asked for with a token is asked for with the one the tab holds, unless it was
thrown away since. The last needs that at most one sign-in or acceptance is on
its way (`OneSigning`). No guard of the code gives that, only the history does:
it holds until `overlapped`, and so do `OwnDataShown` and `TokenShown`;
`SelectionListed` needs none of it. Any number of sign-outs may be in flight: a
late one throws the token away, and then there is none to show. A tab that was
loaded anew waits for its first status only (`UnknownAlone`): another status
request in flight with an older token could otherwise name another account than
the token that is kept. The account shown changes only when a page comes fresh or
goes (`EnterKeeps`), and the pages one sees without an account show nothing of any
(`Blank`). A step of a page that leaves the session alone only replaces requests
by requests that fit the same page (`Follows`, `PageStep`).

`SchedulesProofs.tla` proves, for any keys, generations, schedules and lengths
of days and intervals that satisfy the two assumptions:

* `SchedulesTypeCorrect`: `SchedulesSpec => []SchedulesTypeOK`;
* `TemplatesHold`: `SchedulesSpec => []TemplatesExist`;
* `DigestsApartHolds`: `SchedulesSpec => DigestsApart`;
* `AllTriedHolds`: `SchedulesSpec => AllTried`;
* `SourcesHold`: `SchedulesSpec => []SourcesRespected`.

Its invariant is `SchedulesInv`. `Synced` says that a generation which is past
its first transaction finds every built-in template, also when the transaction
was another's. `DueOK` says that a schedule in the list of a poll is still due
when its turn comes: time only passes, and only its own turn marks it.
`MarksOK` relates the mark to the last digest, which a restart may separate.

`WindowProofs.tla` proves, for any texts, workspaces and bounds that satisfy the
assumptions of `Collectors` and `DesktopWindow`:

* `ConsentHolds`: `WindowSpec => []ConsentHeld`;
* `TextWithConsentHolds`: `WindowSpec => TextWithConsent`, the text of the
  clipboard is handed on with all three consents only, its address with two;
* `SharedWithConsentHolds`: `WindowSpec => SharedWithConsent`, clipboard text is
  taken for the server with all three consents only;
* `SharedInWorkspaceHolds`: `WindowSpec => []SharedInWorkspace`, the server
  never receives text without a workspace;
* `CopyGivesShownHolds`: `WindowSpec => []CopyGivesShown`, what Copy gives is the
  brief that is shown or the one a failed deep dive's message covers;
* `PanelCurrentHolds`: `WindowSpec => []PanelCurrent`.

`ConsentInv` orders what is saved, what is in memory and what runs: each allows
no more than the one before; that the address needs no third consent is what the
code does. The output area is correct since every signal of a
brief in the queue names one (`InboxOK`, `Good`). The panel needs `PanelInv`:
as long as a refresh is neither running nor asked for by a signal in the queue
nor dropped (`Awaited`), the last of the posted cards, or the panel if none are
posted, are the cards of the database (`Latest`); the queue is FIFO, so later
cards win.

`EventProofs.tla` proves about the telemetry loop, for any events, kinds,
critical events and sizes of the queues that satisfy `TelemetryAssumption`, and
for either way `wait_for` runs `join()`:

* `TelemetryTypeCorrect`: `Spec => []TypeOK`, which bounds the queues;
* `JoinCountsEvents`: `Spec => []JoinCountsMatch`;
* `WakeupsArrive`: `Spec => []NoLostWakeup`;
* `SummaryComplete`: `Spec => []SummarySeesEarlier`;
* `NothingLeftBehind`: `Spec => []AcceptedDrained`.

Three invariants build on one another. `LoopInv` counts: `Counts` relates
`unfinished` to the queues and the event in the dispatcher's hand; `Wakeups`
says that the loop has one callback of each worker that is not suspended and
none of one that is, and at least as many woken puts as the bus has free slots
while puts wait. Neither holds alone, since what a worker does when it runs
depends on whether it was suspended rightly. `OrderInv` is about the order of
events that found the bus open: their callbacks are in the order of emission,
those pending come after all that are in the bus, the bus is in that order
(`BusInOrder`), and when an event is in hand or behind the bus, those emitted
before it have been dispatched (`BehindLater`); `Located` says where an event
is. `DrainInv` is about the end: the callback of the drain stands behind those
of all that was emitted (`TokensLast`), for `enqueue` refuses afterwards, and
each queue the drain has passed without a timeout stays drained
(`PassedDrained`), since what could fill it again comes from a queue passed
earlier. With `join()` in a task of its own the workers run between two of its
steps; the invariant therefore speaks of each callback in the loop, and not of
the drain alone.

Its second part is about the feed, for any users, references, tags, policies,
runs, deep dives and bounds that satisfy `FeedAssumption`:

* `FeedTypeCorrect`: `FeedSpec => []FeedTypeOK`;
* `CardsLeadToOwnDigests`: `FeedSpec => []DigestOfUser`;
* `OneCard`: `Alone /\ FeedSpec => []OneCardPerSource`; MCFeed_twice shows why
  the hypothesis is needed;
* `WeightsNeverHide`: what a user and a workspace give the tags of an event moves
  its priority by at most half the scale and leaves it on the scale and above
  zero, where no card would be made. It is a fact about the arithmetic of
  `Priority`, which no run checks.

`FeedInv` says that batches name events that exist, and that a deep
dive that is about to link has a digest of its user to find (`DivesOwnCard`).
`AloneInv` says that runs that go on have different users, and that the source a
run is about to write was not shown when it looked, nor since (`CreatesUnseen`):
only runs of the same user could have shown it.

Liveness (`RequestsAnswered`, `EventsSettled`, `GenerateAgain`, `LoneServes`,
`ShutdownEnds`) is only model-checked: the prover does not reach ENABLED and
fairness.

## 5. What is not modelled, and why

* Text: what is extracted, chunked, embedded, generated, scored or rendered is
  data. A document is a content, an event is muted, short or plain, a digest is
  its owner.
* Wording, layout, logging, metrics, names, slugs, passwords, the contents of
  audit rows, the delivery of mail.
* Transaction isolation is modelled as the commits other requests may make
  between two statements; one statement is atomic. SQLite on the desktop has
  one writer, which only removes interleavings.
* Hash collisions, and clocks that go back.
* External services (LLM providers, search, SMTP): a call that succeeds or
  fails. `common/services/llm`, `search` and `security` keep no state.
* Plugins, and what of tags no other step depends on: names, descriptions and
  the requests for tags are one transaction per call over rows with unique keys;
  what a selected tag changes is the order of a text. Muting, blocking and the
  workspace policy are in `Feed`.
* Of the frontend: sign-up, the trusted-LAN mode without accounts, the pages that
  only list (people, audit, overview), the forms of tags and policies, the details
  of an upload, and React's double effects of development builds.
* The lifespan of the server is modelled in the trusted-LAN mode with a bundled
  Qdrant, which has the longest start; the other modes leave steps out. The
  supervisor, the operating system and Qdrant itself are external, modelled from
  how the code uses them. A Qdrant that hangs and was left behind by a killed
  worker holds the address for ever; `LoneServes` excludes it by name.
* Packaging, installers and verification scripts.

## 6. Plan

Done, in this order: Membership with AdminRegistry, Invitations, Telemetry,
Ingestion with DesktopFiles and Uploads, Feed, Collectors with DesktopWindow,
Newsletter with Schedules, Console, ServerRuntime; the proofs of Membership,
Invitations, Uploads, DesktopFiles, ServerRuntime, Schedules, DesktopWindow,
Telemetry, Feed and Console.
Left:

1. `Retrieval`: Membership composed with Ingestion's scope filter, so that what a
   removed member still retrieves is bounded by the request it began.
2. `Chunking`: `chunk_text` as a function of positions, against a reference
   definition over bounded inputs.
3. Several tabs of one browser: `Console` is one tab, with `SessionEnds` for what
   the others do to its session.

Abstract specifications worth stating: `AdminRegistry` (done); a single-use link
for Invitations; a FIFO buffer that is emptied before it closes for Telemetry; a
set of documents with at-least-once indexing for Ingestion; a run per day for
Schedules.

Theorems worth proving next: `LockHolderCurrent` of `InvitationsSpec`, whose jobs write membership rows under
the same lock.
