---------------------------- MODULE DesktopWindow ----------------------------
(***************************************************************************)
(* The desktop's main window: the workers it starts, the signals they post *)
(* to the GUI thread, the one output area they write, and the close.       *)
(*                                                                         *)
(* A worker is a QThread; its signals wait in the queue of the GUI thread, *)
(* in the order they were posted, while the user goes on.  isRunning() is  *)
(* the state of the thread, not of what it posted.  A brief is a number.   *)
(***************************************************************************)
EXTENDS Collectors, Sequences

CONSTANTS
  Workspaces, NoWorkspace,
  MaxRuns,      \* bound: generations and deep dives
  MaxClicks,    \* bound: what the user does
  MaxCards      \* bound: versions of the cards that new events make

ASSUME WindowAssumption ==
  /\ NoWorkspace \notin Workspaces
  /\ {MaxRuns, MaxClicks, MaxCards} \subseteq Nat

VARIABLES
  win,        \* the window: new, open or closed
  clicks, runs,   \* counters of the bounds
  ai, dive,   \* AIWorker, FeedDeepDiveWorker: [step, brief]
  feed,       \* the feed's refresh, processor and dismiss workers
  inbox,      \* signals posted to the GUI thread
  out,        \* the output area, _current_markdown, _has_result, _generation_error_pending
  buttons,    \* generate_btn and copy_btn
  cards,      \* version of the user's cards in the database
  panel,      \* the version the feed panel shows
  stale,      \* a refresh failed, or was asked for while another was running
  workspace,  \* EnterpriseClient.workspace_id
  sharing,    \* EnterpriseIngestWorkers that have not sent
  shared      \* texts the server received

guiVars == <<inbox, out, buttons, panel, stale>>
workVars == <<ai, dive, feed, cards, workspace, sharing, shared>>
bounds == <<clicks, runs>>
windowVars == <<collectorVars, win, bounds, workVars, guiVars>>

None == 0
Briefs == 1..MaxRuns
Idle == [step |-> "idle", brief |-> None]
FeedWorkers == {"refresh", "process", "dismiss"}
Share == [text : Texts, asked : Workspaces]

Signal(name, n) == [sig |-> name, val |-> n]
Kinds == {"blank", "notice", "brief", "error", "dive error"}
Blank(kind) == [kind |-> kind, shown |-> None, markdown |-> None, has |-> FALSE, failed |-> FALSE]
Brief(b) == [kind |-> "brief", shown |-> b, markdown |-> b, has |-> TRUE, failed |-> FALSE]

WindowTypeOK ==
  /\ CollectorsTypeOK
  /\ win \in {"new", "open", "closed"}
  /\ ai.step \in {"idle", "run", "failed", "ending"} /\ ai.brief \in Briefs \cup {None}
  /\ dive.step \in {"idle", "run"}
  /\ feed \in [FeedWorkers -> {"idle", "run", "ending"}]
  /\ \A i \in DOMAIN inbox : inbox[i].val \in 0..(MaxRuns + MaxCards + MaxClicks)
  /\ out.kind \in Kinds /\ {out.shown, out.markdown} \subseteq Briefs \cup {None}
  /\ buttons \in [generate : BOOLEAN, copy : BOOLEAN]
  /\ panel <= cards
  /\ sharing \subseteq Share /\ workspace \in Workspaces \cup {NoWorkspace}

\* The workspaces of the account were loaded, if the server answered.
WindowInit ==
  /\ CollectorsInit
  /\ win = "new" /\ clicks = 0 /\ runs = 0
  /\ ai = Idle /\ dive = Idle /\ feed = [f \in FeedWorkers |-> "idle"]
  /\ inbox = <<>> /\ cards = 0 /\ panel = 0 /\ stale = FALSE
  /\ out = Blank("blank")
  /\ buttons = [generate |-> TRUE, copy |-> FALSE]
  /\ workspace \in IF mode = "local" THEN {NoWorkspace} ELSE Workspaces \cup {NoWorkspace}
  /\ sharing = {} /\ shared = {}

-----------------------------------------------------------------------------
(* The GUI thread. *)

\* _update_action_states, with the output o and the generation worker a.
Buttons(o, a) == [generate |-> a.step = "idle", copy |-> o.has]

Showing(o, a) == out' = o /\ buttons' = Buttons(o, a)

Click == win = "open" /\ clicks < MaxClicks /\ clicks' = clicks + 1

\* The timers of the constructor: telemetry.start, then in local mode the first
\* poll of the feed and its first refresh.
Open ==
  /\ win = "new"
  /\ win' = "open"
  /\ ManagerStart
  /\ feed' = IF mode = "local" THEN [feed EXCEPT !["process"] = "run", !["refresh"] = "run"] ELSE feed
  /\ UNCHANGED <<bounds, ai, dive, cards, workspace, sharing, shared, guiVars>>

\* start_generation, whose button may be enabled while an answer is on its way.
StartGeneration ==
  /\ Click
  /\ buttons.generate
  /\ mode = "enterprise" => workspace # NoWorkspace
  /\ ai.step = "idle" /\ runs < MaxRuns
  /\ runs' = runs + 1
  /\ ai' = [step |-> "run", brief |-> runs + 1]
  /\ Showing(Blank("notice"), ai')
  /\ UNCHANGED <<collectorVars, win,
                 dive, feed, cards, workspace, sharing, shared, inbox, panel, stale>>

\* start_feed_deep_dive, from a card of the panel.
StartDeepDive ==
  /\ Click
  /\ panel > 0 /\ dive.step = "idle" /\ runs < MaxRuns
  /\ runs' = runs + 1
  /\ dive' = [step |-> "run", brief |-> runs + 1]
  /\ UNCHANGED <<collectorVars, win, ai, feed, cards, workspace, sharing, shared, guiVars>>

ClearResult ==
  /\ Click
  /\ buttons.copy
  /\ Showing([Blank("blank") EXCEPT !.failed = out.failed], ai)
  /\ UNCHANGED <<collectorVars, win, runs, workVars, inbox, panel, stale>>

\* topicChanged: the buttons follow isRunning() before the answer arrives.
EditTopic ==
  /\ win = "open" /\ buttons # Buttons(out, ai)
  /\ buttons' = Buttons(out, ai)
  /\ UNCHANGED <<collectorVars, win, bounds, workVars, inbox, out, panel, stale>>

\* _on_settings_saved: a result is rendered again.
SaveSettings(p) ==
  /\ Click
  /\ p # prefs
  /\ Reload(p)
  /\ Showing(IF out.markdown = None THEN out ELSE [Brief(out.markdown) EXCEPT !.failed = out.failed], ai)
  /\ UNCHANGED <<win, runs, workVars, inbox, panel, stale>>

Dismiss ==
  /\ Click
  /\ panel > 0 /\ feed["dismiss"] = "idle"
  /\ feed' = [feed EXCEPT !["dismiss"] = "run"]
  /\ UNCHANGED <<collectorVars, win, runs, ai, dive, cards, workspace, sharing, shared, guiVars>>

\* The feed timer, every minute, in local mode.
ProcessFeed ==
  /\ win = "open" /\ mode = "local" /\ cards < MaxCards
  /\ feed["process"] = "idle"
  /\ feed' = [feed EXCEPT !["process"] = "run"]
  /\ UNCHANGED <<collectorVars, win, bounds, ai, dive, cards, workspace, sharing, shared, guiVars>>

SelectWorkspace(w) ==
  /\ Click
  /\ mode = "enterprise" /\ workspace \notin {w, NoWorkspace}
  /\ workspace' = w
  /\ UNCHANGED <<collectorVars, win, runs, ai, dive, feed, cards, sharing, shared, guiVars>>

\* _share_enterprise_context and _share_enterprise_file.
ShareText(t) ==
  sharing' = IF workspace = NoWorkspace THEN sharing
             ELSE sharing \cup {[text |-> t, asked |-> workspace]}

\* emit in enterprise mode.
Dispatches == mode = "enterprise" /\ Emitted # {}

\* In local mode what is taken goes to the runtime (module Telemetry).
Copy(t) ==
  /\ Click
  /\ CopyText(t)
  /\ IF Dispatches THEN ShareText(t) ELSE UNCHANGED sharing
  /\ UNCHANGED <<win, runs, ai, dive, feed, cards, workspace, shared, guiVars>>

\* dropEvent in enterprise mode; in local mode it is in DesktopFiles.
DropFile(t) ==
  /\ Click
  /\ mode = "enterprise"
  /\ ShareText(t)
  /\ UNCHANGED <<collectorVars, win, runs, ai, dive, feed, cards, workspace, shared, guiVars>>

-----------------------------------------------------------------------------
(* The workers. *)

Running == win = "open"
Post(name, n) == inbox' = Append(inbox, Signal(name, n))

\* AIWorker.run: an answer, or an error followed by an empty answer.
Answer ==
  /\ Running /\ ai.step = "run"
  /\ \/ Post("result", ai.brief) /\ ai' = [ai EXCEPT !.step = "ending"]
     \/ Post("error", None) /\ ai' = [ai EXCEPT !.step = "failed"]
  /\ UNCHANGED <<collectorVars, win, bounds, dive, feed, cards, workspace, sharing, shared,
                 out, buttons, panel, stale>>

\* The empty answer that follows an error, then QThread.finished.
FinishAI ==
  /\ Running
  /\ \/ ai.step = "failed" /\ Post("result", None) /\ ai' = [ai EXCEPT !.step = "ending"]
     \/ ai.step = "ending" /\ Post("finished", None) /\ ai' = Idle
  /\ UNCHANGED <<collectorVars, win, bounds, dive, feed, cards, workspace, sharing, shared,
                 out, buttons, panel, stale>>

\* FeedDeepDiveWorker.run: the card is linked to its digest before the answer.
EndDeepDive ==
  /\ Running /\ dive.step = "run"
  /\ \/ Post("dive", dive.brief) /\ cards' = cards + 1
     \/ Post("dive error", None) /\ UNCHANGED cards
  /\ dive' = Idle
  /\ UNCHANGED <<collectorVars, win, bounds, ai, feed, workspace, sharing, shared,
                 out, buttons, panel, stale>>

\* FeedProcessorWorker.run, with a card for a new event or none.
Process ==
  /\ Running /\ feed["process"] = "run"
  /\ \/ cards < MaxCards /\ cards' = cards + 1 /\ Post("changed", None)
     \/ UNCHANGED <<cards, inbox>>
  /\ feed' = [feed EXCEPT !["process"] = "idle"]
  /\ UNCHANGED <<collectorVars, win, bounds, ai, dive, workspace, sharing, shared,
                 out, buttons, panel, stale>>

\* FeedDismissWorker.run; an error changes no card.
CommitDismiss ==
  /\ Running /\ feed["dismiss"] = "run"
  /\ feed' = [feed EXCEPT !["dismiss"] = "idle"]
  /\ \/ cards' = cards + 1 /\ Post("changed", None)
     \/ UNCHANGED <<cards, inbox>>
  /\ UNCHANGED <<collectorVars, win, bounds, ai, dive, workspace, sharing, shared,
                 out, buttons, panel, stale>>

\* FeedRefreshWorker.run reads the cards and posts them, or fails; the thread
\* ends later.
Refresh ==
  /\ Running
  /\ \/ /\ feed["refresh"] = "run" /\ feed' = [feed EXCEPT !["refresh"] = "ending"]
        /\ \/ Post("cards", cards) /\ UNCHANGED stale
           \/ stale' = TRUE /\ UNCHANGED inbox
     \/ feed["refresh"] = "ending" /\ feed' = [feed EXCEPT !["refresh"] = "idle"] /\ UNCHANGED <<inbox, stale>>
  /\ UNCHANGED <<collectorVars, win, bounds, ai, dive, cards, workspace, sharing, shared,
                 out, buttons, panel>>

\* EnterpriseIngestWorker.run: _request reads the workspace when it sends, and
\* the text may not arrive.
SendShare(s) ==
  /\ Running
  /\ sharing' = sharing \ {s}
  /\ \/ shared' = shared \cup {[text |-> s.text, asked |-> s.asked, sent |-> workspace]}
     \/ UNCHANGED shared
  /\ UNCHANGED <<collectorVars, win, bounds, ai, dive, feed, cards, workspace, guiVars>>

-----------------------------------------------------------------------------
(* The signals, in the order they were posted. *)

\* refresh_feed: nothing happens while a refresh is running.
RefreshFeed(f) ==
  IF f["refresh"] = "idle" THEN feed' = [f EXCEPT !["refresh"] = "run"] /\ stale' = FALSE
  ELSE feed' = f /\ stale' = TRUE

\* Mutation: the panel waits for the next change.
NotifyIdle(s) ==
  /\ s.sig = "changed"
  /\ UNCHANGED <<feed, stale, out, buttons, panel>>

\* _on_feed_processed with a new card, and the dismiss worker's completed.
Notify(s) ==
  /\ s.sig = "changed"
  /\ RefreshFeed(feed)
  /\ UNCHANGED <<out, buttons, panel>>

ShowCards(s) ==
  /\ s.sig = "cards"
  /\ panel' = s.val
  /\ UNCHANGED <<out, buttons, stale, feed>>

\* on_ai_result with a brief.
OnResult(s) ==
  /\ s.sig = "result" /\ s.val # None
  /\ Showing(Brief(s.val), ai)
  /\ UNCHANGED <<panel, stale, feed>>

\* on_ai_result with nothing: the message of a failure stays, anything else goes.
OnEmptyResult(s) ==
  /\ s.sig = "result" /\ s.val = None
  /\ Showing(IF out.failed THEN out
             ELSE Blank("notice"), ai)
  /\ UNCHANGED <<panel, stale, feed>>

\* Mutation: the brief shown before the error stays in _current_markdown.
OnErrorKept(s) ==
  /\ s.sig = "error"
  /\ Showing([out EXCEPT !.kind = "error", !.shown = None, !.failed = TRUE], ai)
  /\ UNCHANGED <<panel, stale, feed>>

OnError(s) ==
  /\ s.sig = "error"
  /\ Showing([Blank("error") EXCEPT !.failed = TRUE], ai)
  /\ UNCHANGED <<panel, stale, feed>>

\* Mutation: the end of the thread does not reach the buttons.
OnFinishedUnseen(s) ==
  /\ s.sig = "finished"
  /\ UNCHANGED <<out, buttons, panel, stale, feed>>

\* on_ai_finished.
OnFinished(s) ==
  /\ s.sig = "finished"
  /\ Showing(out, ai)
  /\ UNCHANGED <<panel, stale, feed>>

\* _on_feed_deep_dive_result takes the output area, whoever has it.
OnDeepDive(s) ==
  /\ s.sig = "dive"
  /\ Showing(Brief(s.val), ai)
  /\ RefreshFeed(feed)
  /\ UNCHANGED <<panel>>

\* _on_feed_deep_dive_error: the message is shown, the brief behind it stays.
OnDeepDiveError(s) ==
  /\ s.sig = "dive error"
  /\ Showing([out EXCEPT !.kind = "dive error", !.shown = None], ai)
  /\ UNCHANGED <<panel, stale, feed>>

HandleSignal ==
  /\ win = "open" /\ inbox # <<>>
  /\ inbox' = Tail(inbox)
  /\ LET s == Head(inbox) IN
     \/ Notify(s) \/ ShowCards(s)
     \/ OnResult(s) \/ OnEmptyResult(s) \/ OnError(s) \/ OnFinished(s)
     \/ OnDeepDive(s) \/ OnDeepDiveError(s)
  /\ UNCHANGED <<collectorVars, win, bounds, ai, dive, cards, workspace, sharing, shared>>

-----------------------------------------------------------------------------
(* closeEvent. *)

\* The GUI thread stops the collectors, drains the runtime and closes the store;
\* then _ipc_timer, which nothing sets, raises: the lines that wait for the
\* workers are not reached, and the process ends under them.
Close ==
  /\ Click
  /\ win' = "closed"
  /\ Shutdown
  /\ UNCHANGED <<runs, workVars, guiVars>>

WindowNext ==
  \/ Open \/ EditTopic \/ ProcessFeed
  \/ StartGeneration \/ StartDeepDive \/ ClearResult \/ Dismiss
  \/ \E p \in Choices : SaveSettings(p)
  \/ \E w \in Workspaces : SelectWorkspace(w)
  \/ \E t \in Texts : Copy(t) \/ DropFile(t)
  \/ Answer \/ FinishAI \/ EndDeepDive \/ Process \/ CommitDismiss \/ Refresh
  \/ \E s \in sharing : SendShare(s)
  \/ RuntimeReady /\ Running /\ UNCHANGED <<win, bounds, workVars, guiVars>>
  \/ HandleSignal
  \/ Close

\* Threads run, requests and generations have time limits (ENTERPRISE_*_SECONDS,
\* LLM_MAX_EXECUTION_SECONDS), and the GUI thread handles what is posted to it.
WindowSpec ==
  /\ WindowInit /\ [][WindowNext]_windowVars
  /\ WF_windowVars(Answer) /\ WF_windowVars(FinishAI) /\ WF_windowVars(HandleSignal)

-----------------------------------------------------------------------------
\* What Copy and Save give is a brief that is in the output area, or that the
\* message of a failed deep dive covers, whichever of the two workers and the
\* user came last (main_window.py: _current_output_markdown).
CopyGivesShown ==
  /\ out.has <=> out.markdown # None
  /\ out.markdown # None => out.kind = "dive error" \/ (out.kind = "brief" /\ out.shown = out.markdown)

\* When nothing is running or posted, the panel shows the cards as they are,
\* unless a refresh failed or was asked for while another was running.
PanelCurrent ==
  /\ inbox = <<>> /\ \A f \in FeedWorkers : feed[f] = "idle"
  /\ dive.step = "idle" /\ win = "open" /\ mode = "local"
  => panel = cards \/ stale

\* The generation that was started lets the user start another one, whatever
\* deep dives, errors and edits happen meanwhile, or the window is closed.
GenerateAgain == ai.step # "idle" ~> buttons.generate \/ win = "closed"

\* Clipboard text is taken for the server only with all three consents in force
\* (modes.md: "Clipboard text is shared only when telemetry, clipboard
\* collection and raw-text storage are all enabled by the user.").
SharedWithConsent ==
  [][last' # last /\ sharing' # sharing => prefs.data /\ prefs.clip /\ prefs.raw]_windowVars

\* The server never receives text without a workspace.
SharedInWorkspace == \A s \in shared : s.sent # NoWorkspace

\* modes.md: "Generation and explicitly shared context go to that workspace."
SharedWithSelected == \A s \in shared : s.sent = s.asked
=============================================================================
