----------------------------- MODULE WindowProofs -----------------------------
(***************************************************************************)
(* Proofs about DesktopWindow and the Collectors it extends, for any       *)
(* texts, workspaces and bounds: collection follows consent, shares have a *)
(* workspace, what is copied is what is shown, and the panel follows the   *)
(* cards.                                                                  *)
(***************************************************************************)
EXTENDS DesktopWindow, SequenceTheorems, TLAPS

USE WindowAssumption DEF WindowAssumption

-----------------------------------------------------------------------------
(* Collection follows consent.                                             *)

\* What is in memory is no more than what is saved, and what runs no more than
\* what is in memory.
ConsentInv ==
  /\ prefs \in Preferences /\ flags \in Preferences
  /\ flags.data => prefs.data
  /\ flags.clip => flags.data /\ prefs.clip
  /\ flags.raw => flags.clip /\ prefs.raw
  /\ clipboard => flags.clip
  /\ watching => flags.data

\* The steps of the window that reach the collectors.
CollectorStep ==
  \/ ManagerStart \/ RuntimeReady \/ Shutdown
  \/ \E p \in Choices : Reload(p)
  \/ \E t \in Texts : CopyText(t)

LEMMA CollectorSteps ==
  [WindowNext]_windowVars => CollectorStep \/ UNCHANGED collectorVars
BY Zenon DEF WindowNext, windowVars, CollectorStep, workVars, guiVars, bounds,
   Open, EditTopic, ProcessFeed, StartGeneration, StartDeepDive, ClearResult, Dismiss, SaveSettings,
   SelectWorkspace, Copy, DropFile, Answer, FinishAI, EndDeepDive, Process, CommitDismiss, Refresh, SendShare,
   HandleSignal, Close

LEMMA SyncedConsent ==
  ASSUME NEW p \in Preferences
  PROVE  /\ Synced(p) \in Preferences
         /\ Synced(p).data = p.data
         /\ Synced(p).clip => p.data /\ p.clip
         /\ p.data /\ p.clip => Synced(p).clip
         /\ Synced(p).raw => Synced(p).clip /\ p.raw
BY DEF Synced, Preferences

LEMMA ConsentKept == ConsentInv /\ [WindowNext]_windowVars => ConsentInv'
<1> SUFFICES ASSUME ConsentInv, CollectorStep \/ UNCHANGED collectorVars PROVE ConsentInv'
  BY CollectorSteps
<1>1. CASE ManagerStart
  <2> DEFINE f == Synced(prefs)
  <2>1. flags' = f /\ prefs' = prefs BY <1>1 DEF ManagerStart
  <2>2. /\ f \in Preferences /\ f.data = prefs.data /\ (f.clip => prefs.data /\ prefs.clip)
        /\ (prefs.data /\ prefs.clip => f.clip) /\ (f.raw => f.clip /\ prefs.raw)
    BY SyncedConsent DEF ConsentInv
  <2>3. clipboard' => clipboard \/ f.clip BY <1>1 DEF ManagerStart, Collect
  <2>4. watching' => watching \/ f.data BY <1>1 DEF ManagerStart, Collect
  <2> HIDE DEF f
  <2> QED BY <2>1, <2>2, <2>3, <2>4 DEF ConsentInv
<1>2. CASE \E p \in Choices : Reload(p)
  <2>1. PICK p \in Choices : Reload(p) BY <1>2
  <2> DEFINE f == Synced(p)
  <2>2. p \in Preferences BY DEF Choices
  <2>3. flags' = f /\ prefs' = p BY <2>1 DEF Reload
  <2>4. /\ f \in Preferences /\ f.data = p.data /\ (f.clip => p.data /\ p.clip)
        /\ (p.data /\ p.clip => f.clip) /\ (f.raw => f.clip /\ p.raw)
    BY <2>2, SyncedConsent
  <2>5. /\ clipboard' => f.clip \/ (clipboard /\ f.data = flags.data /\ f.clip = flags.clip)
                      \/ (clipboard /\ ~flags.data)
        /\ watching' => f.data \/ (watching /\ f.data = flags.data)
    <3> HIDE DEF f
    <3>1. CASE f.data /\ ~flags.data /\ Collect(f)
      <4>1. clipboard' => clipboard \/ f.clip BY <3>1 DEF Collect
      <4> QED BY <3>1, <4>1, Zenon
    <3>2. CASE ~f.data /\ flags.data /\ clipboard' = FALSE /\ watching' = FALSE BY <3>2, Zenon
    <3>3. CASE f.data = flags.data /\ clipboard' = (IF f.clip # flags.clip THEN f.clip ELSE clipboard) /\ UNCHANGED watching
      <4>1. CASE f.clip # flags.clip BY <3>3, <4>1, Zenon
      <4>2. CASE f.clip = flags.clip BY <3>3, <4>2, Zenon
      <4> QED BY <4>1, <4>2
    <3>4. \/ f.data /\ ~flags.data /\ Collect(f)
          \/ ~f.data /\ flags.data /\ clipboard' = FALSE /\ watching' = FALSE
          \/ f.data = flags.data /\ clipboard' = (IF f.clip # flags.clip THEN f.clip ELSE clipboard) /\ UNCHANGED watching
      BY <2>1, Zenon DEF Reload, f
    <3> QED BY <3>1, <3>2, <3>3, <3>4
  <2> HIDE DEF f
  <2> QED BY <2>2, <2>3, <2>4, <2>5 DEF ConsentInv
<1>3. CASE RuntimeReady \/ Shutdown \/ (\E t \in Texts : CopyText(t)) \/ UNCHANGED collectorVars
  <2>1. UNCHANGED <<prefs, flags>> /\ (clipboard' => clipboard) /\ (watching' => watching)
    BY <1>3 DEF RuntimeReady, Shutdown, CopyText, collectorVars
  <2> QED BY <2>1 DEF ConsentInv
<1> QED BY <1>1, <1>2, <1>3 DEF CollectorStep

\* Collectors run only while the saved preferences allow them, whatever order the
\* user changes them in (telemetry_manager.py: start, reload_preferences, shutdown).
THEOREM ConsentHolds == WindowSpec => []ConsentHeld
<1>1. WindowInit => ConsentInv
  BY DEF WindowInit, CollectorsInit, ConsentInv, Choices, Preferences
<1>2. ConsentInv => ConsentHeld BY DEF ConsentInv, ConsentHeld
<1> QED BY <1>1, <1>2, ConsentKept, PTL DEF WindowSpec

\* The text of the clipboard is handed on with all three consents in force only,
\* its address with the first two (clipboard_collector.py: _on_clipboard_change).
THEOREM TextWithConsentHolds == WindowSpec => TextWithConsent
<1>1. WindowInit => ConsentInv
  BY DEF WindowInit, CollectorsInit, ConsentInv, Choices, Preferences
<1>2. ConsentInv /\ [WindowNext]_windowVars =>
        [last' # last => /\ taken' # {} => prefs.data /\ prefs.clip
                         /\ "text" \in taken' => prefs.raw]_collectorVars
  <2> SUFFICES ASSUME ConsentInv, CollectorStep, last' # last
               PROVE  /\ taken' # {} => prefs.data /\ prefs.clip
                      /\ "text" \in taken' => prefs.raw
    BY CollectorSteps DEF collectorVars
  <2>1. PICK t \in Texts : CopyText(t)
    BY DEF CollectorStep, ManagerStart, RuntimeReady, Shutdown, Reload
  <2>2. clipboard /\ taken' = Emitted BY <2>1 DEF CopyText
  <2>3. prefs.data /\ prefs.clip BY <2>2 DEF ConsentInv
  <2>4. "text" \in Emitted => flags.raw BY DEF Emitted, Payload
  <2> QED BY <2>2, <2>3, <2>4 DEF ConsentInv
<1> QED BY <1>1, <1>2, ConsentKept, PTL DEF WindowSpec, TextWithConsent

\* Clipboard text is taken for the server with all three consents in force only
\* (telemetry_manager.py: emit).
THEOREM SharedWithConsentHolds == WindowSpec => SharedWithConsent
<1>1. WindowInit => ConsentInv
  BY DEF WindowInit, CollectorsInit, ConsentInv, Choices, Preferences
<1>2. ConsentInv /\ [WindowNext]_windowVars =>
        [last' # last /\ sharing' # sharing => prefs.data /\ prefs.clip /\ prefs.raw]_windowVars
  <2> SUFFICES ASSUME ConsentInv, WindowNext, last' # last, sharing' # sharing
               PROVE  prefs.data /\ prefs.clip /\ prefs.raw
    BY DEF windowVars, collectorVars
  <2>1. PICK t \in Texts : Copy(t)
    BY DEF WindowNext, workVars, collectorVars, Open, EditTopic, ProcessFeed, StartGeneration, StartDeepDive,
       ClearResult, Dismiss, SaveSettings, SelectWorkspace, DropFile, Answer, FinishAI, EndDeepDive, Process,
       CommitDismiss, Refresh, SendShare, HandleSignal, Close, ManagerStart, RuntimeReady, Shutdown, Reload
  <2>2. flags.data /\ flags.raw BY <2>1 DEF Copy, Dispatches, Emitted, Payload
  <2> QED BY <2>2 DEF ConsentInv
<1> QED BY <1>1, <1>2, ConsentKept, PTL DEF WindowSpec, SharedWithConsent

-----------------------------------------------------------------------------
(* Nothing is shared without a workspace.                                  *)

\* A share waits only where a workspace was selected, and one stays selected.
ShareInv ==
  /\ sharing # {} => workspace # NoWorkspace
  /\ SharedInWorkspace

\* The server never receives text without a workspace (main_window.py:
\* _share_enterprise_context; enterprise_client.py: _request).
THEOREM SharedInWorkspaceHolds == WindowSpec => []SharedInWorkspace
<1>1. WindowInit => ShareInv BY DEF WindowInit, ShareInv, SharedInWorkspace
<1>2. ShareInv /\ [WindowNext]_windowVars => ShareInv'
  <2> SUFFICES ASSUME ShareInv, [WindowNext]_windowVars PROVE ShareInv' OBVIOUS
  <2> USE DEF ShareInv, SharedInWorkspace
  <2>1. CASE \E w \in Workspaces : SelectWorkspace(w)
    BY <2>1 DEF SelectWorkspace
  <2>2. CASE \E t \in Texts : Copy(t) \/ DropFile(t)
    BY <2>2 DEF Copy, DropFile, ShareText
  <2>3. CASE \E s \in sharing : SendShare(s)
    BY <2>3 DEF SendShare
  <2>4. CASE UNCHANGED <<sharing, shared, workspace>> BY <2>4
  <2>5. \/ UNCHANGED <<sharing, shared, workspace>> \/ \E w \in Workspaces : SelectWorkspace(w)
        \/ (\E t \in Texts : Copy(t) \/ DropFile(t)) \/ (\E s \in sharing : SendShare(s))
    BY Zenon DEF WindowNext, windowVars, workVars, Open, EditTopic, ProcessFeed, StartGeneration, StartDeepDive,
       ClearResult, Dismiss, SaveSettings, Answer, FinishAI, EndDeepDive, Process, CommitDismiss, Refresh,
       HandleSignal, Close
  <2> QED BY <2>1, <2>2, <2>3, <2>4, <2>5
<1>3. ShareInv => SharedInWorkspace BY DEF ShareInv
<1> QED BY <1>1, <1>2, <1>3, PTL DEF WindowSpec

-----------------------------------------------------------------------------
(* The queue of the GUI thread.                                            *)

Names == {"result", "error", "finished", "dive", "dive error", "changed", "cards"}
Signals == [sig : Names, val : Nat]

\* A deep dive posts the brief it was started for.
InboxOK ==
  /\ inbox \in Seq(Signals) /\ cards \in Nat /\ runs \in Nat
  /\ ai \in [step : {"idle", "run", "failed", "ending"}, brief : Nat]
  /\ dive.brief \in Nat /\ (dive.step = "run" => dive.brief # None)
  /\ \A i \in DOMAIN inbox : inbox[i].sig = "dive" => inbox[i].val # None

\* A step posts nothing, posts one signal, or takes the first.
LEMMA Posted ==
  ASSUME InboxOK, NEW s \in Signals, inbox' = Append(inbox, s)
  PROVE  /\ inbox' \in Seq(Signals) /\ DOMAIN inbox' = DOMAIN inbox \cup {Len(inbox) + 1}
         /\ \A i \in DOMAIN inbox : inbox'[i] = inbox[i] /\ i \in Nat /\ i < Len(inbox) + 1
         /\ inbox'[Len(inbox) + 1] = s
BY DEF InboxOK

LEMMA Taken ==
  ASSUME InboxOK, inbox # <<>>, inbox' = Tail(inbox)
  PROVE  /\ inbox' \in Seq(Signals) /\ Head(inbox) \in Signals /\ 1 \in DOMAIN inbox /\ Head(inbox) = inbox[1]
         /\ \A i \in DOMAIN inbox' : i + 1 \in DOMAIN inbox /\ inbox'[i] = inbox[i + 1] /\ i \in Nat \ {0}
         /\ \A i \in DOMAIN inbox : i \in Nat /\ (i # 1 => i - 1 \in DOMAIN inbox' /\ inbox'[i - 1] = inbox[i])
BY DEF InboxOK

\* What a worker that posts s leaves of the queue, if it posts at all.
LEMMA PostedNamed ==
  ASSUME InboxOK, NEW s \in Signals, s.sig = "dive" => s.val # None, inbox' = Append(inbox, s)
  PROVE  inbox' \in Seq(Signals) /\ \A i \in DOMAIN inbox' : inbox'[i].sig = "dive" => inbox'[i].val # None
<1>1. inbox' \in Seq(Signals) BY Posted
<1>2. ASSUME NEW i \in DOMAIN inbox', inbox'[i].sig = "dive" PROVE inbox'[i].val # None
  <2>1. CASE i \in DOMAIN inbox BY <1>2, <2>1, Posted DEF InboxOK
  <2>2. CASE i = Len(inbox) + 1 BY <1>2, <2>2, Posted
  <2> QED BY <1>2, <2>1, <2>2, Posted
<1> QED BY <1>1, <1>2

LEMMA InboxKept == InboxOK /\ [WindowNext]_windowVars => InboxOK'
<1> SUFFICES ASSUME InboxOK, [WindowNext]_windowVars PROVE InboxOK' OBVIOUS
<1> DEFINE Queue == inbox \in Seq(Signals) /\ \A i \in DOMAIN inbox : inbox[i].sig = "dive" => inbox[i].val # None
<1> DEFINE Rest == /\ cards \in Nat /\ runs \in Nat
                   /\ ai \in [step : {"idle", "run", "failed", "ending"}, brief : Nat]
                   /\ dive.brief \in Nat /\ (dive.step = "run" => dive.brief # None)
<1>1. InboxOK <=> Queue /\ Rest BY DEF InboxOK
<1>2. InboxOK' <=> Queue' /\ Rest' BY DEF InboxOK
<1>3. Rest BY <1>1
<1>4. ASSUME NEW s \in Signals, s.sig = "dive" => s.val # None, inbox' = Append(inbox, s) PROVE Queue'
  BY <1>4, PostedNamed
<1>5. ASSUME UNCHANGED inbox PROVE Queue' BY <1>1, <1>5
<1> USE DEF None, Signal, Post, Idle
<1>6. CASE StartGeneration
  <2>1. /\ runs' = runs + 1 /\ ai' = [step |-> "run", brief |-> runs + 1]
        /\ UNCHANGED <<inbox, cards, dive>>
    BY <1>6, Zenon DEF StartGeneration
  <2>2. Rest' BY <1>3, <2>1
  <2> QED BY <1>2, <1>5, <2>1, <2>2
<1>7. CASE StartDeepDive
  <2>1. /\ runs' = runs + 1 /\ dive' = [step |-> "run", brief |-> runs + 1]
        /\ UNCHANGED <<inbox, cards, ai>>
    BY <1>7, Zenon DEF StartDeepDive, guiVars
  <2>2. Rest' BY <1>3, <2>1
  <2> QED BY <1>2, <1>5, <2>1, <2>2
<1>8. CASE Answer
  <2>1. Queue'
    <3>1. CASE Post("result", ai.brief) BY <1>3, <1>4, <3>1 DEF Signals, Names
    <3>2. CASE Post("error", None) BY <1>4, <3>2 DEF Signals, Names
    <3> QED BY <1>8, <3>1, <3>2 DEF Answer
  <2>2. Rest' BY <1>3, <1>8 DEF Answer, bounds
  <2> QED BY <1>2, <2>1, <2>2
<1>9. CASE FinishAI
  <2>1. Queue'
    <3>1. CASE Post("result", None) BY <1>4, <3>1 DEF Signals, Names
    <3>2. CASE Post("finished", None) BY <1>4, <3>2 DEF Signals, Names
    <3> QED BY <1>9, <3>1, <3>2 DEF FinishAI
  <2>2. /\ ai' = [ai EXCEPT !.step = "ending"] \/ ai' = [step |-> "idle", brief |-> None]
        /\ UNCHANGED <<cards, runs, dive>>
    BY <1>9, Zenon DEF FinishAI, bounds
  <2>3. ai' \in [step : {"idle", "run", "failed", "ending"}, brief : Nat] BY <1>3, <2>2
  <2>4. Rest' BY <1>3, <2>2, <2>3
  <2> QED BY <1>2, <2>1, <2>4
<1>10. CASE EndDeepDive
  <2>1. Queue'
    <3>1. CASE Post("dive", dive.brief) BY <1>3, <1>4, <1>10, <3>1 DEF EndDeepDive, Signals, Names
    <3>2. CASE Post("dive error", None) BY <1>4, <3>2 DEF Signals, Names
    <3> QED BY <1>10, <3>1, <3>2 DEF EndDeepDive
  <2>2. /\ cards' = cards + 1 \/ cards' = cards
        /\ dive' = [step |-> "idle", brief |-> None]
        /\ UNCHANGED <<runs, ai>>
    BY <1>10, Zenon DEF EndDeepDive, bounds
  <2>3. Rest' BY <1>3, <2>2
  <2> QED BY <1>2, <2>1, <2>3
<1>11. CASE Process \/ CommitDismiss
  <2>1. Queue'
    <3>1. CASE Post("changed", None) BY <1>4, <3>1 DEF Signals, Names
    <3>2. CASE UNCHANGED inbox BY <1>5, <3>2
    <3> QED BY <1>11, <3>1, <3>2 DEF Process, CommitDismiss
  <2>2. Rest' BY <1>3, <1>11 DEF Process, CommitDismiss, bounds
  <2> QED BY <1>2, <2>1, <2>2
<1>12. CASE Refresh
  <2>1. Queue'
    <3>1. CASE Post("cards", cards) BY <1>3, <1>4, <3>1 DEF Signals, Names
    <3>2. CASE UNCHANGED inbox BY <1>5, <3>2
    <3> QED BY <1>12, <3>1, <3>2 DEF Refresh
  <2>2. Rest' BY <1>3, <1>12 DEF Refresh, bounds
  <2> QED BY <1>2, <2>1, <2>2
<1>13. CASE HandleSignal
  <2>1. Queue'
    <3>1. inbox' \in Seq(Signals) BY <1>13, Taken DEF HandleSignal
    <3>2. \A i \in DOMAIN inbox' : inbox'[i].sig = "dive" => inbox'[i].val # None
      BY <1>13, Taken DEF HandleSignal, InboxOK
    <3> QED BY <3>1, <3>2
  <2>2. Rest' BY <1>3, <1>13 DEF HandleSignal, bounds
  <2> QED BY <1>2, <2>1, <2>2
<1>14. CASE UNCHANGED <<inbox, cards, runs, ai, dive>> BY <1>2, <1>3, <1>5, <1>14
<1>15. \/ UNCHANGED <<inbox, cards, runs, ai, dive>>
       \/ StartGeneration \/ StartDeepDive \/ Answer \/ FinishAI \/ EndDeepDive \/ Process \/ CommitDismiss
       \/ Refresh \/ HandleSignal
  <2> HIDE DEF None, Signal, Post, Idle
  <2> QED BY Zenon DEF WindowNext, windowVars, workVars, guiVars, bounds, Open, EditTopic, ProcessFeed,
       ClearResult, Dismiss, SaveSettings, SelectWorkspace, Copy, DropFile, SendShare, Close
<1> QED BY <1>6, <1>7, <1>8, <1>9, <1>10, <1>11, <1>12, <1>13, <1>14, <1>15

LEMMA InboxStarts == WindowInit => InboxOK
BY DEF WindowInit, InboxOK, Idle, None

-----------------------------------------------------------------------------
(* What is copied is what is shown.                                        *)

Outs == [kind : Kinds, shown : Nat, markdown : Nat, has : BOOLEAN, failed : BOOLEAN]

\* CopyGivesShown, of the output o.
Good(o) ==
  /\ o \in Outs
  /\ o.has <=> o.markdown # None
  /\ o.markdown # None => o.kind = "dive error" \/ (o.kind = "brief" /\ o.shown = o.markdown)

\* What the handlers make of the output area.
LEMMA GoodBlank ==
  ASSUME NEW k \in Kinds, NEW f \in BOOLEAN
  PROVE  Good(Blank(k)) /\ Good([Blank(k) EXCEPT !.failed = f])
BY DEF Good, Outs, Blank, None

LEMMA GoodBrief ==
  ASSUME NEW b \in Nat, b # None, NEW f \in BOOLEAN
  PROVE  Good(Brief(b)) /\ Good([Brief(b) EXCEPT !.failed = f])
BY DEF Good, Outs, Brief, Kinds

LEMMA GoodError ==
  ASSUME NEW o, Good(o)
  PROVE  Good([o EXCEPT !.kind = "dive error", !.shown = None])
<1> DEFINE e == [o EXCEPT !.kind = "dive error", !.shown = None]
<1>1. e \in Outs /\ e.kind = "dive error" /\ e.markdown = o.markdown /\ e.has = o.has
  BY DEF Good, Outs, Kinds, None
<1> HIDE DEF e
<1>2. Good(e) BY <1>1, Zenon DEF Good
<1> QED BY <1>2 DEF e

LEMMA OutputKept == InboxOK /\ Good(out) /\ [WindowNext]_windowVars => Good(out)'
<1> SUFFICES ASSUME InboxOK, Good(out), [WindowNext]_windowVars PROVE Good(out') BY DEF Good
<1>1. out.failed \in BOOLEAN /\ out.markdown \in Nat BY DEF Good, Outs
<1>2. CASE StartGeneration
  <2>1. out' = Blank("notice") BY <1>2 DEF StartGeneration, Showing
  <2> QED BY <2>1, GoodBlank DEF Kinds
<1>3. CASE ClearResult
  <2>1. out' = [Blank("blank") EXCEPT !.failed = out.failed] BY <1>3 DEF ClearResult, Showing
  <2> QED BY <1>1, <2>1, GoodBlank DEF Kinds
<1>4. CASE \E p \in Choices : SaveSettings(p)
  <2>1. out' = IF out.markdown = None THEN out ELSE [Brief(out.markdown) EXCEPT !.failed = out.failed]
    BY <1>4 DEF SaveSettings, Showing
  <2>2. CASE out.markdown = None BY <2>1, <2>2
  <2>3. CASE out.markdown # None
    <3>1. out' = [Brief(out.markdown) EXCEPT !.failed = out.failed] BY <2>1, <2>3
    <3> QED BY <1>1, <2>3, <3>1, GoodBrief
  <2> QED BY <2>2, <2>3
<1>5. CASE HandleSignal
  <2> DEFINE s == Head(inbox)
  <2>1. s \in Signals /\ (s.sig = "dive" => s.val # None)
    BY <1>5, Taken DEF HandleSignal, InboxOK
  <2>2. s.val \in Nat BY <2>1 DEF Signals
  <2> HIDE DEF s
  <2>3. CASE Notify(s) \/ ShowCards(s) \/ OnFinished(s)
    BY <2>3 DEF Notify, ShowCards, OnFinished, Showing
  <2>4. CASE OnResult(s) \/ OnDeepDive(s)
    <3>1. out' = Brief(s.val) /\ s.val # None BY <2>1, <2>4, Zenon DEF OnResult, OnDeepDive, Showing
    <3> QED BY <2>2, <3>1, GoodBrief
  <2>5. CASE OnEmptyResult(s)
    <3>1. out' = out \/ out' = Blank("notice") BY <2>5, Zenon DEF OnEmptyResult, Showing
    <3> QED BY <3>1, GoodBlank DEF Kinds
  <2>6. CASE OnError(s)
    <3>1. out' = [Blank("error") EXCEPT !.failed = TRUE] BY <2>6, Zenon DEF OnError, Showing
    <3> QED BY <3>1, GoodBlank DEF Kinds
  <2>7. CASE OnDeepDiveError(s)
    <3>1. out' = [out EXCEPT !.kind = "dive error", !.shown = None]
      BY <2>7, Zenon DEF OnDeepDiveError, Showing
    <3> QED BY <3>1, GoodError
  <2> QED BY <1>5, <2>3, <2>4, <2>5, <2>6, <2>7, Zenon DEF HandleSignal, s
<1>6. CASE UNCHANGED out BY <1>6
<1>7. \/ UNCHANGED out \/ StartGeneration \/ ClearResult \/ (\E p \in Choices : SaveSettings(p)) \/ HandleSignal
  BY Zenon DEF WindowNext, windowVars, workVars, guiVars, bounds, Open, EditTopic, ProcessFeed, StartDeepDive,
     Dismiss, SelectWorkspace, Copy, DropFile, SendShare, Answer, FinishAI, EndDeepDive, Process, CommitDismiss,
     Refresh, Close
<1> QED BY <1>2, <1>3, <1>4, <1>5, <1>6, <1>7

\* Copy and Save give the brief of the output area, whichever worker and click
\* came last (main_window.py: on_ai_result, _on_feed_deep_dive_result, clear_result).
THEOREM CopyGivesShownHolds == WindowSpec => []CopyGivesShown
<1>1. WindowInit => Good(out)
  <2> SUFFICES ASSUME WindowInit PROVE Good(out) OBVIOUS
  <2>1. out = Blank("blank") BY DEF WindowInit
  <2> QED BY <2>1, GoodBlank DEF Kinds
<1>2. Good(out) => CopyGivesShown BY DEF Good, CopyGivesShown
<1> QED BY <1>1, <1>2, InboxStarts, InboxKept, OutputKept, PTL DEF WindowSpec

-----------------------------------------------------------------------------
(* The panel follows the cards.                                            *)

\* A refresh is asked for or running, or a signal that asks for one is posted.
Awaited ==
  \/ stale
  \/ feed["refresh"] = "run"
  \/ \E i \in DOMAIN inbox : inbox[i].sig \in {"changed", "dive"}

\* The panel shows the cards as they are once the posted signals are handled.
Latest ==
  \/ \E i \in DOMAIN inbox : /\ inbox[i].sig = "cards" /\ inbox[i].val = cards
                             /\ \A j \in DOMAIN inbox : j > i => inbox[j].sig # "cards"
  \/ panel = cards /\ \A i \in DOMAIN inbox : inbox[i].sig # "cards"

FeedOK == feed \in [FeedWorkers -> {"idle", "run", "ending"}]

PanelInv == FeedOK /\ (Awaited \/ Latest)

\* A signal that is not about the cards changes nothing when it is posted.
LEMMA PostKeeps ==
  ASSUME InboxOK, Awaited \/ Latest, NEW s \in Signals, s.sig # "cards", inbox' = Append(inbox, s),
         UNCHANGED <<stale, cards, panel>>, feed'["refresh"] = feed["refresh"]
  PROVE  Awaited' \/ Latest'
<1>1. /\ DOMAIN inbox' = DOMAIN inbox \cup {Len(inbox) + 1}
      /\ \A i \in DOMAIN inbox : inbox'[i] = inbox[i] /\ i \in Nat /\ i < Len(inbox) + 1
      /\ inbox'[Len(inbox) + 1] = s
  BY Posted
<1>2. CASE Awaited BY <1>1, <1>2 DEF Awaited
<1>3. CASE panel = cards /\ \A i \in DOMAIN inbox : inbox[i].sig # "cards"
  BY <1>1, <1>3 DEF Latest
<1>4. ASSUME NEW i \in DOMAIN inbox, inbox[i].sig = "cards", inbox[i].val = cards,
             \A j \in DOMAIN inbox : j > i => inbox[j].sig # "cards"
      PROVE  Latest'
  <2>1. i \in DOMAIN inbox' /\ inbox'[i].sig = "cards" /\ inbox'[i].val = cards' BY <1>1, <1>4
  <2>2. \A j \in DOMAIN inbox' : j > i => inbox'[j].sig # "cards" BY <1>1, <1>4
  <2> QED BY <2>1, <2>2 DEF Latest
<1> QED BY <1>2, <1>3, <1>4 DEF Latest

\* The signals before the last of the cards are not missed.
LEMMA TakeKeeps ==
  ASSUME InboxOK, Awaited \/ Latest, inbox # <<>>, inbox' = Tail(inbox), UNCHANGED <<stale, cards, feed>>,
         Head(inbox).sig \notin {"changed", "dive"},
         panel' = IF Head(inbox).sig = "cards" THEN Head(inbox).val ELSE panel
  PROVE  Awaited' \/ Latest'
<1>1. /\ 1 \in DOMAIN inbox /\ Head(inbox) = inbox[1]
      /\ \A i \in DOMAIN inbox' : i + 1 \in DOMAIN inbox /\ inbox'[i] = inbox[i + 1] /\ i \in Nat \ {0}
      /\ \A i \in DOMAIN inbox : i \in Nat /\ (i # 1 => i - 1 \in DOMAIN inbox' /\ inbox'[i - 1] = inbox[i])
  BY Taken
<1>2. CASE Awaited
  <2>1. CASE stale \/ feed["refresh"] = "run" BY <2>1 DEF Awaited
  <2>2. ASSUME NEW i \in DOMAIN inbox, inbox[i].sig \in {"changed", "dive"} PROVE Awaited'
    <3>1. i # 1 BY <1>1, <2>2
    <3>2. i - 1 \in DOMAIN inbox' /\ inbox'[i - 1].sig \in {"changed", "dive"} BY <1>1, <2>2, <3>1
    <3> QED BY <3>2 DEF Awaited
  <2> QED BY <1>2, <2>1, <2>2 DEF Awaited
<1>3. CASE panel = cards /\ \A i \in DOMAIN inbox : inbox[i].sig # "cards"
  <2>1. panel' = cards' BY <1>1, <1>3
  <2>2. \A i \in DOMAIN inbox' : inbox'[i].sig # "cards" BY <1>1, <1>3
  <2> QED BY <2>1, <2>2 DEF Latest
<1>4. ASSUME NEW i \in DOMAIN inbox, inbox[i].sig = "cards", inbox[i].val = cards,
             \A j \in DOMAIN inbox : j > i => inbox[j].sig # "cards"
      PROVE  Latest'
  <2>1. CASE i = 1
    <3>1. panel' = cards' BY <1>1, <1>4, <2>1
    <3>2. \A j \in DOMAIN inbox' : inbox'[j].sig # "cards"
      <4> TAKE j \in DOMAIN inbox'
      <4>1. j + 1 \in DOMAIN inbox /\ inbox'[j] = inbox[j + 1] /\ j + 1 > i BY <1>1, <2>1
      <4> QED BY <1>4, <4>1
    <3> QED BY <3>1, <3>2 DEF Latest
  <2>2. CASE i # 1
    <3>1. /\ i - 1 \in DOMAIN inbox' /\ inbox'[i - 1].sig = "cards" /\ inbox'[i - 1].val = cards'
      BY <1>1, <1>4, <2>2
    <3>2. \A j \in DOMAIN inbox' : j > i - 1 => inbox'[j].sig # "cards"
      <4> TAKE j \in DOMAIN inbox'
      <4> HAVE j > i - 1
      <4>1. j + 1 \in DOMAIN inbox /\ inbox'[j] = inbox[j + 1] /\ j + 1 > i BY <1>1
      <4> QED BY <1>4, <4>1
    <3> QED BY <3>1, <3>2 DEF Latest
  <2> QED BY <2>1, <2>2
<1> QED BY <1>2, <1>3, <1>4 DEF Latest

\* What a worker or a click does to the workers of the feed.
LEMMA FeedSet ==
  ASSUME FeedOK, NEW w \in FeedWorkers, NEW x \in {"idle", "run", "ending"}, feed' = [feed EXCEPT ![w] = x]
  PROVE  /\ FeedOK'
         /\ w # "refresh" => feed'["refresh"] = feed["refresh"]
         /\ w = "refresh" => feed'["refresh"] = x
BY DEF FeedOK, FeedWorkers

\* refresh_feed starts a refresh, or leaves a trace of the one it did not start.
LEMMA RefreshAsked ==
  ASSUME FeedOK, RefreshFeed(feed)
  PROVE  FeedOK' /\ Awaited'
<1>1. CASE feed["refresh"] = "idle"
  <2>1. feed' = [feed EXCEPT !["refresh"] = "run"] BY <1>1 DEF RefreshFeed
  <2> QED BY <2>1, FeedSet DEF Awaited, FeedWorkers
<1>2. CASE feed["refresh"] # "idle"
  <2>1. feed' = feed /\ stale' = TRUE BY <1>2 DEF RefreshFeed
  <2> QED BY <2>1 DEF Awaited, FeedOK
<1> QED BY <1>1, <1>2

LEMMA PanelKept == InboxOK /\ PanelInv /\ [WindowNext]_windowVars => PanelInv'
<1> SUFFICES ASSUME InboxOK, FeedOK, Awaited \/ Latest, [WindowNext]_windowVars
             PROVE  FeedOK' /\ (Awaited' \/ Latest')
  BY DEF PanelInv
<1>1. ASSUME FeedOK', feed'["refresh"] = feed["refresh"], UNCHANGED <<inbox, stale, cards, panel>>
      PROVE  FeedOK' /\ (Awaited' \/ Latest')
  BY <1>1 DEF Awaited, Latest
<1>2. CASE Open
  <2>1. UNCHANGED <<inbox, stale, cards, panel>> BY <1>2 DEF Open, guiVars
  <2>2. CASE mode = "local"
    <3>1. feed' = [feed EXCEPT !["process"] = "run", !["refresh"] = "run"] BY <1>2, <2>2 DEF Open
    <3>2. FeedOK' /\ feed'["refresh"] = "run" BY <3>1 DEF FeedOK, FeedWorkers
    <3> QED BY <3>2 DEF Awaited
  <2>3. CASE mode # "local"
    <3>1. feed' = feed BY <1>2, <2>3 DEF Open
    <3> QED BY <1>1, <2>1, <3>1 DEF FeedOK
  <2> QED BY <2>2, <2>3
<1>3. CASE Dismiss \/ ProcessFeed
  <2>1. UNCHANGED <<inbox, stale, cards, panel>> BY <1>3 DEF Dismiss, ProcessFeed, guiVars
  <2>2. feed' = [feed EXCEPT !["dismiss"] = "run"] \/ feed' = [feed EXCEPT !["process"] = "run"]
    BY <1>3 DEF Dismiss, ProcessFeed
  <2>3. FeedOK' /\ feed'["refresh"] = feed["refresh"] BY <2>2, FeedSet DEF FeedWorkers
  <2> QED BY <1>1, <2>1, <2>3
<1>4. CASE Answer \/ FinishAI
  <2>1. PICK s \in Signals : s.sig # "cards" /\ inbox' = Append(inbox, s)
    <3>1. Signal("result", ai.brief) \in Signals /\ Signal("result", None) \in Signals
          /\ Signal("error", None) \in Signals /\ Signal("finished", None) \in Signals
      BY DEF Signal, Signals, Names, None, InboxOK
    <3>2. inbox' \in {Append(inbox, Signal("result", ai.brief)), Append(inbox, Signal("result", None)),
                      Append(inbox, Signal("error", None)), Append(inbox, Signal("finished", None))}
      BY <1>4 DEF Answer, FinishAI, Post
    <3>3. Signal("result", ai.brief).sig # "cards" /\ Signal("result", None).sig # "cards"
          /\ Signal("error", None).sig # "cards" /\ Signal("finished", None).sig # "cards"
      BY DEF Signal
    <3> QED BY <3>1, <3>2, <3>3
  <2>2. UNCHANGED <<stale, cards, panel, feed>> BY <1>4 DEF Answer, FinishAI
  <2> QED BY <2>1, <2>2, PostKeeps DEF FeedOK
<1>5. ASSUME NEW s \in Signals, s.sig \in {"changed", "dive"}, inbox' = Append(inbox, s) PROVE Awaited'
  <2>1. Len(inbox) + 1 \in DOMAIN inbox' /\ inbox'[Len(inbox) + 1] = s BY <1>5, Posted
  <2> QED BY <1>5, <2>1 DEF Awaited
<1>6. CASE EndDeepDive
  <2>1. UNCHANGED <<feed, stale, panel>> BY <1>6 DEF EndDeepDive
  <2>2. CASE Post("dive", dive.brief)
    <3>1. Signal("dive", dive.brief) \in Signals /\ Signal("dive", dive.brief).sig = "dive"
      BY DEF Signal, Signals, Names, InboxOK
    <3> QED BY <1>5, <2>1, <2>2, <3>1 DEF Post, FeedOK
  <2>3. CASE Post("dive error", None) /\ UNCHANGED cards
    <3>1. Signal("dive error", None) \in Signals /\ Signal("dive error", None).sig # "cards"
      BY DEF Signal, Signals, Names, None
    <3> QED BY <2>1, <2>3, <3>1, PostKeeps DEF Post, FeedOK
  <2> QED BY <1>6, <2>2, <2>3 DEF EndDeepDive
<1>7. CASE Process \/ CommitDismiss
  <2>1. /\ feed' = [feed EXCEPT !["dismiss"] = "idle"] \/ feed' = [feed EXCEPT !["process"] = "idle"]
        /\ UNCHANGED <<stale, panel>>
    BY <1>7 DEF Process, CommitDismiss
  <2>2. FeedOK' /\ feed'["refresh"] = feed["refresh"] BY <2>1, FeedSet DEF FeedWorkers
  <2>3. CASE Post("changed", None)
    <3>1. Signal("changed", None) \in Signals /\ Signal("changed", None).sig = "changed"
      BY DEF Signal, Signals, Names, None
    <3> QED BY <1>5, <2>2, <2>3, <3>1 DEF Post
  <2>4. CASE UNCHANGED <<cards, inbox>> BY <1>1, <2>1, <2>2, <2>4
  <2> QED BY <1>7, <2>3, <2>4 DEF Process, CommitDismiss
<1>8. CASE Refresh
  <2>1. UNCHANGED <<cards, panel>> BY <1>8 DEF Refresh
  <2>2. CASE feed["refresh"] = "run"
    <3>1. feed' = [feed EXCEPT !["refresh"] = "ending"] BY <1>8, <2>2 DEF Refresh
    <3>2. FeedOK' BY <3>1, FeedSet DEF FeedWorkers
    <3>3. CASE stale' = TRUE BY <3>2, <3>3 DEF Awaited
    <3>4. CASE Post("cards", cards)
      <4>1. Signal("cards", cards) \in Signals BY DEF Signal, Signals, Names, InboxOK
      <4>2. /\ Len(inbox) + 1 \in DOMAIN inbox' /\ inbox'[Len(inbox) + 1] = Signal("cards", cards)
            /\ \A j \in DOMAIN inbox' : ~(j > Len(inbox) + 1)
        BY <3>4, <4>1, Posted DEF Post, InboxOK
      <4>3. Signal("cards", cards).sig = "cards" /\ Signal("cards", cards).val = cards BY DEF Signal
      <4> QED BY <2>1, <3>2, <4>2, <4>3 DEF Latest
    <3> QED BY <1>8, <2>2, <3>3, <3>4 DEF Refresh
  <2>3. CASE feed["refresh"] # "run"
    <3>1. feed["refresh"] = "ending" /\ feed' = [feed EXCEPT !["refresh"] = "idle"] /\ UNCHANGED <<inbox, stale>>
      BY <1>8, <2>3 DEF Refresh
    <3>2. FeedOK' BY <3>1, FeedSet DEF FeedWorkers
    <3>3. Awaited => Awaited' BY <3>1 DEF Awaited
    <3>4. Latest => Latest' BY <2>1, <3>1 DEF Latest
    <3> QED BY <3>2, <3>3, <3>4
  <2> QED BY <2>2, <2>3
<1>9. CASE HandleSignal
  <2> DEFINE s == Head(inbox)
  <2>1. inbox # <<>> /\ inbox' = Tail(inbox) /\ UNCHANGED cards BY <1>9 DEF HandleSignal
  <2>2. CASE RefreshFeed(feed) BY <2>2, RefreshAsked
  <2>3. CASE /\ s.sig \in {"result", "error", "finished", "dive error", "cards"}
             /\ UNCHANGED <<stale, feed>>
             /\ panel' = IF s.sig = "cards" THEN s.val ELSE panel
    BY <2>1, <2>3, TakeKeeps DEF FeedOK
  <2>4. CASE Notify(s) \/ OnDeepDive(s) BY <2>2, <2>4 DEF Notify, OnDeepDive
  <2>5. CASE ShowCards(s) BY <2>3, <2>5 DEF ShowCards
  <2>6. CASE OnResult(s) \/ OnEmptyResult(s) \/ OnError(s) \/ OnFinished(s) \/ OnDeepDiveError(s)
    <3> HIDE DEF s
    <3>1. s.sig \in {"result", "error", "finished", "dive error"} /\ UNCHANGED <<panel, stale, feed>>
      BY <2>6 DEF OnResult, OnEmptyResult, OnError, OnFinished, OnDeepDiveError
    <3> QED BY <2>3, <3>1
  <2> HIDE DEF s
  <2> QED BY <1>9, <2>4, <2>5, <2>6, Zenon DEF HandleSignal, s
<1>10. CASE UNCHANGED <<inbox, stale, cards, panel, feed>> BY <1>1, <1>10 DEF FeedOK
<1>11. \/ UNCHANGED <<inbox, stale, cards, panel, feed>>
       \/ Open \/ Dismiss \/ ProcessFeed \/ Answer \/ FinishAI \/ EndDeepDive \/ Process \/ CommitDismiss
       \/ Refresh \/ HandleSignal
  BY Zenon DEF WindowNext, windowVars, workVars, guiVars, bounds, EditTopic, StartGeneration, StartDeepDive,
     ClearResult, SaveSettings, SelectWorkspace, Copy, DropFile, SendShare, Close
<1> QED BY <1>2, <1>3, <1>4, <1>6, <1>7, <1>8, <1>9, <1>10, <1>11

\* A change of the cards reaches the panel, unless a refresh failed or was not
\* started for another one (main_window.py: refresh_feed, _on_feed_cards_ready).
THEOREM PanelCurrentHolds == WindowSpec => []PanelCurrent
<1>1. WindowInit => PanelInv
  <2> SUFFICES ASSUME WindowInit PROVE PanelInv OBVIOUS
  <2>1. feed = [f \in FeedWorkers |-> "idle"] /\ inbox = <<>> /\ cards = 0 /\ panel = 0 BY DEF WindowInit
  <2>2. DOMAIN inbox = {} BY <2>1
  <2> QED BY <2>1, <2>2 DEF PanelInv, FeedOK, Latest
<1>2. PanelInv => PanelCurrent
  <2> SUFFICES ASSUME PanelInv, inbox = <<>>, \A f \in FeedWorkers : feed[f] = "idle" PROVE panel = cards \/ stale
    BY DEF PanelCurrent
  <2>1. DOMAIN inbox = {} OBVIOUS
  <2>2. feed["refresh"] = "idle" BY DEF FeedWorkers
  <2> QED BY <2>1, <2>2 DEF PanelInv, Awaited, Latest
<1> QED BY <1>1, <1>2, InboxStarts, InboxKept, PanelKept, PTL DEF WindowSpec
=============================================================================
