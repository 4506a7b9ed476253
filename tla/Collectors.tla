------------------------------ MODULE Collectors ------------------------------
(***************************************************************************)
(* The desktop's telemetry manager: collectors, the runtime behind them,   *)
(* the preferences that switch them, and the shutdown of both.             *)
(*                                                                         *)
(* Everything but the runtime's own thread happens on the GUI thread.  In  *)
(* local mode events go to the runtime (module Telemetry); in enterprise   *)
(* mode clipboard text goes to the window, which shares it.  A text on the *)
(* clipboard is one with an address in it.                                 *)
(***************************************************************************)
EXTENDS Integers, FiniteSets

CONSTANTS Texts, NoText

ASSUME CollectorsAssumption == NoText \notin Texts

VARIABLES
  mode,        \* "local", or "enterprise" with a dispatch function
  prefs,       \* QSettings: telemetry/data_collection_enabled and the clipboard's two
  flags,       \* _data_collection_enabled, settings.CLIPBOARD_*: the copy in memory
  runtime,     \* the thread and its loop
  clipboard,   \* ClipboardCollector._connected
  watching,    \* FolderWatchCollector._observer
  last,        \* _last_hash
  taken,       \* what emit handed on of the last text: its address, its text
  store        \* qdrant_client, which generations and the runtime share

collectorVars == <<mode, prefs, flags, runtime, clipboard, watching, last, taken, store>>

Preferences == [data : BOOLEAN, clip : BOOLEAN, raw : BOOLEAN]

\* The settings dialog clears the boxes that depend on one it clears.
Choices == {p \in Preferences : (p.clip => p.data) /\ (p.raw => p.clip)}

CollectorsTypeOK ==
  /\ mode \in {"local", "enterprise"}
  /\ prefs \in Preferences /\ flags \in Preferences
  /\ runtime \in {"none", "starting", "running", "stopped", "orphan"}
  /\ {clipboard, watching} \subseteq BOOLEAN
  /\ last \in Texts \cup {NoText} /\ taken \subseteq {"address", "text"}
  /\ store \in {"open", "closed"}

\* The window is built with the settings of the environment in memory; the
\* manager reads the preferences when it starts.
CollectorsInit ==
  /\ mode \in {"local", "enterprise"}
  /\ prefs \in Choices
  /\ flags = [data |-> FALSE, clip |-> FALSE, raw |-> FALSE]
  /\ runtime = "none" /\ store = "open"
  /\ clipboard = FALSE /\ watching = FALSE
  /\ last = NoText /\ taken = {}

\* _sync_runtime_preferences
Synced(p) == [data |-> p.data, clip |-> p.data /\ p.clip, raw |-> p.data /\ p.clip /\ p.raw]

Alive == runtime \in {"starting", "running"}

\* The rest of start() with the collection enabled by f.  A runtime that takes
\* more than five seconds raises, and no collector is started; a thread that
\* is alive is not waited for.
Collect(f) ==
  \/ /\ mode = "enterprise"
     /\ clipboard' = (clipboard \/ f.clip)
     /\ UNCHANGED <<runtime, watching>>
  \/ /\ mode = "local"
     /\ runtime' = IF Alive THEN runtime ELSE "running"
     /\ clipboard' = (clipboard \/ f.clip)
     /\ watching' = TRUE
  \/ /\ mode = "local" /\ ~Alive
     /\ runtime' = "starting"
     /\ UNCHANGED <<clipboard, watching>>

ManagerStart ==
  /\ flags' = Synced(prefs)
  /\ IF Synced(prefs).data THEN Collect(Synced(prefs))
     ELSE UNCHANGED <<runtime, clipboard, watching>>
  /\ UNCHANGED <<mode, prefs, last, taken, store>>

RuntimeReady ==
  /\ runtime = "starting"
  /\ runtime' = "running"
  /\ UNCHANGED <<mode, prefs, flags, clipboard, watching, last, taken, store>>

\* Mutation: collection that is switched off leaves the clipboard connected.
ReloadUnstopped(p) ==
  /\ prefs' = p /\ flags' = Synced(p)
  /\ IF p.data /\ ~flags.data THEN Collect(Synced(p))
     ELSE UNCHANGED <<runtime, clipboard, watching>>
  /\ UNCHANGED <<mode, last, taken, store>>

\* Mutation: only a change of the first two boxes is taken over.
ReloadCompared(p) ==
  LET f == IF p.data = prefs.data /\ p.clip = prefs.clip THEN flags ELSE Synced(p) IN
  /\ prefs' = p /\ flags' = f
  /\ \/ f.data /\ ~flags.data /\ Collect(f)
     \/ ~f.data /\ flags.data /\ clipboard' = FALSE /\ watching' = FALSE /\ UNCHANGED runtime
     \/ /\ f.data = flags.data
        /\ clipboard' = IF f.clip # flags.clip THEN f.clip ELSE clipboard
        /\ UNCHANGED <<runtime, watching>>
  /\ UNCHANGED <<mode, last, taken, store>>

\* The dialog saves p and reload_preferences compares what was and what is.
Reload(p) ==
  LET f == Synced(p) IN
  /\ prefs' = p /\ flags' = f
  /\ \/ f.data /\ ~flags.data /\ Collect(f)
     \/ ~f.data /\ flags.data /\ clipboard' = FALSE /\ watching' = FALSE /\ UNCHANGED runtime
     \/ /\ f.data = flags.data
        /\ clipboard' = IF f.clip # flags.clip THEN f.clip ELSE clipboard
        /\ UNCHANGED <<runtime, watching>>
  /\ UNCHANGED <<mode, last, taken, store>>

\* The payload of a clipboard event.
Payload == {"address"} \cup (IF flags.raw THEN {"text"} ELSE {})

\* emit: the runtime takes the payload once it is ready, the server the text.
Emitted ==
  IF ~flags.data THEN {}
  ELSE IF mode = "enterprise" THEN Payload \cap {"text"}
  ELSE IF runtime = "running" THEN Payload ELSE {}

\* _on_clipboard_change hands a text it did not hand last to emit; what is
\* shared of it is the window's.
CopyText(t) ==
  /\ clipboard /\ t # last
  /\ last' = t /\ taken' = Emitted
  /\ UNCHANGED <<mode, prefs, flags, runtime, clipboard, watching, store>>

\* shutdown(): the collectors, then the runtime, then the store.  A runtime that
\* is not ready has no loop to stop, and with the collection switched off nobody
\* stops it: its thread goes on with the store closed, an orphan.
Shutdown ==
  /\ clipboard' = FALSE /\ watching' = FALSE
  /\ runtime' = IF runtime = "running" /\ flags.data THEN "stopped"
                ELSE IF Alive THEN "orphan" ELSE runtime
  /\ store' = "closed"
  /\ UNCHANGED <<mode, prefs, flags, last, taken>>

-----------------------------------------------------------------------------
\* Collectors run only while the saved preferences allow them, through any
\* order of starts, late runtimes and changes of the settings
\* (telemetry_manager.py: start, reload_preferences, shutdown).
ConsentHeld ==
  /\ clipboard => prefs.data /\ prefs.clip
  /\ watching => prefs.data

\* The text itself is handed on with all three consents in force only, its
\* address with the first two, whatever was saved since the collector started
\* (clipboard_collector.py:72-80).
TextWithConsent ==
  [][last' # last => /\ taken' # {} => prefs.data /\ prefs.clip
                     /\ "text" \in taken' => prefs.raw]_collectorVars

\* docs/security.md: "Clipboard content requires telemetry, clipboard and
\* raw-text consent."  In local mode the address in it is stored without.
ContentWithRawConsent == [][last' # last /\ taken' # {} => prefs.raw]_collectorVars

\* The shutdown leaves no runtime with the store closed under it: not kept after
\* the collection was switched off, or before a late runtime is ready.
RuntimeStopped == runtime # "orphan"
=============================================================================
