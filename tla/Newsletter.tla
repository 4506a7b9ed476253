------------------------------ MODULE Newsletter ------------------------------
(***************************************************************************)
(* The newsletter pipeline: which sources a request may use, the built-in  *)
(* templates every generation brings up to date, and the digests it saves. *)
(*                                                                         *)
(* A generation runs on a thread of its own: the text first, then one      *)
(* transaction for the templates and one for the digest.  Two generations  *)
(* may read the templates before either has inserted them.                 *)
(***************************************************************************)
EXTENDS Naturals, FiniteSets

CONSTANTS
  Keys, DefaultKey, EventsKey,   \* keys of BUILTIN_TEMPLATES
  OtherKey,                      \* a key that is not built in
  Jobs                           \* threads of interactive generations

ASSUME NewsletterAssumption == {DefaultKey, EventsKey} \subseteq Keys /\ OtherKey \notin Keys

VARIABLES
  templates,   \* rows of newslettertemplate
  digests,     \* rows of newsletterdigest
  job          \* the interactive generations

newsletterVars == <<templates, digests, job>>

-----------------------------------------------------------------------------
(* Which sources a text is made from.                                      *)

\* What the terms of a topic say, and whether clipboard history was found.
Topics == {t \in [clipboard : BOOLEAN, clips : BOOLEAN, sensitive : BOOLEAN, world : BOOLEAN, today : BOOLEAN] :
             t.today => t.sensitive}

\* resolve_search_mode.
Mode(key, fallback) == IF key THEN "serper" ELSE IF fallback THEN "fallback" ELSE "disabled"

\* What a search tool answers: results, with a line that can be used or without,
\* or a message that begins differently for each way to have none.
NoResults == {"missing key", "no client", "blocked", "error", "no results"}
Searched(mode) ==
  CASE mode = "serper"   -> {"results", "unusable", "blocked", "error", "no results"}
    [] mode = "fallback" -> {"results", "unusable", "no client", "blocked", "error", "no results"}
    [] mode = "disabled" -> {"missing key"}

\* Mutation: a search that the policy blocked is taken for an answer.
UnavailableUnlessBlocked(answer) == answer \in NoResults \ {"blocked"}

\* _search_unavailable, which looks for the messages in the answer.
Unavailable(answer) == answer \in NoResults

WorldEvents(t) == t.sensitive /\ t.world

\* _build_current_events_brief, from the answer of the first tool.
EventsBrief(tools, answer) ==
  IF ~tools THEN [text |-> "unavailable", search |-> FALSE, llm |-> FALSE]
  ELSE [text |-> IF Unavailable(answer) THEN "unverified"
                 ELSE IF answer = "unusable" THEN "insufficient" ELSE "results",
        search |-> TRUE, llm |-> FALSE]

\* _build_body.  Clipboard questions get no tools; what is known about the date
\* and what cannot be verified is never left to the model.
Body(t, key, mode, answer) ==
  LET tools  == mode # "disabled" /\ ~t.clipboard
      events == WorldEvents(t) \/ key = EventsKey
      local(text) == [text |-> text, search |-> FALSE, llm |-> FALSE]
  IN IF t.clipboard /\ ~t.clips THEN local("no clips")
     ELSE IF t.today /\ ~events /\ ~t.clipboard THEN local("date")
     ELSE IF events THEN EventsBrief(tools, answer)
     ELSE [text |-> "llm", search |-> tools, llm |-> TRUE]

\* get_template: an unknown key is the default one.
TemplateOf(key) == IF key \in Keys THEN key ELSE DefaultKey

-----------------------------------------------------------------------------
(* The templates and the digests.                                          *)

\* What a request asks, and the text it gets with what the text was made from.
Asks == [topic : Topics, key : Keys \cup {OtherKey}, mode : {"serper", "fallback", "disabled"}]
Plain == [topic |-> [clipboard |-> FALSE, clips |-> FALSE, sensitive |-> FALSE, world |-> FALSE, today |-> FALSE],
          key |-> DefaultKey, mode |-> "disabled"]
NoDraft == [text |-> "none", search |-> FALSE, llm |-> FALSE, answer |-> "none"]
Drafts == [text : {"none", "no clips", "date", "unavailable", "unverified", "insufficient", "results", "llm"},
           search : BOOLEAN, llm : BOOLEAN, answer : NoResults \cup {"results", "unusable", "none"}]

Digest == [key : Keys, schedule : BOOLEAN]

NewsletterTypeOK ==
  /\ templates \subseteq Keys
  /\ digests \subseteq Digest
  /\ job \in [Jobs -> [step : {"idle", "body", "look", "sync", "save"}, seen : SUBSET Keys,
                       ask : Asks, draft : Drafts]]

IdleJob == [step |-> "idle", seen |-> {}, ask |-> Plain, draft |-> NoDraft]

\* An installation may have run with fewer templates.
NewsletterInit ==
  /\ templates \in {{}, {DefaultKey}, Keys}
  /\ digests = {}
  /\ job = [j \in Jobs |-> IdleJob]

\* sync_builtin_templates inserts what it did not find; a row that another
\* transaction inserted meanwhile is a duplicate key.
Conflicts(seen) == (Keys \ seen) \cap templates # {}

\* Mutation: only the template of this generation is inserted.
SyncOwn(seen) == templates' = templates \cup (seen \cap Keys)

Sync(seen) == templates' = templates \cup Keys

SaveDigest(key, scheduled) ==
  digests' = digests \cup {[key |-> TemplateOf(key), schedule |-> scheduled]}

\* generate_newsletter of the thread j.
Request(j, ask) ==
  /\ job[j].step = "idle"
  /\ job' = [job EXCEPT ![j] = [step |-> "body", seen |-> {}, ask |-> ask, draft |-> NoDraft]]
  /\ UNCHANGED <<templates, digests>>

\* The text, or an error that the caller reports.
Generated(j) ==
  /\ job[j].step = "body"
  /\ \/ \E answer \in Searched(job[j].ask.mode) :
          LET ask == job[j].ask
              body == Body(ask.topic, TemplateOf(ask.key), ask.mode, answer)
              draft == [text |-> body.text, search |-> body.search, llm |-> body.llm, answer |-> answer]
          IN job' = [job EXCEPT ![j] = [step |-> "look", seen |-> {}, ask |-> ask, draft |-> draft]]
     \/ job' = [job EXCEPT ![j] = IdleJob]
  /\ UNCHANGED <<templates, digests>>

Look(j) ==
  /\ job[j].step = "look"
  /\ job' = [job EXCEPT ![j] = [IdleJob EXCEPT !.step = "sync", !.seen = templates]]
  /\ UNCHANGED <<templates, digests>>

\* The text of a generation whose transaction fails is lost with it.
SyncTemplates(j) ==
  /\ job[j].step = "sync"
  /\ \/ ~Conflicts(job[j].seen) /\ Sync(job[j].seen) /\ job' = [job EXCEPT ![j].step = "save"]
     \/ UNCHANGED templates /\ job' = [job EXCEPT ![j] = IdleJob]
  /\ UNCHANGED digests

\* The key is the request's.
Save(j, key) ==
  /\ job[j].step = "save"
  /\ \/ SaveDigest(key, FALSE)
     \/ UNCHANGED digests
  /\ job' = [job EXCEPT ![j] = IdleJob]
  /\ UNCHANGED templates

NewsletterStep(asks) ==
  \E j \in Jobs :
    \/ \E ask \in asks : Request(j, ask)
    \/ Generated(j) \/ Look(j) \/ SyncTemplates(j)
    \/ \E key \in Keys \cup {OtherKey} : Save(j, key)

-----------------------------------------------------------------------------
\* A question about the clipboard uses no external research, and a brief about
\* world events is never written by the model, nor from a search that failed
\* (pipeline.py: "Do not use external research for this request."; templates.py:
\* "Do not invent current events when web search cannot verify them.").
SourcesRespected ==
  \A j \in Jobs : job[j].step = "look" =>
    LET ask == job[j].ask
        draft == job[j].draft
    IN /\ ask.topic.clipboard => ~draft.search
       /\ WorldEvents(ask.topic) \/ ask.key = EventsKey => ~draft.llm
       /\ draft.text = "results" => draft.search /\ draft.answer = "results"

\* A digest names a template that is there, whichever generations came first
\* and however they failed (the foreign key of newsletterdigest.template_key).
DigestTemplatesExist == \A d \in digests : d.key \in templates
=============================================================================
