------------------------------ MODULE Ingestion ------------------------------
(***************************************************************************)
(* Documents and shared text on their way into the two stores.             *)
(*                                                                         *)
(* DocumentIngestionService.ingest hashes a file, extracts its text,       *)
(* upserts its points into Qdrant and then commits twice: the FilesIndex   *)
(* row, then the EventRaw row with its ContextItem.  ingest_workspace_text *)
(* has no file and no index row.  Nothing makes the stores agree: every    *)
(* step is an action, other calls and edits of the file come between two   *)
(* of them, each may fail, and the process may stop after any.             *)
(*                                                                         *)
(* A content stands for a file's bytes, their SHA-256 and the text in      *)
(* them; all the chunks of a text are one point.                           *)
(***************************************************************************)
EXTENDS Integers, FiniteSets

CONSTANTS
  Users, Workspaces, Paths, Contents,
  Calls,       \* calls of ingest or ingest_workspace_text in progress at a time
  TooLarge, Unreadable, Blank,  \* contents over DOC_MAX_MB, that do not parse, without text
  MemberOf,    \* the workspaces a user's request context carries
  Private,     \* the scope of a document without workspace
  NoFile, NoPoint

Scopes == Workspaces \cup {Private}
PointIds == (Users \cup Workspaces) \X Contents
Payload == [text : Contents, user : Users, scope : Scopes]

ASSUME IngestionAssumption ==
  /\ TooLarge \cup Unreadable \cup Blank \subseteq Contents
  /\ Users \cap Workspaces = {} /\ Private \notin Workspaces
  /\ MemberOf \in [Users -> SUBSET Workspaces]
  /\ NoFile \notin Paths \cup Contents /\ NoPoint \notin Payload

VARIABLES
  disk,      \* the bytes at each path
  index,     \* FilesIndex rows
  points,    \* the user_documents collection: point id -> payload
  events,    \* EventRaw rows with their ContextItem
  call,      \* the calls in progress
  offered    \* what users asked to index, and for whom (history)

docVars == <<disk, index, points, events, call, offered>>

Outcomes == {"ingested", "skipped", "failed", "raised"}
Steps == {"idle", "hash", "extract", "upsert", "index", "event"} \cup Outcomes
NotIndexed == [status |-> "none", hash |-> NoFile]

Idle == [step |-> "idle", path |-> NoFile, user |-> NoFile, scope |-> Private,
         hash |-> NoFile, text |-> NoFile]

IsText(k) == call[k].path = NoFile

IngestionTypeOK ==
  /\ disk \in [Paths -> Contents \cup {NoFile}]
  /\ index \in [Paths -> [status : {"none", "skipped", "error", "ingested"},
                          hash : Contents \cup {NoFile}]]
  /\ points \in [PointIds -> Payload \cup {NoPoint}]
  /\ events \subseteq [path : Paths \cup {NoFile}, user : Users, scope : Scopes, hash : Contents]
  /\ offered \subseteq [user : Users, scope : Scopes, text : Contents]
  /\ call \in [Calls -> [step : Steps, path : Paths \cup {NoFile}, user : Users \cup {NoFile},
                         scope : Scopes, hash : Contents \cup {NoFile},
                         text : Contents \cup {NoFile}]]

IngestionInit ==
  /\ disk = [p \in Paths |-> NoFile]
  /\ index = [p \in Paths |-> NotIndexed]
  /\ points = [id \in PointIds |-> NoPoint]
  /\ events = {}
  /\ offered = {}
  /\ call = [k \in Calls |-> Idle]

-----------------------------------------------------------------------------
(* Point identifiers and retrieval. *)

\* Mutation: identifiers that leave the owner of the point out.
AnyOwner(user, scope, isText) == CHOOSE x \in Users : TRUE

\* stable_point_id: by user for a document, by workspace for a shared text.
PointOwner(user, scope, isText) == IF isText THEN scope ELSE user

EventPoint(e) == <<PointOwner(e.user, e.scope, e.path = NoFile), e.hash>>

\* Mutation: the private clause without its must_not.
OwnOrMember(reader, p) == p.user = reader \/ p.scope \in MemberOf[reader]

\* _scope_filter: private points of the reader, workspace points of the
\* reader's workspaces.
InScope(reader, p) ==
  \/ p.user = reader /\ p.scope = Private
  \/ p.scope \in MemberOf[reader]

Retrieved(reader) ==
  {points[id].text : id \in {x \in PointIds : points[x] # NoPoint /\ InScope(reader, points[x])}}

-----------------------------------------------------------------------------
(* One call of ingest. *)

Goto(k, step) == call' = [call EXCEPT ![k].step = step]

\* _upsert_index: a hash that is not given keeps the one in the row.
UpsertIndex(k, status, hash) ==
  LET p == call[k].path IN
  index' = [index EXCEPT ![p] = [status |-> status, hash |-> IF hash = NoFile THEN @.hash ELSE hash]]

Unchanged(p, c) == index[p] = [status |-> "ingested", hash |-> c]

\* stat, size, hash and the index row of the path.
HashFile(k) ==
  LET c == disk[call[k].path] IN
  /\ call[k].step = "hash"
  /\ UNCHANGED <<disk, points, events, offered>>
  /\ \/ c = NoFile /\ UpsertIndex(k, "error", NoFile) /\ Goto(k, "failed")
     \/ c \in TooLarge /\ UpsertIndex(k, "skipped", NoFile) /\ Goto(k, "skipped")
     \/ /\ c \notin TooLarge /\ Unchanged(call[k].path, c)
        /\ Goto(k, "skipped") /\ UNCHANGED index
     \/ /\ c \notin TooLarge \cup {NoFile} /\ ~Unchanged(call[k].path, c)
        /\ call' = [call EXCEPT ![k].step = "extract", ![k].hash = c]
        /\ UNCHANGED index

\* The file is read again: its bytes may not be those that were hashed.
ExtractText(k) ==
  LET c == disk[call[k].path] IN
  /\ call[k].step = "extract"
  /\ UNCHANGED <<disk, points, events, offered>>
  /\ \/ /\ c \in Unreadable \cup {NoFile}
        /\ UpsertIndex(k, "error", call[k].hash) /\ Goto(k, "failed")
     \/ /\ c \in Blank
        /\ UpsertIndex(k, "skipped", call[k].hash) /\ Goto(k, "skipped")
     \/ /\ c \notin Unreadable \cup Blank \cup {NoFile}
        /\ call' = [call EXCEPT ![k].step = "upsert", ![k].text = c]
        /\ UNCHANGED index

\* Points exist before the rows that promise them.
Upserted(k) ==
  [points EXCEPT ![<<PointOwner(call[k].user, call[k].scope, IsText(k)), call[k].hash>>] =
     [text |-> call[k].text, user |-> call[k].user, scope |-> call[k].scope]]

\* Mutation: the call goes on although the upsert did not happen.
UpsertSkipped(k) ==
  /\ call[k].step = "upsert"
  /\ Goto(k, IF IsText(k) THEN "event" ELSE "index")
  /\ UNCHANGED <<disk, index, points, events, offered>>

UpsertPoints(k) ==
  /\ call[k].step = "upsert"
  /\ points' = Upserted(k)
  /\ Goto(k, IF IsText(k) THEN "event" ELSE "index")
  /\ UNCHANGED <<disk, index, events, offered>>

\* Qdrant answers with an error or not at all, and the write may have happened;
\* a shared text has no row to mark, and marking a document may fail too.
UpsertFails(k) ==
  /\ call[k].step = "upsert"
  /\ points' \in {points, Upserted(k)}
  /\ \/ Goto(k, "raised") /\ UNCHANGED index
     \/ ~IsText(k) /\ Goto(k, "failed") /\ UpsertIndex(k, "error", NoFile)
  /\ UNCHANGED <<disk, events, offered>>

MarkIngested(k) ==
  /\ call[k].step = "index"
  /\ UpsertIndex(k, "ingested", call[k].hash)
  /\ Goto(k, "event")
  /\ UNCHANGED <<disk, points, events, offered>>

\* _persist_event, or the last commit of ingest_workspace_text.
PersistEvent(k) ==
  /\ call[k].step = "event"
  /\ events' = events \cup {[path |-> call[k].path, user |-> call[k].user,
                             scope |-> call[k].scope, hash |-> call[k].hash]}
  /\ Goto(k, "ingested")
  /\ UNCHANGED <<disk, index, points, offered>>

\* Mutation: a failure to persist the event is swallowed.
EventFailureIgnored(k) ==
  /\ call[k].step \in {"hash", "extract", "index", "event"}
  /\ Goto(k, IF call[k].step = "event" THEN "ingested" ELSE "raised")
  /\ UNCHANGED <<disk, index, points, events, offered>>

\* A statement or a commit fails.  The handler's own _upsert_index meets the
\* session it left behind and raises too: no row is written.
DatabaseFails(k) ==
  /\ call[k].step \in {"hash", "extract", "index", "event"}
  /\ Goto(k, "raised")
  /\ UNCHANGED <<disk, index, points, events, offered>>

IngestStep(k) ==
  \/ HashFile(k) \/ ExtractText(k) \/ UpsertPoints(k) \/ UpsertFails(k)
  \/ MarkIngested(k) \/ PersistEvent(k) \/ DatabaseFails(k)

Document(p, u, s) == [Idle EXCEPT !.step = "hash", !.path = p, !.user = u, !.scope = s]

\* ingest_workspace_text starts at the upsert; its text is its hash.
SharedText(u, w, c) ==
  [Idle EXCEPT !.step = "upsert", !.user = u, !.scope = w, !.hash = c, !.text = c]

-----------------------------------------------------------------------------
\* Whatever crashed or failed on the way, a row that says a document was
\* indexed, or that lists it as context, has points behind it
\* (document_service.py: upsert, then the two commits).
RecordsBacked ==
  /\ \A p \in Paths : index[p].status = "ingested" =>
       \E u \in Users : points[<<u, index[p].hash>>] # NoPoint
  /\ \A e \in events : points[EventPoint(e)] # NoPoint

\* A document that is indexed and that no call works on is in the feed's events:
\* not kept, since the row is committed first and a retry skips the document.
IndexedInFeed ==
  \A p \in Paths : index[p].status = "ingested" /\ (\A k \in Calls : call[k].path # p) =>
    \E e \in events : e.path = p /\ e.hash = index[p].hash

\* A text shared with a workspace stays retrievable by its members whatever
\* is indexed later: its points are the workspace's (text_context.py).
SharedTextRetrievable ==
  \A e \in events : e.path = NoFile =>
    \A r \in Users : e.scope \in MemberOf[r] => e.hash \in Retrieved(r)

\* The same of every workspace document (docs/deployment/enterprise-testing.md:
\* "verify the selected workspace can use that shared context").
SharedDocumentRetrievable ==
  \A e \in events : e.scope # Private =>
    \A r \in Users : e.scope \in MemberOf[r] => e.hash \in Retrieved(r)

\* A user retrieves only what she offered herself or what somebody offered to
\* a workspace of hers (_scope_filter; docs/security.md: "Qdrant retrieval
\* apply user/workspace/organization filters").
RetrievalAllowed ==
  \A r \in Users : \A c \in Retrieved(r) : \E o \in offered :
    /\ o.text = c
    /\ (o.user = r /\ o.scope = Private) \/ o.scope \in MemberOf[r]
=============================================================================
